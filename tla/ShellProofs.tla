---------------------------- MODULE ShellProofs ----------------------------
(***************************************************************************)
(* Theorems about Shell, for every value of its constants.                 *)
(***************************************************************************)
EXTENDS Shell, SequenceTheorems, TLAPS

Kinds  == {"pcall", "fin", "hook", "resume"}
Frames == [kind : Kinds, old : BOOLEAN]
GhostType == [entered : Nat, signals : Nat, handled : Nat, stopped : Nat,
      hints : Nat, restarts : Nat, incall : Nat]

-----------------------------------------------------------------------------
(* The stack of frames and the history.                                    *)

\* Entering a pcall, hook, finalizer or coroutine adds one frame at the end.
LEMMA PushFacts ==
  ASSUME NEW kind \in Kinds, frames \in Seq(Frames), allow \in [Threads -> BOOLEAN]
  PROVE  /\ Push(kind) \in Seq(Frames)
         /\ Len(Push(kind)) = Len(frames) + 1
         /\ \A i \in 1..Len(frames) : Push(kind)[i] = frames[i]
         /\ Push(kind)[Len(frames) + 1] = [kind |-> kind, old |-> allow[Current(frames)]]
<1> DEFINE f == [kind |-> kind, old |-> allow[Current(frames)]]
<1>1. Current(frames) \in Threads
  BY DEF Current, Threads
<1>2. f \in Frames
  BY <1>1 DEF Frames
<1> HIDE DEF f
<1>3. /\ Append(frames, f) \in Seq(Frames)
      /\ Len(Append(frames, f)) = Len(frames) + 1
      /\ \A i \in 1..Len(frames) : Append(frames, f)[i] = frames[i]
      /\ Append(frames, f)[Len(frames) + 1] = f
  BY <1>2, AppendProperties
<1>4. QED
  BY <1>3 DEF Push, f

\* Leaving the innermost one takes the last frame away.
LEMMA RestFacts ==
  ASSUME frames \in Seq(Frames), frames # <<>>
  PROVE  /\ Len(frames) \in Nat \ {0}
         /\ Top \in Frames
         /\ Rest \in Seq(Frames)
         /\ Len(Rest) = Len(frames) - 1
         /\ \A i \in 1..(Len(frames) - 1) : Rest[i] = frames[i]
<1>1. Len(frames) \in Nat \ {0}
  BY EmptySeq
<1>2. Top \in Frames
  BY <1>1, ElementOfSeq DEF Top
<1>3. /\ Rest \in Seq(Frames)
      /\ Len(Rest) = Len(frames) - 1
      /\ \A i \in 1..(Len(frames) - 1) : Rest[i] = frames[i]
  <2> DEFINE n == Len(frames) - 1
  <2>1. n \in Nat /\ 1 \in Int /\ n \in Int
    BY <1>1
  <2>2. \A i \in 1..n : frames[i] \in Frames
    BY <1>1, ElementOfSeq
  <2>3. /\ SubSeq(frames, 1, n) \in Seq(Frames)
        /\ Len(SubSeq(frames, 1, n)) = IF 1 <= n THEN n - 1 + 1 ELSE 0
        /\ \A i \in 1..(n - 1 + 1) : SubSeq(frames, 1, n)[i] = frames[1 + i - 1]
    <3> HIDE DEF n
    <3>1. QED
      BY <2>1, <2>2, SubSeqProperties
  <2>4. n - 1 + 1 = n /\ (IF 1 <= n THEN n - 1 + 1 ELSE 0) = n
    <3> HIDE DEF n
    <3>1. QED
      BY <2>1
  <2>5. \A i \in 1..n : SubSeq(frames, 1, n)[i] = frames[i]
    <3> SUFFICES ASSUME NEW i \in 1..n PROVE SubSeq(frames, 1, n)[i] = frames[i]
      OBVIOUS
    <3>1. 1 + i - 1 = i /\ i \in 1..(n - 1 + 1)
      BY <2>1
    <3> HIDE DEF n
    <3>2. QED
      BY <2>3, <3>1
  <2>6. QED
    BY <2>3, <2>4, <2>5 DEF Rest
<1>4. QED
  BY <1>1, <1>2, <1>3

\* Adding a line to the history leaves a history that ends with the line.
LEMMA HistoryAddFacts ==
  ASSUME NEW h \in Seq(Commands), NEW c \in Commands
  PROVE  LET n == linenoiseHistoryAdd(h, c)
         IN n \in Seq(Commands) /\ n # <<>> /\ n[Len(n)] = c
<1>1. CASE h # <<>> /\ h[Len(h)] = c
  BY <1>1 DEF linenoiseHistoryAdd
<1>2. ASSUME NEW s \in Seq(Commands)
      PROVE  /\ Append(s, c) \in Seq(Commands) /\ Append(s, c) # <<>>
             /\ Append(s, c)[Len(Append(s, c))] = c
  <2>1. Len(s) \in Nat
    BY LenProperties
  <2>2. Append(s, c) \in Seq(Commands) /\ Len(Append(s, c)) = Len(s) + 1
        /\ Append(s, c)[Len(s) + 1] = c
    BY AppendProperties
  <2>3. Append(s, c) # <<>>
    BY <2>1, <2>2, EmptySeq
  <2>4. QED
    BY <2>2, <2>3
<1>3. CASE ~(h # <<>> /\ h[Len(h)] = c) /\ Len(h) < HISTORY_MAX_LEN
  BY <1>2, <1>3 DEF linenoiseHistoryAdd
<1>4. CASE ~(h # <<>> /\ h[Len(h)] = c) /\ ~(Len(h) < HISTORY_MAX_LEN)
  <2>1. h # <<>>
    BY <1>4, EmptySeq, BoundsAssumption
  <2>2. Tail(h) \in Seq(Commands)
    BY <2>1, HeadTailProperties
  <2>3. QED
    BY <1>2, <1>4, <2>2 DEF linenoiseHistoryAdd
<1>5. QED
  BY <1>1, <1>3, <1>4
-----------------------------------------------------------------------------
(* Types and stack heights.  The type of 'top' is not inductive alone: the  *)
(* shell pops values that only the heights say are there.                  *)

\* What the shell has on the Lua stack at each point of the program, over the
\* leftovers of hints: a chunk or a message, the message handler under it.
StackHeight ==
  /\ pc = "dead" => top = 0
  /\ pc \in {"prompt", "save", "load"} => top = 3 * ghost.hints
  /\ pc \in {"docall", "report"} => top = 3 * ghost.hints + 1
  /\ pc = "run" => top = 3 * ghost.hints + 2
  /\ pc = "docall_end" => top = 3 * ghost.hints + (IF status = "ok" THEN 1 ELSE 2)

\* The bookkeeping's counters stay numbers, and only a hint and a restart change
\* the number of hints.
LEMMA GhostStep ==
  ASSUME ghost \in GhostType, [Next]_vars
  PROVE  /\ ghost' \in GhostType /\ ghost.hints \in Nat /\ ghost'.hints \in Nat
         /\ shell_hint => ghost'.hints = ghost.hints + 1
         /\ Restart => ghost'.hints = 0
         /\ ~shell_hint /\ ~Restart => ghost'.hints = ghost.hints
<1> USE DEF GhostType
<1>1. ASSUME Restart
      PROVE  ghost' \in GhostType /\ ghost'.hints = 0
  <2> DEFINE g1 == [ghost EXCEPT !.restarts = ghost.restarts + 1]
  <2>1. ghost' = [g1 EXCEPT !.hints = 0]
    BY <1>1 DEF Restart
  <2>2. g1 \in GhostType
    OBVIOUS
  <2> HIDE DEF g1
  <2>3. QED
    BY <2>1, <2>2
<1>2. ASSUME shell_hint
      PROVE  ghost' \in GhostType /\ ghost'.hints = ghost.hints + 1
  BY <1>2 DEF shell_hint
<1>3. ASSUME NEW c \in Commands, EnterLine(c)
      PROVE  ghost' \in GhostType /\ ghost'.hints = ghost.hints
  BY <1>3 DEF EnterLine
<1>4. ASSUME docall
      PROVE  ghost' \in GhostType /\ ghost'.hints = ghost.hints
  BY <1>4 DEF docall
<1>5. ASSUME lstop
      PROVE  ghost' \in GhostType /\ ghost'.hints = ghost.hints
  BY <1>5 DEF lstop
<1>6. ASSUME laction
      PROVE  ghost' \in GhostType /\ ghost'.hints = ghost.hints
  <2> DEFINE g1 == [ghost EXCEPT !.signals = ghost.signals + 1]
             g2 == [g1 EXCEPT !.handled = ghost.handled + 1]
             g3 == [g2 EXCEPT !.incall = ghost.incall + 1]
  <2>1. ghost' = g3
    BY <1>6 DEF laction
  <2>2. /\ ghost.signals + 1 \in Nat /\ ghost.handled + 1 \in Nat /\ ghost.incall + 1 \in Nat
    OBVIOUS
  <2>3. g1 \in GhostType /\ g1.hints = ghost.hints
    BY <2>2
  <2> HIDE DEF g1
  <2>4. g2 \in GhostType /\ g2.hints = ghost.hints
    BY <2>2, <2>3
  <2> HIDE DEF g2
  <2>5. g3 \in GhostType /\ g3.hints = ghost.hints
    BY <2>2, <2>4
  <2>6. QED
    BY <2>1, <2>5
<1>7. ASSUME KilledBySigint
      PROVE  ghost' \in GhostType /\ ghost'.hints = ghost.hints
  BY <1>7 DEF KilledBySigint
<1>8. ASSUME \/ HistorySave \/ EndOfInput \/ docall_end \/ report \/ UNCHANGED vars
             \/ \E s \in {"ok", "error"} : Load(s)
             \/ LuaStep /\ ~lstop
      PROVE  ghost' = ghost
  BY <1>8 DEF HistorySave, EndOfInput, docall_end, report, vars, Load, LuaStep, luaB_pcall,
     GCTM, UserHook, db_sethook, SetHookMask, lua_newthread, lua_resume, lua_yield, Return,
     lua_error, Unwind, ChunkReturns, ChunkFails, os_exit
<1>9. ~(shell_hint /\ Restart)
  BY DEF shell_hint, Restart
<1>10. ghost.hints \in Nat /\ \A g \in GhostType : g.hints \in Nat
  OBVIOUS
<1> HIDE DEF GhostType
<1>11. QED
  BY <1>1, <1>2, <1>3, <1>4, <1>5, <1>6, <1>7, <1>8, <1>9, <1>10 DEF Next, Sigint

\* The heights are kept, whatever branch a line takes; so 'top' stays a number.
LEMMA HeightStep ==
  ASSUME TypeOK, ghost \in GhostType, StackHeight, [Next]_vars
  PROVE  StackHeight' /\ top' \in Nat
<1>1. /\ ghost.hints \in Nat /\ ghost'.hints \in Nat
      /\ shell_hint => ghost'.hints = ghost.hints + 1
      /\ Restart => ghost'.hints = 0
      /\ ~shell_hint /\ ~Restart => ghost'.hints = ghost.hints
  BY GhostStep
<1>2. top \in Nat
  BY DEF TypeOK
<1> USE <1>2 DEF StackHeight
<1>3. CASE Restart
  BY <1>1, <1>3 DEF Restart
<1>4. CASE shell_hint
  BY <1>1, <1>4 DEF shell_hint
<1> SUFFICES ASSUME ~shell_hint, ~Restart PROVE StackHeight' /\ top' \in Nat
  BY <1>3, <1>4
<1>5. ghost'.hints = ghost.hints /\ ghost.hints \in Nat
  BY <1>1
<1>6. CASE \/ HistorySave \/ docall \/ docall_end \/ report \/ \E c \in Commands : EnterLine(c)
           \/ \E s \in {"ok", "error"} : Load(s)
  BY <1>5, <1>6 DEF HistorySave, EnterLine, docall, docall_end, report, Load
<1>7. ASSUME Dies PROVE StackHeight' /\ top' \in Nat
  BY <1>7 DEF Dies
<1>8. CASE LuaStep
  <2>1. CASE ChunkReturns
    BY <1>5, <2>1 DEF ChunkReturns, LuaRuns
  <2>2. CASE ChunkFails
    BY <1>5, <2>2 DEF ChunkFails
  <2>3. CASE os_exit
    BY <1>7, <2>3 DEF os_exit
  <2>4. CASE LuaStep /\ ~ChunkReturns /\ ~ChunkFails /\ ~os_exit
    <3>1. pc' = pc /\ status' = status /\ top' = top
      BY <2>4 DEF LuaStep, luaB_pcall, GCTM, UserHook, lstop, db_sethook, SetHookMask,
         lua_newthread, lua_resume, lua_yield, Return, lua_error, Unwind
    <3>2. QED
      BY <1>5, <3>1
  <2>5. QED
    BY <1>8, <2>1, <2>2, <2>3, <2>4
<1>9. CASE Sigint
  BY <1>5, <1>7, <1>9 DEF Sigint, laction, KilledBySigint
<1>10. CASE EndOfInput
  BY <1>7, <1>10 DEF EndOfInput
<1>11. CASE UNCHANGED vars
  BY <1>11 DEF vars
<1>12. QED
  BY <1>6, <1>8, <1>9, <1>10, <1>11 DEF Next

\* A process that ended has every variable at the value it starts from.
LEMMA DiesType ==
  ASSUME TypeOK, Dies
  PROVE  TypeOK'
<1>1. <<>> \in Seq(Frames) /\ <<>> \in Seq(Commands)
  BY EmptySeq
<1>2. QED
  BY <1>1 DEF TypeOK, Dies, Threads, Idle, Frames, Kinds, Masks

\* What debug.sethook may be given.
LEMMA Sethooks ==
  ASSUME LuaStep
  PROVE  \/ luaB_pcall \/ GCTM \/ UserHook \/ lstop \/ SetHookMask \/ lua_newthread \/ lua_resume
         \/ \E h \in {"none", "user"}, m \in Masks : db_sethook(h, m)
         \/ lua_yield \/ Return \/ lua_error \/ \E r \in BOOLEAN : Unwind(r)
         \/ ChunkReturns \/ ChunkFails \/ os_exit
<1>1. "none" \in Masks /\ UserMasks \subseteq Masks
  BY MasksAssumption DEF Masks
<1>2. QED
  BY <1>1 DEF LuaStep

\* Every step keeps the types.
LEMMA TypeStep ==
  ASSUME TypeOK, top' \in Nat, [Next]_vars
  PROVE  TypeOK'
<1> USE DEF TypeOK, Frames, Kinds
<1>1. CASE Restart
  BY <1>1 DEF Restart, luaEnv, hooks
<1>2. CASE shell_hint
  BY <1>2 DEF shell_hint, luaEnv, hooks, lines
<1>3. ASSUME NEW c \in Commands, EnterLine(c) PROVE TypeOK'
  <2>1. mem' \in Seq(Commands)
    BY <1>3, HistoryAddFacts DEF EnterLine
  <2>2. QED
    BY <1>3, <2>1 DEF EnterLine, luaEnv, hooks
<1>4. CASE HistorySave
  BY <1>4 DEF HistorySave, luaEnv, hooks
<1>5. CASE EndOfInput
  BY <1>5, DiesType DEF EndOfInput
<1>6. ASSUME NEW s \in {"ok", "error"}, Load(s) PROVE TypeOK'
  BY <1>6 DEF Load, luaEnv, hooks, lines
<1>7. CASE docall
  BY <1>7 DEF docall, luaEnv, hooks, lines
<1>8. CASE LuaStep
  <2>1. CASE luaB_pcall
    BY <2>1, PushFacts DEF luaB_pcall, hooks, lines
  <2>2. CASE GCTM
    BY <2>2, PushFacts DEF GCTM, Current, Threads, lines
  <2>3. CASE UserHook
    BY <2>3, PushFacts DEF UserHook, Current, Threads, lines
  <2>4. CASE lstop
    BY <2>4 DEF lstop, Current, Threads, lines, Setting, Masks
  <2>5. ASSUME NEW h \in {"none", "user"}, NEW m \in Masks, db_sethook(h, m) PROVE TypeOK'
    BY <2>5 DEF db_sethook, Current, Threads, lines, Setting
  <2>6. CASE SetHookMask
    BY <2>6 DEF SetHookMask, Current, Threads, lines, Throwing, Idle, Masks
  <2>7. CASE lua_newthread
    BY <2>7 DEF lua_newthread, Current, Threads, lines
  <2>8. CASE lua_resume
    BY <2>8, PushFacts DEF lua_resume, lines
  <2>9. CASE lua_yield
    BY <2>9, RestFacts DEF lua_yield, lines
  <2>10. CASE Return
    BY <2>10, RestFacts DEF Return, AllowReturned, Current, Threads, lines
  <2>11. CASE lua_error
    BY <2>11 DEF lua_error, Throwing, Threads, lines, Masks
  <2>12. ASSUME NEW r \in BOOLEAN, Unwind(r) PROVE TypeOK'
    BY <2>12, RestFacts DEF Unwind, AllowUnwound, Current, Threads, Idle, lines, Masks
  <2>13. CASE ChunkReturns
    BY <2>13 DEF ChunkReturns, luaEnv, hooks, lines
  <2>14. CASE ChunkFails
    BY <2>14 DEF ChunkFails, Idle, Threads, lines, Masks
  <2>15. CASE os_exit
    BY <2>15, DiesType DEF os_exit
  <2>16. QED
    BY <1>8, <2>1, <2>2, <2>3, <2>4, <2>5, <2>6, <2>7, <2>8, <2>9, <2>10, <2>11, <2>12,
       <2>13, <2>14, <2>15, Sethooks
<1>9. CASE docall_end
  BY <1>9 DEF docall_end, luaEnv, hooks, lines
<1>10. CASE report
  BY <1>10 DEF report, luaEnv, hooks, lines
<1>11. CASE Sigint
  BY <1>11, DiesType DEF Sigint, laction, KilledBySigint, Threads, lines, Masks
<1>12. CASE UNCHANGED vars
  BY <1>12 DEF vars, lines, luaEnv, hooks
<1> HIDE DEF TypeOK
<1>13. QED
  BY <1>1, <1>2, <1>3, <1>4, <1>5, <1>6, <1>7, <1>8, <1>9, <1>10, <1>11, <1>12 DEF Next

Core == TypeOK /\ ghost \in GhostType /\ StackHeight

\* Types and stack heights hold in every reachable state.
THEOREM CoreInvariant == Spec => []Core
<1>1. Init => Core
  <2> SUFFICES ASSUME Init PROVE Core
    OBVIOUS
  <2>1. <<>> \in Seq(Frames) /\ <<>> \in Seq(Commands)
    BY EmptySeq
  <2>2. ghost \in GhostType /\ ghost.hints = 0
    BY DEF Init, NoGhost, GhostType
  <2>3. TypeOK
    BY <2>1 DEF Init, TypeOK, Threads, Idle, Frames, Kinds, Masks
  <2>4. StackHeight
    BY <2>2 DEF Init, StackHeight
  <2>5. QED
    BY <2>2, <2>3, <2>4 DEF Core
<1>2. Core /\ [Next]_vars => Core'
  BY GhostStep, HeightStep, TypeStep DEF Core
<1>3. QED
  BY <1>1, <1>2, PTL DEF Spec

\* The type invariant of Shell.
THEOREM TypeCorrect == Spec => []TypeOK
<1>1. Core => TypeOK
  BY DEF Core
<1>2. QED
  BY <1>1, CoreInvariant, PTL

\* Between two lines the shell has left nothing of them on the Lua stack (main.c
\* and lua.c's dochunk, docall and report).
THEOREM StackIsBalanced == Spec => []StackBalanced
<1>1. Core => StackBalanced
  BY DEF Core, StackHeight, StackBalanced
<1>2. QED
  BY <1>1, CoreInvariant, PTL

-----------------------------------------------------------------------------
(* Interrupts.                                                             *)

\* A process that ended has no hook, so a restart inherits no armed one.
DeadHasNoHook == pc = "dead" => hook["main"] = "none"

\* Every SIGINT that laction handled raises at most one error in the main
\* thread: lstop disarms itself before it raises (lua.c).
THEOREM InterruptsOnce == Spec => []InterruptOnce
<1> DEFINE Inv == InterruptOnce /\ DeadHasNoHook
<1>1. Init => Inv
  BY DEF Init, NoGhost, InterruptOnce, DeadHasNoHook, Threads
<1>2. Core /\ Inv /\ [Next]_vars => Inv'
  <2> SUFFICES ASSUME Core, Inv, [Next]_vars PROVE Inv'
    OBVIOUS
  <2> USE DEF InterruptOnce, DeadHasNoHook
  <2>1. /\ ghost.stopped \in Nat /\ ghost.handled \in Nat /\ hook \in [Threads -> {"none", "user", "lstop"}]
        /\ pc # "dead" \/ hook["main"] = "none"
    BY DEF Core, GhostType, TypeOK
  <2>2. CASE Restart
    BY <2>1, <2>2 DEF Restart, luaEnv, hooks
  <2>3. CASE laction /\ Sigint
    BY <2>1, <2>3 DEF laction, Sigint, Threads
  <2>4. ASSUME Dies, ghost'.stopped = ghost.stopped, ghost'.handled = ghost.handled PROVE Inv'
    BY <2>1, <2>4 DEF Dies, Threads
  <2>5. CASE KilledBySigint
    <3>1. ghost'.stopped = ghost.stopped /\ ghost'.handled = ghost.handled
      BY <2>5 DEF KilledBySigint, Core, GhostType
    <3>2. QED
      BY <2>4, <2>5, <3>1 DEF KilledBySigint
  <2>6. CASE os_exit \/ EndOfInput
    BY <2>4, <2>6 DEF os_exit, EndOfInput
  <2>7. CASE lstop
    BY <2>1, <2>7 DEF lstop, LuaRuns, Current, Threads
  <2>8. ASSUME NEW h \in {"none", "user"}, NEW m \in Masks, db_sethook(h, m) PROVE Inv'
    BY <2>1, <2>8 DEF db_sethook, LuaRuns, Current, Threads
  <2>9. CASE lua_newthread
    BY <2>1, <2>9 DEF lua_newthread, LuaRuns, Threads
  <2>10. ASSUME hook' = hook, ghost'.stopped = ghost.stopped, ghost'.handled = ghost.handled, pc' # "dead"
         PROVE  Inv'
    BY <2>10
  <2>11. CASE shell_hint
    BY <2>10, <2>11 DEF shell_hint, luaEnv, hooks, Core, GhostType
  <2>12. ASSUME NEW c \in Commands, EnterLine(c) PROVE Inv'
    BY <2>10, <2>12 DEF EnterLine, luaEnv, hooks, Core, GhostType
  <2>13. CASE docall
    BY <2>10, <2>13 DEF docall, luaEnv, hooks, Core, GhostType
  <2>14. ASSUME HistorySave \/ docall_end \/ report \/ \E s \in {"ok", "error"} : Load(s)
         PROVE  Inv'
    BY <2>10, <2>14 DEF HistorySave, docall_end, report, Load, luaEnv, hooks
  <2>15. ASSUME LuaStep, ~lstop, ~lua_newthread, ~os_exit, ~\E h \in {"none", "user"}, m \in Masks : db_sethook(h, m)
         PROVE  Inv'
    <3>1. hook' = hook /\ ghost' = ghost /\ pc' # "dead"
      BY <2>15, Sethooks DEF LuaRuns, luaB_pcall, GCTM, UserHook, SetHookMask, lua_resume, lua_yield,
         Return, lua_error, Unwind, ChunkReturns, ChunkFails, luaEnv, hooks
    <3>2. QED
      BY <2>10, <3>1
  <2>16. CASE UNCHANGED vars
    BY <2>16 DEF vars, luaEnv, hooks
  <2> HIDE DEF InterruptOnce, DeadHasNoHook
  <2>17. CASE LuaStep
    BY <2>6, <2>7, <2>8, <2>9, <2>15, <2>17
  <2>18. CASE Sigint
    BY <2>3, <2>5, <2>18 DEF Sigint
  <2>19. QED
    BY <2>2, <2>6, <2>11, <2>12, <2>13, <2>14, <2>16, <2>17, <2>18 DEF Next
<1>3. QED
  BY <1>1, <1>2, CoreInvariant, PTL DEF Spec

\* While a chunk runs, SIGINT has its handler exactly until it was used once.
HandlerInPlace ==
  pc = "run" => \/ disp = "laction" /\ ghost.incall = 0
                \/ disp = "default" /\ ghost.incall = 1

\* A first SIGINT during a chunk never ends the program (lua.c: laction puts the
\* default handler back "if another SIGINT happens").
THEOREM FirstInterruptIsSafe == Spec => FirstInterruptSurvives
<1>1. Init => HandlerInPlace
  BY DEF Init, HandlerInPlace
<1>2. Core /\ HandlerInPlace /\ [Next]_vars => HandlerInPlace'
  <2> SUFFICES ASSUME Core, HandlerInPlace, [Next]_vars PROVE HandlerInPlace'
    OBVIOUS
  <2> USE DEF HandlerInPlace
  <2>1. ASSUME pc' # "run" PROVE HandlerInPlace'
    BY <2>1
  <2>2. CASE Restart \/ HistorySave \/ EndOfInput \/ docall_end \/ report
             \/ (\E c \in Commands : EnterLine(c)) \/ (\E s \in {"ok", "error"} : Load(s))
    BY <2>1, <2>2 DEF Restart, HistorySave, EndOfInput, Dies, docall_end, report, EnterLine, Load
  <2>3. CASE shell_hint
    BY <2>1, <2>3 DEF shell_hint
  <2>4. CASE docall
    <3>1. ghost'.incall = 0
      BY <2>4 DEF docall, Core, GhostType
    <3>2. QED
      BY <2>4, <3>1 DEF docall
  <2>5. CASE laction /\ Sigint
    <3>1. ghost'.incall = ghost.incall + 1
      BY <2>5 DEF laction, Core, GhostType
    <3>2. QED
      BY <2>5, <3>1 DEF laction
  <2>6. CASE KilledBySigint
    BY <2>6 DEF KilledBySigint, Dies
  <2>7. CASE ChunkReturns \/ ChunkFails \/ os_exit
    BY <2>7 DEF ChunkReturns, ChunkFails, os_exit, Dies
  <2>8. ASSUME LuaStep, ~ChunkReturns, ~ChunkFails, ~os_exit PROVE HandlerInPlace'
    <3>1. pc' = pc /\ disp' = disp
      BY <2>8 DEF LuaStep, luaB_pcall, GCTM, UserHook, lstop, db_sethook, SetHookMask,
         lua_newthread, lua_resume, lua_yield, Return, lua_error, Unwind
    <3>2. CASE lstop
      <4>1. ghost'.incall = ghost.incall
        BY <3>2 DEF lstop, Core, GhostType
      <4>2. QED
        BY <3>1, <4>1
    <3>3. CASE ~lstop
      <4>1. ghost' = ghost
        BY <2>8, <3>3 DEF LuaStep, luaB_pcall, GCTM, UserHook, db_sethook, SetHookMask,
           lua_newthread, lua_resume, lua_yield, Return, lua_error, Unwind
      <4>2. QED
        BY <3>1, <4>1
    <3>4. QED
      BY <3>2, <3>3
  <2>9. CASE UNCHANGED vars
    BY <2>9 DEF vars
  <2> HIDE DEF HandlerInPlace
  <2>10. QED
    BY <2>2, <2>3, <2>4, <2>5, <2>6, <2>7, <2>8, <2>9 DEF Next, Sigint
<1>3. HandlerInPlace /\ [Next]_vars =>
        [pc = "run" /\ pc' = "dead" /\ ghost' # ghost => ghost.incall = 1]_vars
  <2> SUFFICES ASSUME HandlerInPlace, [Next]_vars, pc = "run", pc' = "dead", ghost' # ghost
               PROVE  ghost.incall = 1
    OBVIOUS
  <2>1. CASE KilledBySigint
    BY <2>1 DEF KilledBySigint, HandlerInPlace
  <2>2. ~(laction \/ lstop)
    BY DEF laction, lstop
  <2>3. ~(\E c \in Commands : EnterLine(c)) /\ ~docall /\ ~Restart /\ ~shell_hint
    BY DEF EnterLine, docall, Restart, shell_hint
  <2>4. ~(HistorySave \/ EndOfInput \/ docall_end \/ report \/ UNCHANGED vars
          \/ \E s \in {"ok", "error"} : Load(s))
    BY DEF HistorySave, EndOfInput, docall_end, report, Load, vars
  <2>5. ~LuaStep
    BY <2>2 DEF LuaStep, luaB_pcall, GCTM, UserHook, db_sethook, SetHookMask, lua_newthread,
       lua_resume, lua_yield, Return, lua_error, Unwind, ChunkReturns, ChunkFails, os_exit
  <2>6. QED
    BY <2>1, <2>2, <2>3, <2>4, <2>5 DEF Next, Sigint
<1>4. QED
  BY <1>1, <1>2, <1>3, CoreInvariant, PTL DEF Spec, FirstInterruptSurvives

-----------------------------------------------------------------------------
(* The history.                                                            *)

\* What is entered is the last line of the history before the history is saved,
\* and a process that starts has no line yet.
EnteredIsLast ==
  /\ pc = "save" => mem # <<>> /\ mem[Len(mem)] = cmd
  /\ pc = "dead" => cmd = NoCommand

\* A line that runs is in the history file already (main.c saves before dostring).
THEOREM LinesAreSaved == Spec => []RunningLineIsSaved
<1> DEFINE Inv == RunningLineIsSaved /\ EnteredIsLast
<1>1. Init => Inv
  BY DEF Init, RunningLineIsSaved, EnteredIsLast
<1>2. Core /\ Inv /\ [Next]_vars => Inv'
  <2> SUFFICES ASSUME Core, Inv, [Next]_vars PROVE Inv'
    OBVIOUS
  <2> USE DEF RunningLineIsSaved, EnteredIsLast
  <2>1. CASE Restart
    BY <2>1 DEF Restart
  <2>2. ASSUME NEW c \in Commands, EnterLine(c) PROVE Inv'
    <3>1. mem \in Seq(Commands)
      BY DEF Core, TypeOK
    <3>2. mem' # <<>> /\ mem'[Len(mem')] = c
      BY <2>2, <3>1, HistoryAddFacts DEF EnterLine
    <3>3. QED
      BY <2>2, <3>2 DEF EnterLine
  <2>3. CASE HistorySave
    BY <2>3 DEF HistorySave
  <2>4. ASSUME Dies PROVE Inv'
    BY <2>4 DEF Dies
  <2>5. CASE EndOfInput \/ os_exit \/ KilledBySigint
    BY <2>4, <2>5 DEF EndOfInput, os_exit, KilledBySigint
  <2>6. CASE shell_hint \/ docall \/ docall_end \/ report \/ \E s \in {"ok", "error"} : Load(s)
    BY <2>6 DEF shell_hint, docall, docall_end, report, Load, lines
  <2>7. CASE LuaStep /\ ~os_exit
    <3>1. pc = "run" /\ pc' \in {"run", "docall_end"} /\ cmd' = cmd /\ disk' = disk
      BY <2>7 DEF LuaStep, LuaRuns, luaB_pcall, GCTM, UserHook, lstop, db_sethook, SetHookMask,
         lua_newthread, lua_resume, lua_yield, Return, lua_error, Unwind, ChunkReturns,
         ChunkFails, lines
    <3>2. QED
      BY <3>1
  <2>8. CASE laction
    BY <2>8 DEF laction, lines
  <2>9. CASE UNCHANGED vars
    BY <2>9 DEF vars, lines
  <2> HIDE DEF RunningLineIsSaved, EnteredIsLast
  <2>10. QED
    BY <2>1, <2>2, <2>3, <2>5, <2>6, <2>7, <2>8, <2>9 DEF Next, Sigint
<1>3. QED
  BY <1>1, <1>2, CoreInvariant, PTL DEF Spec

-----------------------------------------------------------------------------
(* Hooks come back: what each frame remembers of allowhook is right, so     *)
(* every way out of a frame restores it.                                   *)

\* Do the first n frames leave the main thread's hooks on?  Are they all the main
\* thread's own?
QuietTo(fs, n) ==
  \A i \in 1..n : fs[i].kind \in {"hook", "fin"} => \E j \in 1..i : fs[j].kind = "resume"
MainTo(fs, n) == \A i \in 1..n : fs[i].kind # "resume"

\* A frame of the main thread remembers whether its hooks were on, and a hook was
\* called with hooks on.
FramesRemember(fs) ==
  \A n \in 1..Len(fs) : MainTo(fs, n - 1) =>
    /\ fs[n].old <=> QuietTo(fs, n - 1)
    /\ fs[n].kind = "hook" => fs[n].old

\* What a prefix of the frames says of the main thread depends on it alone.
LEMMA SamePrefix ==
  ASSUME NEW f, NEW g, NEW n \in Nat, \A i \in 1..n : f[i] = g[i]
  PROVE  /\ QuietTo(f, n) <=> QuietTo(g, n)
         /\ MainTo(f, n) <=> MainTo(g, n)
<1>1. \A i \in 1..n : 1..i \subseteq 1..n
  OBVIOUS
<1>2. QED
  BY <1>1 DEF QuietTo, MainTo

\* One frame more: quiet only if the shorter prefix was and the frame is.
LEMMA QuietStep ==
  ASSUME NEW f, NEW n \in Nat \ {0}
  PROVE  QuietTo(f, n) <=> /\ QuietTo(f, n - 1)
                           /\ f[n].kind \in {"hook", "fin"} => ~MainTo(f, n)
<1>1. 1..n = 1..(n - 1) \cup {n}
  OBVIOUS
<1>2. QED
  BY <1>1 DEF QuietTo, MainTo

\* The main thread executes exactly when no resume is in progress.
LEMMA CurrentIsMain ==
  ASSUME NEW fs \in Seq(Frames)
  PROVE  /\ Current(fs) = "main" <=> MainTo(fs, Len(fs))
         /\ Current(fs) = "co" <=> ~MainTo(fs, Len(fs))
<1>1. DOMAIN fs = 1..Len(fs)
  BY LenProperties
<1>2. QED
  BY <1>1 DEF Current, MainTo

\* Entering a frame.
LEMMA PushRemembers ==
  ASSUME NEW kind \in Kinds, frames \in Seq(Frames), allow \in [Threads -> BOOLEAN],
         FramesRemember(frames), allow["main"] <=> QuietTo(frames, Len(frames)),
         kind = "hook" => allow[Current(frames)]
  PROVE  /\ FramesRemember(Push(kind))
         /\ QuietTo(Push(kind), Len(Push(kind))) <=>
              /\ QuietTo(frames, Len(frames))
              /\ kind \in {"hook", "fin"} => Current(frames) = "co"
<1> DEFINE L == Len(frames)
           fs == Push(kind)
<1>1. /\ fs \in Seq(Frames) /\ Len(fs) = L + 1 /\ L \in Nat
      /\ \A i \in 1..L : fs[i] = frames[i]
      /\ fs[L + 1] = [kind |-> kind, old |-> allow[Current(frames)]]
  BY PushFacts, LenProperties
<1> HIDE DEF fs, L
<1>2. \A n \in 0..L : /\ QuietTo(fs, n) <=> QuietTo(frames, n)
                      /\ MainTo(fs, n) <=> MainTo(frames, n)
  <2> SUFFICES ASSUME NEW n \in 0..L
               PROVE  /\ QuietTo(fs, n) <=> QuietTo(frames, n)
                      /\ MainTo(fs, n) <=> MainTo(frames, n)
    OBVIOUS
  <2>1. n \in Nat /\ \A i \in 1..n : fs[i] = frames[i]
    BY <1>1
  <2>2. QED
    BY <2>1, SamePrefix
<1>3. Current(frames) = "main" <=> MainTo(frames, L)
  BY CurrentIsMain DEF L
<1>4. Current(frames) = "co" <=> ~MainTo(frames, L)
  BY CurrentIsMain DEF L
<1>5. FramesRemember(fs)
  <2> SUFFICES ASSUME NEW n \in 1..(L + 1), MainTo(fs, n - 1)
               PROVE  /\ fs[n].old <=> QuietTo(fs, n - 1)
                      /\ fs[n].kind = "hook" => fs[n].old
    BY <1>1 DEF FramesRemember
  <2>1. CASE n = L + 1
    <3>1. n - 1 = L /\ L \in 0..L
      BY <1>1, <2>1
    <3>2. Current(frames) = "main" /\ (QuietTo(fs, L) <=> QuietTo(frames, L))
      BY <1>2, <1>3, <3>1
    <3>3. fs[n].kind = kind /\ fs[n].old = allow["main"]
      BY <1>1, <2>1, <3>2
    <3>4. QED
      BY <3>1, <3>2, <3>3 DEF L
  <2>2. CASE n # L + 1
    <3>1. n \in 1..L /\ n - 1 \in 0..L
      BY <1>1, <2>2
    <3>2. fs[n] = frames[n] /\ MainTo(frames, n - 1)
          /\ (QuietTo(fs, n - 1) <=> QuietTo(frames, n - 1))
      BY <1>1, <1>2, <3>1
    <3>3. QED
      BY <3>1, <3>2 DEF FramesRemember, L
  <2>3. QED
    BY <2>1, <2>2
<1>6. QuietTo(fs, L + 1) <=> /\ QuietTo(fs, L)
                             /\ kind \in {"hook", "fin"} => ~MainTo(fs, L + 1)
  <2>1. L + 1 \in Nat \ {0} /\ (L + 1) - 1 = L /\ fs[L + 1].kind = kind
    BY <1>1
  <2>2. QED
    BY <2>1, QuietStep
<1>7. kind # "resume" => (MainTo(fs, L + 1) <=> MainTo(fs, L))
  <2>1. 1..(L + 1) = 1..L \cup {L + 1} /\ fs[L + 1].kind = kind
    BY <1>1
  <2>2. QED
    BY <2>1 DEF MainTo
<1>8. L \in 0..L
  BY <1>1
<1>9. QED
  BY <1>1, <1>2, <1>4, <1>5, <1>6, <1>7, <1>8 DEF fs, L

\* Leaving a frame, by a return or an error.
LEMMA PopRemembers ==
  ASSUME frames \in Seq(Frames), frames # <<>>, FramesRemember(frames)
  PROVE  /\ FramesRemember(Rest)
         /\ Current(frames) = "main" =>
              /\ Current(Rest) = "main"
              /\ Top.old <=> QuietTo(Rest, Len(Rest))
              /\ Top.kind = "hook" => Top.old
         /\ Current(frames) = "co" \/ Top.kind \notin {"hook", "fin"} =>
              (QuietTo(frames, Len(frames)) <=> QuietTo(Rest, Len(Rest)))
<1> DEFINE L == Len(frames)
           fs == Rest
<1>1. /\ fs \in Seq(Frames) /\ Len(fs) = L - 1 /\ L \in Nat \ {0}
      /\ \A i \in 1..(L - 1) : fs[i] = frames[i]
      /\ Top = frames[L]
  BY RestFacts DEF Top
<1> HIDE DEF fs, L
<1>2. \A n \in 0..(L - 1) : /\ QuietTo(fs, n) <=> QuietTo(frames, n)
                            /\ MainTo(fs, n) <=> MainTo(frames, n)
  <2> SUFFICES ASSUME NEW n \in 0..(L - 1)
               PROVE  /\ QuietTo(fs, n) <=> QuietTo(frames, n)
                      /\ MainTo(fs, n) <=> MainTo(frames, n)
    OBVIOUS
  <2>1. n \in Nat /\ \A i \in 1..n : fs[i] = frames[i]
    BY <1>1
  <2>2. QED
    BY <2>1, SamePrefix
<1>3. /\ Current(frames) = "main" <=> MainTo(frames, L)
      /\ Current(frames) = "co" <=> ~MainTo(frames, L)
      /\ Current(fs) = "main" <=> MainTo(fs, L - 1)
  BY <1>1, CurrentIsMain DEF L
<1>4. FramesRemember(fs)
  <2> SUFFICES ASSUME NEW n \in 1..(L - 1), MainTo(fs, n - 1)
               PROVE  /\ fs[n].old <=> QuietTo(fs, n - 1)
                      /\ fs[n].kind = "hook" => fs[n].old
    BY <1>1 DEF FramesRemember
  <2>1. n \in 1..L /\ n - 1 \in 0..(L - 1)
    BY <1>1
  <2>2. fs[n] = frames[n] /\ MainTo(frames, n - 1)
        /\ (QuietTo(fs, n - 1) <=> QuietTo(frames, n - 1))
    BY <1>1, <1>2, <2>1
  <2>3. QED
    BY <2>1, <2>2 DEF FramesRemember, L
<1>5. L - 1 \in 0..(L - 1) /\ L \in 1..L
  BY <1>1
<1>6. ASSUME MainTo(frames, L)
      PROVE  /\ MainTo(fs, L - 1)
             /\ Top.old <=> QuietTo(fs, L - 1)
             /\ Top.kind = "hook" => Top.old
  <2>1. MainTo(frames, L - 1)
    <3>1. 1..(L - 1) \subseteq 1..L
      BY <1>1
    <3>2. QED
      BY <1>6, <3>1 DEF MainTo
  <2>2. QED
    BY <1>1, <1>2, <1>5, <2>1 DEF FramesRemember, L
<1>7. QuietTo(frames, L) <=> /\ QuietTo(frames, L - 1)
                             /\ Top.kind \in {"hook", "fin"} => ~MainTo(frames, L)
  BY <1>1, QuietStep
<1>8. QED
  BY <1>1, <1>2, <1>3, <1>4, <1>5, <1>6, <1>7 DEF fs, L

\* Where allowhook of the main thread is known: unless an error is on its way in
\* the main thread.  Between two chunks nothing is in progress.
AllowKnown ==
  setting.then = "idle" \/ Current(frames) = "co" =>
    (allow["main"] <=> QuietTo(frames, Len(frames)))
NothingInProgress == pc # "run" => frames = <<>> /\ setting = Idle

HookInv == FramesRemember(frames) /\ AllowKnown /\ NothingInProgress

\* No step of a chunk loses track of allowhook.
LEMMA HookStep ==
  ASSUME Core, HookInv, LuaStep
  PROVE  HookInv'
<1>1. /\ frames \in Seq(Frames) /\ allow \in [Threads -> BOOLEAN] /\ pc = "run"
      /\ setting \in [then : {"idle", "throw"}, thread : Threads, mask : Masks]
      /\ Current(frames) \in Threads
  BY DEF Core, TypeOK, Frames, Kinds, LuaStep, LuaRuns, luaB_pcall, GCTM, UserHook, lstop,
     db_sethook, SetHookMask, lua_newthread, lua_resume, lua_yield, Return, lua_error, Unwind,
     ChunkReturns, ChunkFails, os_exit, Current, Threads
<1>2. FramesRemember(frames) /\ AllowKnown
  BY DEF HookInv
<1>3. ASSUME setting = Idle
      PROVE  allow["main"] <=> QuietTo(frames, Len(frames))
  BY <1>2, <1>3 DEF AllowKnown, Idle
<1>4. ASSUME frames' = frames, pc' = pc, FramesRemember(frames),
             setting'.then = "idle" \/ Current(frames) = "co" =>
               (allow'["main"] <=> QuietTo(frames, Len(frames)))
      PROVE  HookInv'
  BY <1>1, <1>4 DEF HookInv, AllowKnown, NothingInProgress
<1>5. ASSUME NEW kind \in {"pcall", "resume"}, LuaRuns, frames' = Push(kind), allow' = allow,
             pc' = pc
      PROVE  HookInv'
  <2>1. kind \in Kinds
    BY DEF Kinds
  <2>2. /\ FramesRemember(frames')
        /\ QuietTo(frames', Len(frames')) <=> QuietTo(frames, Len(frames))
    BY <1>1, <1>2, <1>3, <1>5, <2>1, PushRemembers DEF LuaRuns
  <2>3. QED
    BY <1>1, <1>3, <1>5, <2>2 DEF HookInv, AllowKnown, NothingInProgress, LuaRuns
<1>6. CASE luaB_pcall \/ lua_resume
  BY <1>5, <1>6 DEF luaB_pcall, lua_resume, hooks
<1>7. ASSUME NEW kind \in {"fin", "hook"}, LuaRuns, frames' = Push(kind), pc' = pc,
             allow' = [allow EXCEPT ![Current(frames)] = FALSE],
             kind = "hook" => allow[Current(frames)]
      PROVE  HookInv'
  <2>1. kind \in Kinds
    BY DEF Kinds
  <2>2. /\ FramesRemember(frames')
        /\ QuietTo(frames', Len(frames')) <=>
             QuietTo(frames, Len(frames)) /\ Current(frames) = "co"
    BY <1>1, <1>2, <1>3, <1>7, <2>1, PushRemembers DEF LuaRuns
  <2>3. allow'["main"] <=> allow["main"] /\ Current(frames) = "co"
    BY <1>1, <1>7 DEF Threads
  <2>4. QED
    BY <1>1, <1>3, <1>7, <2>2, <2>3 DEF HookInv, AllowKnown, NothingInProgress, LuaRuns
<1>8. CASE GCTM \/ UserHook
  BY <1>7, <1>8 DEF GCTM, UserHook
<1>9. CASE lstop
  BY <1>1, <1>2, <1>3, <1>4, <1>9 DEF lstop, LuaRuns, Setting, Threads
<1>10. ASSUME NEW h \in {"none", "user"}, NEW m \in Masks, db_sethook(h, m) PROVE HookInv'
  BY <1>2, <1>3, <1>4, <1>10 DEF db_sethook, LuaRuns
<1>11. CASE SetHookMask
  BY <1>1, <1>2, <1>4, <1>11 DEF SetHookMask, Throwing, Idle, AllowKnown
<1>12. CASE lua_newthread
  BY <1>1, <1>2, <1>3, <1>4, <1>12 DEF lua_newthread, LuaRuns, Threads
<1>13. CASE lua_error
  BY <1>2, <1>3, <1>4, <1>13 DEF lua_error, LuaRuns
<1>14. ASSUME frames # <<>>, frames' = Rest, pc' = pc,
              setting'.then = "idle" \/ Current(frames) = "co" =>
                (allow'["main"] <=> QuietTo(Rest, Len(Rest))),
              Current(frames) = "main" => Current(Rest) = "main"
       PROVE  HookInv'
  BY <1>1, <1>2, <1>14, PopRemembers DEF HookInv, AllowKnown, NothingInProgress, Threads, Current
<1>15. CASE lua_yield
  <2>1. frames # <<>> /\ Top.kind = "resume" /\ allow' = allow /\ frames' = Rest /\ pc' = pc
        /\ setting = Idle
    BY <1>15 DEF lua_yield, LuaRuns
  <2>2. /\ QuietTo(frames, Len(frames)) <=> QuietTo(Rest, Len(Rest))
        /\ Current(frames) = "main" => Current(Rest) = "main"
    BY <1>1, <1>2, <2>1, PopRemembers
  <2>3. QED
    BY <1>3, <1>14, <2>1, <2>2
<1>16. CASE Return
  <2>1. frames # <<>> /\ allow' = AllowReturned(Current(frames)) /\ frames' = Rest /\ pc' = pc
        /\ setting = Idle
    BY <1>16 DEF Return, LuaRuns
  <2>2. /\ Current(frames) = "main" =>
             /\ Current(Rest) = "main"
             /\ Top.old <=> QuietTo(Rest, Len(Rest))
             /\ Top.kind = "hook" => Top.old
        /\ Current(frames) = "co" \/ Top.kind \notin {"hook", "fin"} =>
             (QuietTo(frames, Len(frames)) <=> QuietTo(Rest, Len(Rest)))
    BY <1>1, <1>2, <2>1, PopRemembers
  <2>3. CASE Current(frames) = "main"
    <3>1. CASE Top.kind = "fin"
      BY <1>1, <1>14, <2>1, <2>2, <2>3, <3>1 DEF AllowReturned, Threads
    <3>2. CASE Top.kind = "hook"
      BY <1>1, <1>14, <2>1, <2>2, <2>3, <3>2 DEF AllowReturned, Threads
    <3>3. CASE Top.kind \notin {"fin", "hook"}
      BY <1>1, <1>3, <1>14, <2>1, <2>2, <2>3, <3>3 DEF AllowReturned
    <3>4. QED
      BY <3>1, <3>2, <3>3
  <2>4. CASE Current(frames) = "co"
    <3>1. allow'["main"] = allow["main"]
      BY <1>1, <2>1, <2>4 DEF AllowReturned, Threads
    <3>2. QED
      BY <1>3, <1>14, <2>1, <2>2, <2>4, <3>1
  <2>5. QED
    BY <1>1, <2>3, <2>4 DEF Threads
<1>17. ASSUME NEW r \in BOOLEAN, Unwind(r) PROVE HookInv'
  <2>1. /\ frames # <<>> /\ allow' = AllowUnwound(Current(frames)) /\ frames' = Rest /\ pc' = pc
        /\ setting = Throwing /\ setting' \in {Idle, Throwing}
        /\ setting' = Idle => Top.kind \in {"pcall", "resume"}
    BY <1>17 DEF Unwind, Idle, Throwing
  <2>2. /\ Current(frames) = "main" =>
             /\ Current(Rest) = "main"
             /\ Top.old <=> QuietTo(Rest, Len(Rest))
        /\ Current(frames) = "co" =>
             (QuietTo(frames, Len(frames)) <=> QuietTo(Rest, Len(Rest)))
    BY <1>1, <1>2, <2>1, PopRemembers
  <2>3. CASE Current(frames) = "main"
    <3>1. Top.kind # "resume"
      <4>1. Len(frames) \in 1..Len(frames)
        BY <1>1, <2>1, RestFacts
      <4>2. QED
        BY <1>1, <2>3, <4>1, CurrentIsMain DEF MainTo, Top
    <3>2. setting'.then = "idle" => Top.kind = "pcall"
      BY <2>1, <3>1 DEF Idle, Throwing
    <3>3. Top.kind = "pcall" => (allow'["main"] <=> QuietTo(Rest, Len(Rest)))
      BY <1>1, <2>1, <2>2, <2>3 DEF AllowUnwound, Threads
    <3>4. QED
      BY <1>14, <2>1, <2>2, <2>3, <3>2, <3>3
  <2>4. CASE Current(frames) = "co"
    <3>1. allow'["main"] = allow["main"]
      BY <1>1, <2>1, <2>4 DEF AllowUnwound, Threads
    <3>2. allow["main"] <=> QuietTo(frames, Len(frames))
      BY <1>2, <2>4 DEF AllowKnown
    <3>3. QED
      BY <1>14, <2>1, <2>2, <2>4, <3>1, <3>2
  <2>5. QED
    BY <1>1, <2>3, <2>4 DEF Threads
<1>18. CASE ChunkReturns
  BY <1>2, <1>3, <1>18 DEF ChunkReturns, LuaRuns, luaEnv, hooks, HookInv, AllowKnown, NothingInProgress
<1>19. CASE ChunkFails
  <2>1. Len(<<>>) = 0 /\ 1..0 = {}
    OBVIOUS
  <2>2. QED
    BY <1>1, <1>19, <2>1 DEF ChunkFails, HookInv, FramesRemember, AllowKnown, NothingInProgress,
       QuietTo, Threads
<1>20. CASE os_exit
  BY <1>20 DEF os_exit, Dies, HookInv, FramesRemember, AllowKnown, NothingInProgress, QuietTo,
     Threads
<1>21. QED
  BY <1>6, <1>8, <1>9, <1>10, <1>11, <1>12, <1>13, <1>15, <1>16, <1>17, <1>18, <1>19, <1>20,
     Sethooks

\* Outside hooks and finalizers the main thread's hooks are on, whatever errors
\* were raised: Ctrl-C keeps working (ldo.c luaD_pcall, luaD_hook, lgc.c GCTM).
THEOREM HooksAlwaysComeBack == Spec => []HooksComeBack
<1>1. ASSUME frames = <<>>, allow = [t \in Threads |-> TRUE], setting = Idle PROVE HookInv
  BY <1>1 DEF HookInv, FramesRemember, AllowKnown, NothingInProgress, QuietTo, Threads
<1>2. Init => HookInv
  BY <1>1 DEF Init
<1>3. Core /\ HookInv /\ [Next]_vars => HookInv'
  <2> SUFFICES ASSUME Core, HookInv, [Next]_vars PROVE HookInv'
    OBVIOUS
  <2>1. ASSUME Dies PROVE HookInv'
    BY <2>1 DEF Dies, HookInv, FramesRemember, AllowKnown, NothingInProgress, QuietTo, Threads
  <2>2. CASE EndOfInput \/ KilledBySigint
    BY <2>1, <2>2 DEF EndOfInput, KilledBySigint
  <2>3. ASSUME allow' = allow, frames' = frames, setting' = setting, pc # "run" \/ pc' = pc
        PROVE  HookInv'
    BY <2>3 DEF HookInv, FramesRemember, AllowKnown, NothingInProgress, QuietTo, MainTo, Current
  <2>4. CASE \/ Restart \/ shell_hint \/ HistorySave \/ docall \/ docall_end \/ report \/ laction
             \/ UNCHANGED vars \/ (\E c \in Commands : EnterLine(c))
             \/ (\E s \in {"ok", "error"} : Load(s))
    <3>1. allow' = allow /\ frames' = frames /\ setting' = setting /\ (pc # "run" \/ pc' = pc)
      BY <2>4 DEF Restart, shell_hint, HistorySave, docall, docall_end, report, laction, vars,
         EnterLine, Load, luaEnv, hooks
    <3>2. QED
      BY <2>3, <3>1
  <2>5. QED
    BY <2>2, <2>4, HookStep DEF Next, Sigint
<1>4. Core /\ HookInv => HooksComeBack
  <2> SUFFICES ASSUME Core, HookInv, setting = Idle, pc # "dead"
               PROVE  /\ pc # "run" => frames = <<>>
                      /\ allow["main"] <=> \A i \in DOMAIN frames :
                           frames[i].kind \in {"hook", "fin"} =>
                             \E j \in 1..i : frames[j].kind = "resume"
    BY DEF HooksComeBack
  <2>1. DOMAIN frames = 1..Len(frames)
    BY LenProperties DEF Core, TypeOK
  <2>2. QED
    BY <2>1 DEF HookInv, AllowKnown, NothingInProgress, QuietTo, Idle
<1>5. QED
  BY <1>2, <1>3, <1>4, CoreInvariant, PTL DEF Spec
=============================================================================
