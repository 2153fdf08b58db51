--------------------------- MODULE ProtectedCalls ---------------------------
(***************************************************************************)
(* What calls, protected calls and coroutines promise to a Lua program,    *)
(* without C stack, jumps and continuations.  Each thread has a sequence   *)
(* of activations; "chain" is the sequence of threads that have resumed    *)
(* each other, the last of which runs.                                     *)
(*                                                                         *)
(* An activation is [f, by, ph, got]: the function, who called it ("call"  *)
(* or "raise", for a message handler), its phase, and the values it got    *)
(* last.  A Lua function is in phase "run" or "wait"; a function of the    *)
(* library in "start", "wait", "ok" (what it called has returned got),     *)
(* "err" (it failed with got) or "yield"; whoever raised an error whose    *)
(* handler runs is in phase "raise".                                       *)
(***************************************************************************)
EXTENDS Integers, Sequences, FiniteSets, SequencesExt, FiniteSetsExt

CONSTANTS
  Coroutines,   \* threads other than "main"
  WrapOf,       \* functions made by coroutine.wrap, and their coroutines
  Forms         \* what a function of a thread may call: function and arguments

VARIABLES chain, acts

vars == <<chain, acts>>

Threads   == Coroutines \cup {"main"}
IsLua(f)  == f = "f"
Callers   == {"pcall", "xpcall", "apply", "dofile"}   \* functions that call one
Protects(f) == f \in {"pcall", "xpcall", "docall"}
Two(vals) == SubSeq(vals \o <<"nil", "nil">>, 1, 2)    \* a call wants two results
Act(f, by, got) ==
  [f |-> f, by |-> by, ph |-> IF IsLua(f) THEN "run" ELSE "start",
   got |-> IF IsLua(f) THEN Two(got) ELSE got]
New       == <<[f |-> "f", by |-> "call", ph |-> "new", got |-> <<>>]>>

\* The thread that runs, with its activations: the arguments of all actions.
Running == IF chain = <<>> THEN {} ELSE {<<Last(chain), acts[Last(chain)]>>}
Is(s, f, ph) == Last(s).f = f /\ Last(s).ph = ph

\* s with the last activation in another phase.
Becomes(s, ph, got) == [s EXCEPT ![Len(s)].ph = ph, ![Len(s)].got = got]

\* A callee of the last activation in s returned.
Given(s, vals) ==
  CASE IsLua(Last(s).f)     -> Becomes(s, "run", Two(vals))
    [] Last(s).f = "docall" -> Becomes(s, "ok", <<>>)
    [] OTHER                -> Becomes(s, "ok", vals)

Now(t, s) == acts' = [acts EXCEPT ![t] = s] /\ UNCHANGED chain
Call(t, s, f, by, got) ==
  Now(t, Append(Becomes(s, IF by = "raise" THEN "raise" ELSE "wait", <<>>), Act(f, by, got)))

\* The last thread of the chain ends, fails or yields; its resumer goes on.
Back(t, s, ph, vals) ==
  /\ chain' = Front(chain)
  /\ acts' = [acts EXCEPT ![t] = s, ![chain[Len(chain) - 1]] = Becomes(@, ph, vals)]

\* An error goes to the innermost protected call of the thread.  If there is
\* none the thread is dead, and its resumer gets the error.
Catchers(s) == {i \in DOMAIN s : Protects(s[i].f) /\ s[i].ph \notin {"ok", "err"}}
Unwind(t, s, v) ==
  IF Catchers(s) = {} THEN Back(t, <<>>, "err", <<v>>)
  ELSE Now(t, Becomes(SubSeq(s, 1, Max(Catchers(s))), "err", <<v>>))

\* The message handler of that call is called where the error is raised.
HandlerOf(s) ==
  IF Catchers(s) = {} THEN "none"
  ELSE [pcall |-> "none", xpcall |-> "f", docall |-> "msgh"][s[Max(Catchers(s))].f]
Raise(t, s, v) ==
  IF HandlerOf(s) = "none" THEN Unwind(t, s, v) ELSE Call(t, s, HandlerOf(s), "raise", <<v>>)

\* The last activation returns.  What a handler returns is the error.
Return(t, s, vals) ==
  IF Last(s).by = "raise" THEN Unwind(t, s, (vals \o <<"nil">>)[1])
  ELSE IF Len(s) = 1 THEN Back(t, <<>>, "ok", vals)
  ELSE Now(t, Given(Front(s), vals))

\* Calls fail when a stack is exhausted.  For the call of a handler and inside
\* one this is an error of its own, which no handler sees, and so it is after
\* one, as long as the stack keeps the space it was given for the handler.
Overflow(t, s) ==
  \/ Raise(t, s, "C stack overflow")
  \/ Raise(t, s, "stack overflow")
  \/ Unwind(t, s, "error in error handling")

-----------------------------------------------------------------------------
Docall == chain = <<>> /\ chain' = <<"main">>
          /\ acts' = [acts EXCEPT !["main"] = <<[Act("docall", "call", <<>>) EXCEPT !.ph = "wait"],
                                                Act("f", "call", <<>>)>>]

LuaCalls(t, s) ==
  /\ Is(s, "f", "run")
  /\ \E form \in Forms[t] : Call(t, s, form[1], "call", Tail(form)) \/ Overflow(t, s)

Adds(t, s) == Is(s, "f", "run") /\ (Call(t, s, "f", "call", <<"x", "x">>) \/ Overflow(t, s))

LuaReturns(t, s) == Is(s, "f", "run") /\ Return(t, s, <<Last(s).got[1]>>)

Creates(t, s) ==
  /\ Is(s, "f", "run")
  /\ \E c \in Coroutines : acts[c] = <<>> /\ acts' = [acts EXCEPT ![c] = New]
  /\ UNCHANGED chain

\* A function that calls a function: pcall and xpcall the one they are given.
Calls(t, s) ==
  \/ Is(s, "pcall", "start")  /\ LET got == Last(s).got IN Call(t, s, got[1], "call", Tail(got))
  \/ Is(s, "xpcall", "start") /\ LET got == Last(s).got IN Call(t, s, got[1], "call", Tail(Tail(got)))
  \/ Is(s, "apply", "start")  /\ Call(t, s, "f", "call", <<>>)
  \/ Is(s, "dofile", "start") /\ Call(t, s, "f", "call", <<>>)
  \/ (\E f \in Callers : Is(s, f, "start")) /\ Overflow(t, s)

CallerReturns(t, s) ==
  /\ Last(s).f \in Callers
  /\ \/ Last(s).ph = "ok" /\ Return(t, s, (IF Protects(Last(s).f) THEN <<"true">> ELSE <<>>) \o Last(s).got)
     \/ Last(s).ph = "err" /\ Return(t, s, <<"false", Last(s).got[1]>>)

DocallEnds(t, s) ==
  /\ Is(s, "docall", "ok") \/ Is(s, "docall", "err")
  /\ chain' = <<>> /\ acts' = [acts EXCEPT !["main"] = <<>>]

Errors(t, s) == Is(s, "error", "start") /\ (Raise(t, s, Two(Last(s).got)[1]) \/ Overflow(t, s))
Msgh(t, s)   == Is(s, "msgh", "start") /\ Return(t, s, Last(s).got)

\* A thread yields unless it is the main one, or a function that cannot go on
\* later is active in it.
Yieldable(t, s) == t # "main" /\ \A i \in DOMAIN s : s[i].f # "apply" /\ s[i].by # "raise"
Yields(t, s) ==
  /\ Is(s, "yield", "start")
  /\ IF Yieldable(t, s) THEN Back(t, Becomes(s, "yield", <<>>), "ok", Last(s).got)
     ELSE Raise(t, s, "attempt to yield") \/ Overflow(t, s)

Suspended(s) == s # <<>> /\ Last(s).ph \in {"new", "yield"}
Fail(t, s, msg) == Now(t, Becomes(s, "err", <<msg>>))
ResumesWith(t, s, c, args) ==
  \/ /\ Suspended(acts[c])
     /\ chain' = Append(chain, c)
     /\ acts' = [acts EXCEPT ![t] = Becomes(@, "wait", <<>>),
                             ![c] = IF Last(@).ph = "new" THEN <<Act("f", "call", args)>>
                                    ELSE Given(Front(@), args)]
  \/ Suspended(acts[c]) /\ Fail(t, s, "C stack overflow")
  \/ acts[c] = <<>> /\ Fail(t, s, "cannot resume dead coroutine")
  \/ ~Suspended(acts[c]) /\ acts[c] # <<>> /\ Fail(t, s, "cannot resume non-suspended coroutine")
  \/ Fail(t, s, "too many arguments to resume")    \* the stack of c is exhausted
Resumes(t, s) ==
  \/ Is(s, "resume", "start") /\ ResumesWith(t, s, Last(s).got[1], Tail(Last(s).got))
  \/ \E w \in DOMAIN WrapOf : Is(s, w, "start") /\ ResumesWith(t, s, WrapOf[w], Last(s).got)

Resumed(t, s) ==
  \/ Is(s, "resume", "ok")  /\ Return(t, s, <<"true">> \o Last(s).got)
  \/ Is(s, "resume", "err") /\ Return(t, s, <<"false", Last(s).got[1]>>)
  \/ \E w \in DOMAIN WrapOf :
       \/ Is(s, w, "ok") /\ Return(t, s, Last(s).got)
       \/ Is(s, w, "err") /\ (Raise(t, s, Last(s).got[1]) \/ Overflow(t, s))

Init == chain = <<>> /\ acts = [c \in Threads |-> IF c = "main" THEN <<>> ELSE New]
Acts(t, s) ==
  \/ LuaCalls(t, s) \/ Adds(t, s) \/ LuaReturns(t, s) \/ Creates(t, s)
  \/ Calls(t, s) \/ CallerReturns(t, s) \/ DocallEnds(t, s) \/ Errors(t, s) \/ Msgh(t, s)
  \/ Yields(t, s) \/ Resumes(t, s) \/ Resumed(t, s)
Next == Docall \/ \E r \in Running : Acts(r[1], r[2])
Spec == Init /\ [][Next]_vars
=============================================================================
