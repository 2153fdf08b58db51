------------------------------ MODULE Completion ------------------------------
(***************************************************************************)
(* Completions and hints of the shell (main.c): the word at the cursor,    *)
(* the list LUA_FUNCS, and the traversal of the global table, one lua_next *)
(* at a time, outside of any protected call.                               *)
(*                                                                         *)
(* Texts are sequences of characters and indices begin at 0, as in the     *)
(* code.  A global is [text, kind]: lua_tostring on the key changes a      *)
(* "number" on the stack into its text, and returns NULL for a key that is *)
(* neither that nor a "string".  A buffer is [text, size]: what is written *)
(* there and how much was allocated.                                       *)
(***************************************************************************)
EXTENDS Integers, Sequences, SequencesExt, FiniteSetsExt

CONSTANTS
  Chars,         \* the characters of a line
  ID_BREAKERS,   \* those that end a word
  LUA_FUNCS,     \* the names that are always offered, a sequence
  Globals,       \* the keys that the global table may have
  MaxLine, MaxGlobals, MaxOffers    \* bounds: characters of a line, globals, completions

Lines  == UNION {[1..n -> Chars] : n \in 0..MaxLine}
Tables == {g \in UNION {[1..n -> Globals] : n \in 0..MaxGlobals} : IsInjective(g)}
NUL    == "NUL"

-----------------------------------------------------------------------------
(* Words.                                                                  *)

breakers(str) == {i \in 0..Len(str) - 1 : str[i + 1] \in ID_BREAKERS}

\* Where the last word begins, -1 if the line ends with a breaker.  Of an
\* empty line the code looks at "before", the byte before the buffer.
devi_find_last_word(str, before) ==
  IF (IF str = <<>> THEN before ELSE Last(str)) \in ID_BREAKERS THEN -1
  ELSE Max({i + 1 : i \in breakers(str)} \cup {0})

\* Neither loop stops at a match: the word reaches from the first breaker
\* before pos to the last one after it.
devi_find_middle_word(str, pos) ==
  IF pos \in breakers(str) THEN [begin |-> -1, end |-> -1]
  ELSE [begin |-> Min({i + 1 : i \in {j \in breakers(str) : j <= pos}} \cup
                      (IF \E j \in breakers(str) : j <= pos THEN {} ELSE {0})),
        end   |-> Max({i - 1 : i \in {j \in breakers(str) : j >= pos}} \cup
                      (IF \E j \in breakers(str) : j >= pos THEN {} ELSE {Len(str) - 1}))]

\* The first index of substr, or -1: also as soon as the text ends within a
\* part that begins like substr.
devi_lfind(str, substr) ==
  LET tries == {i \in 0..Len(str) - 1 : substr # <<>> /\ str[i + 1] = substr[1]}
      stops == {i \in tries : \/ i + Len(substr) > Len(str)
                              \/ SubSeq(str, i + 1, i + Len(substr)) = substr}
  IN IF stops = {} \/ Min(stops) + Len(substr) > Len(str) THEN -1 ELSE Min(stops)

-----------------------------------------------------------------------------
(* What is offered.                                                        *)

\* Mutant: what follows the name is taken from where the word begins.
ln_matched_twice(buf, pos, word, name) ==
  [text |-> SubSeq(buf, 1, word.begin) \o name \o SubSeq(buf, word.begin + 1, Len(buf)),
   size |-> Len(buf) + Len(name), cursor |-> pos + Len(name)]

\* The line with a name instead of the word, and where the cursor goes.  What
\* is behind the cursor follows the name, with a NUL, unless the word ends the
\* line.
ln_matched(buf, pos, word, name) ==
  LET w == word.end - word.begin + 1
      text == SubSeq(buf, 1, word.begin) \o name
  IN [text |-> IF word.end + 1 = Len(buf) THEN text ELSE text \o SubSeq(buf, pos + 1, Len(buf)),
      size |-> Len(buf) + Len(name) - w,
      cursor |-> pos + Len(name) - w]
last_word(buf, word) == SubSeq(buf, word.begin + 1, word.end + 1)

\* The text from the index i of the line on, i = -1 being the byte before it.
wordfrom(buf, i, before) ==
  IF i = -1 THEN (IF before = NUL THEN <<>> ELSE <<before>> \o buf)
  ELSE SubSeq(buf, i + 1, Len(buf))
rest(name, word) == SubSeq(name, Len(word) + 1, Len(name))

-----------------------------------------------------------------------------
VARIABLES
  globals,  \* the keys of the global table, in the order of lua_next
  line,     \* [buf, pos, what]: the line, the cursor, and "completion" or "hint"
  pc,       \* "prompt", "completion", "hint", "done", "abort" or "crash"
  word,     \* the word that is looked for
  key,      \* the key on the stack
  lc,       \* what was offered: completions, or at most one hint
  top       \* the height of the stack
cvars == <<globals, line, pc, word, key, lc, top>>

NoKey == [text |-> <<>>, kind |-> "nil"]
begin(buf, pos) == devi_find_middle_word(buf, pos - 1)
matching(names, w) == SelectSeq(names, LAMBDA name : devi_lfind(name, w) = 0)

CompletionInit ==
  /\ globals \in Tables /\ line = [buf |-> <<>>, pos |-> 0, what |-> ""]
  /\ pc = "prompt" /\ word = <<>> /\ key = NoKey /\ lc = <<>> /\ top = 0

shell_completion(buf, pos) ==
  /\ pc = "prompt" /\ line' = [buf |-> buf, pos |-> pos, what |-> "completion"]
  /\ IF pos = 0 \/ begin(buf, pos).begin = -1
     THEN pc' = "done" /\ UNCHANGED <<word, lc, top>>
     ELSE /\ pc' = "completion" /\ top' = top + 2
          /\ word' = last_word(buf, begin(buf, pos))
          /\ LET names == matching(LUA_FUNCS, word')
             IN lc' = [i \in DOMAIN names |-> ln_matched(buf, pos, begin(buf, pos), names[i])]
  /\ UNCHANGED <<globals, key>>

shell_hint(buf, before) ==
  /\ pc = "prompt" /\ line' = [buf |-> buf, pos |-> Len(buf), what |-> "hint"]
  /\ word' = wordfrom(buf, devi_find_last_word(buf, before), before)
  /\ IF matching(LUA_FUNCS, word') # <<>>
     THEN pc' = "done" /\ lc' = <<rest(matching(LUA_FUNCS, word')[1], word')>> /\ UNCHANGED top
     ELSE pc' = "hint" /\ top' = top + 2 /\ UNCHANGED lc
  /\ UNCHANGED <<globals, key>>

\* lua_next: what follows the key on the stack, which must be a key.
at == IF key = NoKey THEN 0 ELSE SelectInSeq(globals, LAMBDA g : g = key)
invalidkey == key # NoKey /\ at = 0
nextkey == IF at = Len(globals) THEN NoKey ELSE globals[at + 1]
tostring(k) == [k EXCEPT !.kind = "string"]

\* "invalid key to 'next'" outside of a protected call: lua_atpanic, abort.
abort ==
  /\ pc \in {"completion", "hint"} /\ invalidkey
  /\ pc' = "abort" /\ UNCHANGED <<globals, line, word, key, lc, top>>

\* get_str_len in devi_lfind reads what NULL refers to.
nullkey ==
  /\ pc \in {"completion", "hint"} /\ ~invalidkey /\ nextkey.kind = "other"
  /\ pc' = "crash" /\ UNCHANGED <<globals, line, word, key, lc, top>>

nextcompletion ==
  /\ pc = "completion" /\ ~invalidkey /\ nextkey.kind # "other" /\ Len(lc) < MaxOffers
  /\ IF nextkey = NoKey
     THEN pc' = "done" /\ top' = top - 2 /\ UNCHANGED <<key, lc>>
     ELSE /\ key' = tostring(nextkey)
          /\ lc' = IF devi_lfind(key'.text, word) # 0 THEN lc
                   ELSE Append(lc, ln_matched(line.buf, line.pos, begin(line.buf, line.pos), key'.text))
          /\ UNCHANGED <<pc, top>>
  /\ UNCHANGED <<globals, line, word>>

nexthint ==
  /\ pc = "hint" /\ ~invalidkey /\ nextkey.kind # "other"
  /\ IF nextkey = NoKey
     THEN pc' = "done" /\ top' = top - 2 /\ UNCHANGED <<key, lc>>
     ELSE /\ key' = tostring(nextkey)
          /\ IF devi_lfind(key'.text, word) = 0
             THEN pc' = "done" /\ lc' = <<rest(key'.text, word)>> /\ top' = top + 1
             ELSE UNCHANGED <<pc, lc, top>>
  /\ UNCHANGED <<globals, line, word>>

CompletionNext ==
  \/ \E buf \in Lines : \/ \E pos \in 0..Len(buf) : shell_completion(buf, pos)
                        \/ \E before \in Chars \cup {NUL} : shell_hint(buf, before)
  \/ abort \/ nullkey \/ nextcompletion \/ nexthint

-----------------------------------------------------------------------------
OfKind(kind) == SelectSeq(globals, LAMBDA k : k.kind = kind)
names == LUA_FUNCS \o [i \in DOMAIN OfKind("string") |-> OfKind("string")[i].text]
numbers == OfKind("number") # <<>>
Extends(w) == SelectSeq(names, LAMBDA name : w # <<>> /\ IsPrefix(w, name))

\* With the cursor behind a word, the line is offered with each name that
\* extends the word in its place and the cursor behind the name, in a buffer
\* of the right size; a hint is the rest of the first such name.  The stack is
\* as before, a hint from the global table aside (WithinFrame of Shell is about
\* those).  The traversal aborts only because of a key that is a number, and reads
\* where NULL refers to only because of one that is neither a number nor a string
\* (shell_completion, shell_hint).
OffersRight ==
  LET buf == line.buf
      w == begin(buf, line.pos)
      Inserted(name) ==
        [text |-> SubSeq(buf, 1, w.begin) \o name \o SubSeq(buf, line.pos + 1, Len(buf)),
         cursor |-> w.begin + Len(name),
         size |-> w.begin + Len(name) + Len(buf) - line.pos]
      OfWord == IF line.pos = 0 \/ w.begin = -1 THEN <<>> ELSE Extends(last_word(buf, w))
  IN /\ pc = "abort" => numbers
     /\ pc = "crash" => OfKind("other") # <<>>
     /\ pc = "done" /\ line.what = "completion" /\ ~numbers =>
          /\ top = 0
          /\ OfWord = <<>> => lc = <<>>
          /\ OfWord # <<>> /\ w.end + 1 = line.pos =>
               lc = [i \in DOMAIN OfWord |-> Inserted(OfWord[i])]
     /\ pc = "done" /\ line.what = "hint" /\ ~numbers =>
          /\ top = IF lc = <<>> \/ matching(LUA_FUNCS, word) # <<>> THEN 0 ELSE 3
          /\ IF Extends(word) = <<>> THEN lc = <<>> ELSE word \o lc[1] = Extends(word)[1]
          /\ buf # <<>> /\ Last(buf) \notin ID_BREAKERS => IsSuffix(word, buf)
=============================================================================
