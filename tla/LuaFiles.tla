------------------------------ MODULE LuaFiles ------------------------------
(***************************************************************************)
(* File handles (lua/src/liolib.c): userdata that own a C stream, the two  *)
(* default files in the registry, iterators over lines, and finalizers.    *)
(* A stream is a number: fopen gives one that is not in use, and fclose    *)
(* gives it back, so that a pointer which is kept too long may come to     *)
(* mean another file.  A file is read to its end or is not; what is read   *)
(* is the subject of LuaRead.                                              *)
(***************************************************************************)
EXTENDS Integers, FiniteSets, Sequences, SequencesExt

CONSTANTS
  Userdata,    \* handles that programs can make
  Streams,     \* bound: streams that are open at a time, without the standard ones
  MaxIters,    \* bound: iterators at a time
  MaxReads     \* bound: calls of iterators at a time, each in a finalizer of the one before

\* The standard streams are none of those that programs open, nor are their handles.
ASSUME FilesAssumption ==
  /\ "NULL" \notin Streams
  /\ Streams \cap {"stdin", "stdout"} = {} /\ Userdata \cap {"stdin", "stdout"} = {}

VARIABLES
  fh,        \* per handle: in memory or not, its stream f, its function closef
  open,      \* the C streams that are open
  registry,  \* the default input and output
  iters,     \* iterators made by lines: <<handle, toclose>>
  reading,   \* the iterators that are being called, the innermost last
  mine,      \* handles that program variables refer to
  closing    \* handles whose finalizers lua_close has yet to call, and whether it was called
fvars == <<fh, open, registry, iters, reading, mine, closing>>

StdFiles == {"stdin", "stdout"}
Handles  == StdFiles \cup Userdata
NOFILE   == [exists |-> FALSE, f |-> "NULL", closef |-> "NULL"]

isclosed(h) == fh[h].closef = "NULL"
InUse(h)    == fh[h].exists
Reachable   == mine \cup StdFiles \cup {registry[k] : k \in DOMAIN registry} \cup {i[1] : i \in iters}
              \cup {reading[k][1] : k \in DOMAIN reading}
Fresh       == {h \in Userdata : ~InUse(h)}

\* newprefile and newfile: no stream yet.
newprefile(h, closef) == [fh EXCEPT ![h] = [exists |-> TRUE, f |-> "NULL", closef |-> closef]]
\* A handle for a new stream.
newfile(h, f, closef) == [newprefile(h, closef) EXCEPT ![h].f = f]

-----------------------------------------------------------------------------
(* Closing.                                                                *)

\* Mutant: the handle is not marked as closed.
marked_not(h) == fh
marked(h) == [fh EXCEPT ![h].closef = "NULL"]

io_fclose(h)  == fh' = marked(h) /\ open' = open \ {fh[h].f}
io_pclose(h)  == fh' = marked(h) /\ open' = open \ {fh[h].f}
io_noclose(h) == fh' = [marked(h) EXCEPT ![h].closef = "io_noclose"] /\ UNCHANGED open
aux_close(h) ==
  CASE fh[h].closef = "io_fclose" -> io_fclose(h)
    [] fh[h].closef = "io_pclose" -> io_pclose(h)
    [] fh[h].closef = "io_noclose" -> io_noclose(h)

\* tofile throws an error for a closed file, and so does getiofile.
tofile(h) == ~isclosed(h)
getiofile(key) == {h \in {registry[key]} : tofile(h)}
Files == {h \in mine \cup StdFiles : tofile(h)}

f_close == /\ \E h \in Files : aux_close(h)
           /\ UNCHANGED <<registry, iters, reading, mine, closing>>
\* io.close() closes the default output.
io_close == /\ \E h \in getiofile("output") : aux_close(h)
            /\ UNCHANGED <<registry, iters, reading, mine, closing>>

\* __gc, which a program may also call by itself.
f_gc(h) ==
  IF ~isclosed(h) /\ fh[h].f # "NULL" THEN aux_close(h) ELSE UNCHANGED <<fh, open>>
call_gc == /\ \E h \in mine \cup StdFiles : f_gc(h)
           /\ UNCHANGED <<registry, iters, reading, mine, closing>>

-----------------------------------------------------------------------------
(* Opening.  The result is a handle, or nil and a message when there is no *)
(* stream.                                                                 *)

newstream(closef) ==
  /\ \E h \in Fresh, f \in Streams \ open :
       fh' = newfile(h, f, closef) /\ open' = open \cup {f} /\ mine' = mine \cup {h}
  /\ UNCHANGED <<registry, iters, reading, closing>>
\* No stream, and errors after the handle was made.
nostream(closefs) ==
  /\ \E h \in Fresh, closef \in closefs : fh' = newprefile(h, closef)
  /\ UNCHANGED <<open, registry, iters, reading, mine, closing>>
io_open    == newstream("io_fclose") \/ nostream({"NULL", "io_fclose"})
io_popen   == newstream("io_pclose") \/ nostream({"NULL", "io_pclose"})
io_tmpfile == newstream("io_fclose") \/ nostream({"NULL", "io_fclose"})

\* A file that opencheck cannot open is an error.
opencheck(h, f) == fh' = newfile(h, f, "io_fclose") /\ open' = open \cup {f}

\* With a file name or a handle.
g_iofile(key) ==
  /\ \/ \E h \in Fresh, f \in Streams \ open :
          opencheck(h, f) /\ registry' = [registry EXCEPT ![key] = h]
     \/ \E h \in Files : registry' = [registry EXCEPT ![key] = h] /\ UNCHANGED <<fh, open>>
  /\ UNCHANGED <<iters, reading, mine, closing>>
io_input  == g_iofile("input")
io_output == g_iofile("output")
\* Without arguments they give the program the default file.
io_default ==
  /\ mine' = mine \cup ({registry[k] : k \in DOMAIN registry} \ StdFiles)
  /\ UNCHANGED <<fh, open, registry, iters, reading, closing>>

-----------------------------------------------------------------------------
(* Iterators.                                                              *)

aux_lines(h, toclose) == Cardinality(iters) < MaxIters /\ iters' = iters \cup {<<h, toclose>>}
f_lines ==
  /\ \E h \in Files : aux_lines(h, FALSE)
  /\ UNCHANGED <<fh, open, registry, reading, mine, closing>>
\* Over the default input, or over a file of its own.
io_lines ==
  /\ \/ \E h \in getiofile("input") : aux_lines(h, FALSE) /\ UNCHANGED <<fh, open>>
     \/ \E h \in Fresh, f \in Streams \ open : opencheck(h, f) /\ aux_lines(h, TRUE)
  /\ UNCHANGED <<registry, reading, mine, closing>>

\* An iterator is called.  (For a closed file that is an error.)  Until it returns
\* finalizers may do anything, this included.
io_readline ==
  /\ Len(reading) < MaxReads
  /\ \E i \in iters : ~isclosed(i[1]) /\ reading' = Append(reading, i)
  /\ UNCHANGED <<fh, open, registry, iters, mine, closing>>

\* g_read has returned: a line or an error, or the end of the file.  The result is
\* undefined if a finalizer has closed the file: aux_close would call NULL then, and
\* the process would end.
readline_returns ==
  /\ reading # <<>> /\ reading' = Front(reading)
  /\ \/ UNCHANGED <<fh, open>>
     \/ Last(reading)[2] /\ ~isclosed(Last(reading)[1]) /\ aux_close(Last(reading)[1])
  /\ UNCHANGED <<registry, iters, mine, closing>>

\* The program forgets a handle or an iterator.
forget ==
  /\ \/ \E h \in mine : mine' = mine \ {h} /\ UNCHANGED iters
     \/ \E i \in iters : iters' = iters \ {i} /\ UNCHANGED mine
  /\ UNCHANGED <<fh, open, registry, reading, closing>>

\* The collector calls the finalizer of a handle nobody refers to, and frees it.
collect ==
  /\ \E h \in Userdata \ Reachable :
       /\ InUse(h)
       /\ open' = IF ~isclosed(h) /\ fh[h].f # "NULL" THEN open \ {fh[h].f} ELSE open
       /\ fh' = [fh EXCEPT ![h] = NOFILE] /\ closing' = [closing EXCEPT !.due = @ \ {h}]
  /\ UNCHANGED <<registry, iters, reading, mine>>

\* lua_close, in os.exit, which does not return: the finalizers of all handles, and
\* between them other code.
lua_close ==
  /\ ~closing.begun /\ closing' = [begun |-> TRUE, due |-> {h \in Handles : InUse(h)}]
  /\ reading' = <<>>
  /\ UNCHANGED <<fh, open, registry, iters, mine>>
callallpendingfinalizers ==
  /\ \E h \in closing.due : f_gc(h) /\ closing' = [closing EXCEPT !.due = @ \ {h}]
  /\ UNCHANGED <<registry, iters, reading, mine>>

-----------------------------------------------------------------------------
\* luaopen_io: createstdfile
FilesInit ==
  /\ fh = [h \in Handles |-> IF h \in StdFiles THEN [exists |-> TRUE, f |-> h, closef |-> "io_noclose"]
                             ELSE NOFILE]
  /\ open = StdFiles /\ registry = [input |-> "stdin", output |-> "stdout"]
  /\ iters = {} /\ reading = <<>> /\ mine = {} /\ closing = [begun |-> FALSE, due |-> {}]

FilesNext ==
  \/ f_close \/ io_close \/ call_gc \/ io_open \/ io_popen \/ io_tmpfile \/ io_input \/ io_output
  \/ io_default \/ f_lines \/ io_lines \/ io_readline \/ readline_returns \/ forget \/ collect \/ lua_close
  \/ callallpendingfinalizers
FilesSpec == FilesInit /\ [][FilesNext]_fvars

-----------------------------------------------------------------------------
\* A stream that is open belongs to one handle, which closes it once; a handle
\* that a program can use and that is not closed has an open stream (the assertion
\* of tofile), and the standard files stay open (io_noclose), in whatever order
\* programs, iterators, the collector and lua_close close them.
FilesRight ==
  /\ \A f \in open : Cardinality({h \in Handles : fh[h].f = f /\ ~isclosed(h)}) = 1
  /\ \A h \in Reachable : ~isclosed(h) => fh[h].f \in open
  /\ StdFiles \subseteq open
=============================================================================
