----------------------------- MODULE MCLuaMark -----------------------------
(***************************************************************************)
(* LuaMark on a handful of objects.                                        *)
(***************************************************************************)
EXTENDS LuaMark

\* One entry in every table; or two in the registry only.
OneEntry == [t \in Tables |-> 1]
TwoEntries == [t \in Tables |-> IF t = Registry THEN 2 ELSE 0]
=============================================================================
