------------------------------ MODULE MCCalls -------------------------------
EXTENDS Calls
MCForms ==
  [t \in Coroutines \cup {"main"} |->
     {<<"pcall", "f">>, <<"error", "e">>} \cup
     IF t = "main" THEN {<<"f">>, <<"resume", "co", "a">>, <<"wrap", "a", "a", "a">>}
     ELSE {<<"f">>, <<"apply", "f">>, <<"yield", "y">>, <<"dofile">>, <<"xpcall", "f", "f">>,
           <<"xpcall", "yield", "f">>, <<"resume", "co">>}]
MCWrapOf == [wrap |-> "co"]
=============================================================================
