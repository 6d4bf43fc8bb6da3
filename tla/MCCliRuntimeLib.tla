-------------------------- MODULE MCCliRuntimeLib --------------------------
(***************************************************************************)
(* CliRuntimeLib with two files of commands, and a project that also has   *)
(* a function with an INT8 parameter.                                      *)
(***************************************************************************)
EXTENDS CliRuntimeLib

Function(name, params, marker) == [name |-> name, params |-> params, marker |-> marker]

\* Two names that differ in case only, the hidden one first.
Hidden == Function("-Do", <<"UINT8", "char*">>, "TEST_FUNCTION_HIDE")
Shown == Function("-do", <<>>, "TEST_FUNCTION")
Extra == Function("-extra", <<"UINT8">>, "TEST_FUNCTION_EXTRA")
Repeat == Function("-repeat", <<"char*">>, "TEST_FUNCTION_EXTRA_HIDE")
Line == Function("-line", <<"CMD_LINE">>, "TEST_FUNCTION_EXTRA")
Small == Function("-small", <<"INT8">>, "TEST_FUNCTION")

MCProjects == {<<<<Hidden, Extra>>, <<Shown, Repeat, Line>>>>, <<<<Shown>>, <<Small>>>>}

MCTokens == {"-Do", "-do", "-extra", "-repeat", "-line", "1", "x"}

MCLowercase == [token \in Tokens |-> IF token = "-Do" THEN "-do" ELSE token]

MCForwards == [name \in {"-extra", "-repeat", "-line"} |->
                  IF name = "-extra" THEN "-Do" ELSE "-repeat"]
=============================================================================
