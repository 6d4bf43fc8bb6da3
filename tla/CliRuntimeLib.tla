--------------------------- MODULE CliRuntimeLib ---------------------------
(***************************************************************************)
(* The command line runtime: a program built with the table CliTableGen    *)
(* wrote runs the one line it was started with.  A command marked EXTRA    *)
(* takes what is left of its line with GetExtraArgs and runs it as a line  *)
(* of its own (TestExtra in CoverageTest.cpp); G_ParserArgsStack has one   *)
(* frame for every line that is being processed.                           *)
(***************************************************************************)
EXTENDS CliTableGen

CONSTANTS
    Tokens,             \* what can be typed
    Lowercase,          \* the token without regard to case; ? is -help
    Numbers,            \* the tokens sscanf_s takes whole as a number
    Forwards,           \* [name |-> the command an EXTRA function runs]
    MaxTokens,          \* bound: the tokens of a line
    MaxParserRecursion  \* MAX_PARSER_RECURSION

ASSUME RuntimeAssumption ==
    /\ Numbers \subseteq Tokens /\ Lowercase \in [Tokens -> Tokens]
    /\ MaxTokens \in Nat /\ MaxParserRecursion \in Nat \ {0}

\* An EXTRA function runs another command of its own choice.
Runnable ==
    {f \in FunctionData :
        IsExtra(f) => f.name \in DOMAIN Forwards /\ Forwards[f.name] \in Tokens}

ASSUME ForwardsAssumption == Projects \subseteq Seq(Seq(Runnable))

Lines == UNION {[1..n -> Tokens] : n \in 0..MaxTokens}

VARIABLES
    program,    \* "unbuilt", "running", "exited" or "died" (FatalError)
    stack,      \* G_ParserArgsStack up to G_ParserArgsDepth, without argv[0]
    calls       \* the calls of ParserProcessLine that have not returned

runVars == <<program, stack, calls>>
vars == <<genVars, runVars>>

\* A call of ParserProcessLine: its argv, the table's entry it found, where it
\* is, and the argv that GetExtraArgs gave its command.
Call(line) ==
    [args |-> line, cmd |-> 0, at |-> "push", extra |-> <<>>, held |-> FALSE]

Top == calls[Len(calls)]
At(step) == program = "running" /\ Top.at = step
Command == table[Top.cmd]

SetTop(call) == [calls EXCEPT ![Len(calls)] = call]
GoTo(step) == calls' = SetTop([Top EXCEPT !.at = step])

-----------------------------------------------------------------------------
Init ==
    /\ GenInit
    /\ program = "unbuilt" /\ stack = <<>> /\ calls = <<>>

\* An empty file has no ParserInit to link with.
ParserWmain ==
    /\ genStep = "written" /\ program = "unbuilt" /\ table # <<>>
    /\ program' = "running"
    /\ \E line \in Lines : calls' = <<Call(line)>>
    /\ UNCHANGED <<genVars, stack>>

\* Mutant: one frame more than the array has.
PushesPastEnd ==
    /\ At("push")
    /\ IF Len(stack) > MaxParserRecursion
       THEN program' = "died" /\ UNCHANGED <<stack, calls>>
       ELSE /\ stack' = Append(stack, [args |-> Top.args, numParams |-> -1])
            /\ GoTo("find")
            /\ UNCHANGED program
    /\ UNCHANGED genVars

PushCurrentArgs ==
    /\ At("push")
    /\ IF Len(stack) >= MaxParserRecursion
       THEN program' = "died" /\ UNCHANGED <<stack, calls>>
       ELSE /\ stack' = Append(stack, [args |-> Top.args, numParams |-> -1])
            /\ GoTo("find")
            /\ UNCHANGED program
    /\ UNCHANGED genVars

\* AllowHidden is the depth before this call pushed its frame.
HasName(i, name, allowHidden) ==
    /\ table[i].hideFromParser => allowHidden
    /\ Lowercase[table[i].name] = Lowercase[name]

\* The first entry of that name that may be seen, if there is one.
ParserFindCommand(name, allowHidden) ==
    {i \in DOMAIN table : /\ HasName(i, name, allowHidden)
                          /\ \A j \in 1..i - 1 : ~HasName(j, name, allowHidden)}

FindCommand ==
    /\ At("find")
    /\ LET Found == IF Top.args = <<>> THEN {}
                    ELSE ParserFindCommand(Top.args[1], Len(stack) > 1)
       IN  \/ Found = {} /\ GoTo("pop")
           \/ \E cmd \in Found : calls' = SetTop([Top EXCEPT !.cmd = cmd, !.at = "params"])
    /\ UNCHANGED <<genVars, program, stack>>

\* var_kinds: 9 is char*, the others that a parameter can have are numbers.
Fits(kind, token) == kind = 9 \/ token \in Numbers

ProcessParameters(cmd, args) ==
    LET given == Len(args) - 1
    IN  CASE cmd.kind[1] = 10 -> TRUE
          [] cmd.kind[1] = 0 -> given = 0
          [] OTHER -> /\ given >= cmd.numParams
                      /\ \A i \in 1..cmd.numParams : Fits(cmd.kind[i], args[i + 1])
                      /\ given > cmd.numParams => cmd.hasExtraParams

\* The generated wrapper: SetCurrentArgsNumParams comes first.
CallCommand ==
    /\ At("params")
    /\ stack' = [stack EXCEPT ![Len(stack)].numParams = Command.numParams]
    /\ GoTo(IF ~ProcessParameters(Command, Top.args) THEN "pop"
            ELSE "body")
    /\ UNCHANGED <<genVars, program>>

\* Mutant: the arguments are those of the first line.
ExtraOfFirst(name) ==
    LET frame == stack[1]
    IN  IF Len(frame.args) + 1 < 2 + frame.numParams THEN <<>>
        ELSE <<name>> \o SubSeq(frame.args, 2 + frame.numParams, Len(frame.args))

\* What is left of the line in the last frame; <<>> is NULL.
ExtraArgs(name) ==
    LET frame == stack[Len(stack)]
    IN  IF Len(frame.args) + 1 < 2 + frame.numParams THEN <<>>
        ELSE <<name>> \o SubSeq(frame.args, 2 + frame.numParams, Len(frame.args))

\* A command that is not EXTRA uses its own parameters only.
PlainCommand ==
    /\ At("body") /\ ~Command.hasExtraParams
    /\ GoTo("pop")
    /\ UNCHANGED <<genVars, program, stack>>

\* TestExtra: with nothing left it reports an error and frees what it got.
GetExtraArgs ==
    /\ At("body") /\ Command.hasExtraParams
    /\ LET extra == ExtraArgs(Forwards[Command.name])
           caller == [Top EXCEPT !.extra = extra, !.held = extra # <<>>, !.at = "free"]
       IN  calls' = IF Len(extra) <= 1 THEN SetTop(caller)
                    ELSE Append(SetTop(caller), Call(extra))
    /\ UNCHANGED <<genVars, program, stack>>

FreeExtraArgs ==
    /\ At("free")
    /\ calls' = SetTop([Top EXCEPT !.held = FALSE, !.at = "pop"])
    /\ UNCHANGED <<genVars, program, stack>>

\* PopCurrentArgsForExtraArgs, and the call returns to the command that made
\* it, or to ParserWmain.
Return ==
    /\ At("pop")
    /\ stack' = SubSeq(stack, 1, Len(stack) - 1)
    /\ calls' = SubSeq(calls, 1, Len(calls) - 1)
    /\ program' = IF Len(calls) = 1 THEN "exited" ELSE program
    /\ UNCHANGED genVars

Run == ParserWmain \/ PushCurrentArgs \/ FindCommand \/ CallCommand
       \/ PlainCommand \/ GetExtraArgs \/ FreeExtraArgs \/ Return

\* The program ended, or was not built.
Ended ==
    /\ program \in {"exited", "died"} \/ (genStep = "written" /\ table = <<>>)
    /\ UNCHANGED vars

Next == (Generate /\ UNCHANGED runVars) \/ Run \/ Ended

Spec == Init /\ [][Next]_vars

-----------------------------------------------------------------------------
Steps == {"push", "find", "params", "body", "free", "pop"}

\* The variables have their types, and the table is whole or empty.  (For
\* which projects it is empty, says TableOfPossibleTypes.)
TypeOK ==
    /\ project \in Projects /\ genStep \in {"scan", "written"}
    /\ scanned \in 0..Len(project)
    /\ found \in Seq(Runnable)
    /\ Len(table) \in {0, Len(found)}
    /\ program \in {"unbuilt", "running", "exited", "died"}
    /\ \A i \in DOMAIN stack : stack[i].numParams \in Nat \cup {-1}
    /\ \A i \in DOMAIN calls :
           /\ calls[i].cmd \in 0..Len(table) /\ calls[i].at \in Steps
           /\ calls[i].args \in Seq(Tokens) /\ calls[i].held \in BOOLEAN

\* Every line that is being processed has its own frame in G_ParserArgsStack,
\* with its own arguments, whatever lines its command has run and however they
\* ended; an argv that a frame points to is not freed; the array never
\* overflows, and FatalError ends the program only when it would.
CallsKeepTheirFrames ==
    /\ Len(stack) <= MaxParserRecursion
    /\ program = "exited" => stack = <<>>
    /\ program = "died" => Len(stack) = MaxParserRecursion
    /\ program = "running" =>
           Len(stack) = IF Top.at = "push" THEN Len(calls) - 1 ELSE Len(calls)
    /\ \A i \in DOMAIN stack :
           /\ stack[i].args = calls[i].args
           /\ i > 1 => calls[i - 1].held /\ calls[i - 1].extra = stack[i].args

\* The declaration of the command a call found.
Declaration(call) == found[call.cmd]

TypesMatch(f, args) ==
    /\ Len(args) - 1 >= Len(f.params)
    /\ \A i \in DOMAIN f.params : f.params[i] = "char*" \/ args[i + 1] \in Numbers
    /\ Len(args) - 1 > Len(f.params) => IsExtra(f)

\* A function runs as its declaration says, through the table that was
\* generated from it: with as many arguments as it has parameters, a number for
\* every parameter but a char*, with more only if it is EXTRA, a HIDE function
\* only from another command, and what that command runs is exactly what its own
\* parameters left of its line.  (The width and the sign of a number are not
\* told apart: Numbers is what every numeric kind takes.  No function with an
\* INT8 parameter ever runs, as it is in no table.)
CalledAsDeclared ==
    \A i \in DOMAIN calls :
        calls[i].at \in {"body", "free"} =>
            LET f == Declaration(calls[i])
            IN  /\ f.params # <<"CMD_LINE">> => TypesMatch(f, calls[i].args)
                /\ IsHidden(f) => i > 1
                /\ i > 1 =>
                       LET caller == Declaration(calls[i - 1])
                           line == calls[i - 1].args
                       IN  calls[i].args = <<Forwards[caller.name]>>
                               \o SubSeq(line, 2 + Len(caller.params), Len(line))
=============================================================================
