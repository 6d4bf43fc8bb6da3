---------------------------- MODULE CliTableGen ----------------------------
(***************************************************************************)
(* CliTableGen reads the .cpp files of a project, finds the functions that *)
(* are marked TEST_FUNCTION..., and writes the table of commands that      *)
(* CliRuntimeLib is linked with.                                           *)
(***************************************************************************)
EXTENDS Integers, Sequences

CONSTANT Projects   \* each a sequence of files, each a sequence of functions

\* What a project may declare: a name, the parameters' types, the marker.
Markers == {"TEST_FUNCTION", "TEST_FUNCTION_HIDE", "TEST_FUNCTION_EXTRA",
            "TEST_FUNCTION_EXTRA_HIDE"}

FunctionData == [name : STRING, params : Seq(STRING), marker : Markers]

ASSUME ProjectsAssumption == Projects \subseteq Seq(Seq(FunctionData))

VARIABLES
    project,    \* the files under the directory CliTableGen is given
    genStep,    \* the next step of wmain
    scanned,    \* how many files FindParserFuncs was called for
    found,      \* TotalFunctions
    table       \* the PARSER_FUNC array in the file it wrote

genVars == <<project, genStep, scanned, found, table>>

-----------------------------------------------------------------------------
VarTypes == <<"INT8", "UINT8", "INT16", "UINT16", "INT32", "UINT32", "INT64",
              "UINT64", "char*", "CMD_LINE">>


\* The index from 0, and 0 for a type that is not there.
GetNumOfVars(type) ==
    IF \E i \in DOMAIN VarTypes : VarTypes[i] = type
    THEN (CHOOSE i \in DOMAIN VarTypes : VarTypes[i] = type) - 1
    ELSE 0

\* CreateParamsVarTypeTableArray succeeds.
Supported(f) ==
    \A i \in DOMAIN f.params :
        /\ GetNumOfVars(f.params[i]) # 0
        /\ f.params[i] = "CMD_LINE" => Len(f.params) = 1

\* The kinds count from 1; a function without parameters has one, 0.
ParamKinds(f) ==
    IF f.params = <<>> THEN <<0>>
    ELSE [i \in DOMAIN f.params |-> GetNumOfVars(f.params[i]) + 1]

IsHidden(f) == f.marker \in {"TEST_FUNCTION_HIDE", "TEST_FUNCTION_EXTRA_HIDE"}
IsExtra(f) == f.marker \in {"TEST_FUNCTION_EXTRA", "TEST_FUNCTION_EXTRA_HIDE"}

ParserFunc(f) ==
    [name |-> f.name, kind |-> ParamKinds(f), numParams |-> Len(ParamKinds(f)),
     hideFromParser |-> IsHidden(f), hasExtraParams |-> IsExtra(f)]

\* Mutant: what comes before the unsupported function is kept.
KeepsSupported(functions) ==
    LET Good == {n \in 0..Len(functions) : \A i \in 1..n : Supported(functions[i])}
        last == CHOOSE n \in Good : \A m \in Good : m <= n
    IN  [i \in 1..last |-> ParserFunc(functions[i])]

\* One function that is not supported, and there is no table at all.
MakeParserFileData(functions) ==
    IF \A i \in DOMAIN functions : Supported(functions[i])
    THEN [i \in DOMAIN functions |-> ParserFunc(functions[i])]
    ELSE <<>>

-----------------------------------------------------------------------------
GenInit ==
    /\ project \in Projects
    /\ genStep = "scan" /\ scanned = 0
    /\ found = <<>> /\ table = <<>>

\* A file that cannot be mapped has no functions; an exception ends the scan
\* and leaves the file that is written empty.
FindParserFuncs ==
    /\ genStep = "scan" /\ scanned < Len(project)
    /\ scanned' = scanned + 1
    /\ \/ found' \in {found, found \o project[scanned + 1]} /\ genStep' = genStep
       \/ found' = found /\ genStep' = "written"
    /\ UNCHANGED <<project, table>>

\* The file is written whatever happened, and wmain returns 0.
WriteTable ==
    /\ genStep = "scan" /\ scanned = Len(project)
    /\ table' = MakeParserFileData(found)
    /\ genStep' = "written"
    /\ UNCHANGED <<project, scanned, found>>

Generate == FindParserFuncs \/ WriteTable

-----------------------------------------------------------------------------
(***************************************************************************)
(* ICliRuntimeLib.h:17-30 lists "the possible values that can be used as   *)
(* 'type' for the arguments in test functions".  CMD_LINE is for a         *)
(* function with no other parameter (the message at CliTableGen.cpp:355).  *)
(***************************************************************************)
PossibleTypes == {"INT8", "UINT8", "INT16", "UINT16", "INT32", "UINT32", "INT64",
                  "UINT64", "char*", "CMD_LINE"}

Possible(f) ==
    \A i \in DOMAIN f.params :
        /\ f.params[i] \in PossibleTypes
        /\ f.params[i] = "CMD_LINE" => Len(f.params) = 1

\* The code and that list disagree on INT8, the first one: GetNumOfVars answers
\* 0 for it, as it does for a type that is not there.
Misjudged(f) == \E i \in DOMAIN f.params : f.params[i] = "INT8"

=============================================================================
