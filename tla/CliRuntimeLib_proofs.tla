------------------------ MODULE CliRuntimeLib_proofs ------------------------
(***************************************************************************)
(* The frames of G_ParserArgsStack match the lines that are being          *)
(* processed, and a command is called as it was declared, for every        *)
(* project, every line and every limit.                                    *)
(***************************************************************************)
EXTENDS CliRuntimeLib, SequenceTheorems, TLAPS

Entry ==
    {e \in [name : STRING, kind : Seq(Nat), numParams : Nat, hideFromParser : BOOLEAN,
            hasExtraParams : BOOLEAN] :
        e.hasExtraParams => e.name \in DOMAIN Forwards /\ Forwards[e.name] \in Tokens}

FrameData == [args : Seq(Tokens), numParams : Nat \cup {-1}]

CallData ==
    [args : Seq(Tokens), cmd : Nat, at : Steps, extra : Seq(Tokens), held : BOOLEAN]

-----------------------------------------------------------------------------
(***************************************************************************)
(* Sequences that change at their end.                                     *)
(***************************************************************************)
LEMMA LastReplaced ==
    ASSUME NEW S, NEW s \in Seq(S), s # <<>>, NEW x \in S
    PROVE  /\ [s EXCEPT ![Len(s)] = x] \in Seq(S)
           /\ Len([s EXCEPT ![Len(s)] = x]) = Len(s)
           /\ \A i \in 1..Len(s) :
                  [s EXCEPT ![Len(s)] = x][i] = IF i = Len(s) THEN x ELSE s[i]
OBVIOUS

LEMMA LastDropped ==
    ASSUME NEW S, NEW s \in Seq(S), s # <<>>
    PROVE  /\ SubSeq(s, 1, Len(s) - 1) \in Seq(S)
           /\ Len(SubSeq(s, 1, Len(s) - 1)) = Len(s) - 1
           /\ \A i \in 1..Len(s) - 1 : SubSeq(s, 1, Len(s) - 1)[i] = s[i]
<1> DEFINE n == Len(s) - 1
<1>0. Len(s) \in Nat /\ Len(s) # 0
    OBVIOUS
<1>1. 1 \in Int /\ n \in Nat /\ n - 1 + 1 = n /\ (~(1 <= n) => n = 0)
    <2>1. \A k \in Nat \ {0} : k - 1 \in Nat
        OBVIOUS
    <2>2. \A k \in Nat : k - 1 + 1 = k /\ (~(1 <= k) => k = 0)
        OBVIOUS
    <2>3. n \in Nat
        BY <1>0, <2>1
    <2> HIDE DEF n
    <2> QED
        BY <2>2, <2>3
<1>2. \A i \in 1..n : s[i] \in S /\ 1 + i - 1 = i
    BY <1>0
<1> HIDE DEF n
<1>3. /\ SubSeq(s, 1, n) \in Seq(S)
      /\ Len(SubSeq(s, 1, n)) = IF 1 <= n THEN n - 1 + 1 ELSE 0
      /\ \A i \in 1..n - 1 + 1 : SubSeq(s, 1, n)[i] = s[1 + i - 1]
    BY <1>1, <1>2, SubSeqProperties
<1>4. Len(SubSeq(s, 1, n)) = n
    BY <1>1, <1>3
<1>5. \A i \in 1..n : SubSeq(s, 1, n)[i] = s[i]
    BY <1>1, <1>2, <1>3
<1> QED
    BY <1>3, <1>4, <1>5 DEF n

-----------------------------------------------------------------------------
(***************************************************************************)
(* The table.                                                              *)
(***************************************************************************)
LEMMA KindIsNat == ASSUME NEW type PROVE GetNumOfVars(type) \in Nat
<1>1. DOMAIN VarTypes = 1..10
    BY DEF VarTypes
<1>2. CASE \E i \in DOMAIN VarTypes : VarTypes[i] = type
    <2>1. (CHOOSE i \in DOMAIN VarTypes : VarTypes[i] = type) \in DOMAIN VarTypes
        BY <1>2, Zenon
    <2> QED
        BY <1>1, <1>2, <2>1 DEF GetNumOfVars
<1>3. CASE ~\E i \in DOMAIN VarTypes : VarTypes[i] = type
    BY <1>3 DEF GetNumOfVars
<1> QED
    BY <1>2, <1>3

LEMMA KindsAreNats ==
    ASSUME NEW f \in FunctionData
    PROVE  ParamKinds(f) \in Seq(Nat)
<1>1. f.params \in Seq(STRING)
    BY DEF FunctionData
<1>2. CASE f.params = <<>>
    BY <1>2 DEF ParamKinds
<1>3. CASE f.params # <<>>
    <2>1. \A i \in DOMAIN f.params : GetNumOfVars(f.params[i]) + 1 \in Nat
        BY KindIsNat
    <2>2. DOMAIN f.params = 1..Len(f.params) /\ Len(f.params) \in Nat
        BY <1>1
    <2>3. [i \in DOMAIN f.params |-> GetNumOfVars(f.params[i]) + 1] \in Seq(Nat)
        BY <2>1, <2>2
    <2> QED
        BY <1>3, <2>3 DEF ParamKinds
<1> QED
    BY <1>2, <1>3

LEMMA ParserFuncType ==
    ASSUME NEW f \in Runnable
    PROVE  ParserFunc(f) \in Entry
<1>1. f \in FunctionData /\ ParamKinds(f) \in Seq(Nat)
    BY KindsAreNats DEF Runnable
<1>2. Len(ParamKinds(f)) \in Nat
    BY <1>1
<1>3. f.name \in STRING /\ IsHidden(f) \in BOOLEAN /\ IsExtra(f) \in BOOLEAN
    BY <1>1 DEF FunctionData, IsHidden, IsExtra
<1>4. IsExtra(f) => f.name \in DOMAIN Forwards /\ Forwards[f.name] \in Tokens
    BY DEF Runnable
<1> QED
    BY <1>1, <1>2, <1>3, <1>4 DEF ParserFunc, Entry

LEMMA TableType ==
    ASSUME NEW functions \in Seq(Runnable)
    PROVE  /\ MakeParserFileData(functions) \in Seq(Entry)
           /\ Len(MakeParserFileData(functions)) \in {0, Len(functions)}
<1>1. \A i \in DOMAIN functions : ParserFunc(functions[i]) \in Entry
    BY ParserFuncType
<1>2. DOMAIN functions = 1..Len(functions) /\ Len(functions) \in Nat
    OBVIOUS
<1>3. /\ [i \in DOMAIN functions |-> ParserFunc(functions[i])] \in Seq(Entry)
      /\ Len([i \in DOMAIN functions |-> ParserFunc(functions[i])]) = Len(functions)
    BY <1>1, <1>2
<1> QED
    BY <1>3 DEF MakeParserFileData

-----------------------------------------------------------------------------
(***************************************************************************)
(* The types.                                                              *)
(***************************************************************************)
GenTypes ==
    /\ project \in Projects /\ genStep \in {"scan", "written"}
    /\ scanned \in 0..Len(project)
    /\ found \in Seq(Runnable)
    /\ table \in Seq(Entry) /\ Len(table) \in {0, Len(found)}
    /\ genStep = "scan" => program = "unbuilt" /\ table = <<>>

Programs == {"unbuilt", "running", "exited", "died"}

RunTypes ==
    /\ program \in Programs
    /\ stack \in Seq(FrameData)
    /\ calls \in Seq(CallData)
    /\ \A i \in 1..Len(calls) :
           /\ calls[i].cmd \in 0..Len(table)
           /\ calls[i].at \in {"params", "body", "free"} => calls[i].cmd # 0

\* A program that runs has a call, and one that is not built or has exited has
\* none; every call but the last has run the line of the next one and waits.
FramesInv ==
    /\ Len(stack) <= MaxParserRecursion
    /\ program \in {"unbuilt", "exited"} => stack = <<>> /\ calls = <<>>
    /\ program = "running" =>
           /\ calls # <<>>
           /\ Len(stack) = IF Top.at = "push" THEN Len(calls) - 1 ELSE Len(calls)
    /\ program = "died" => Len(stack) = MaxParserRecursion
    /\ \A i \in 1..Len(stack) : i <= Len(calls) /\ stack[i].args = calls[i].args
    /\ \A i \in 1..Len(calls) - 1 :
           calls[i].at = "free" /\ calls[i].held /\ calls[i].extra = calls[i + 1].args

IInv == GenTypes /\ RunTypes /\ FramesInv

LEMMA TopIsACall ==
    ASSUME IInv, program = "running"
    PROVE  /\ Len(calls) \in Nat \ {0} /\ Len(stack) \in Nat
           /\ Top = calls[Len(calls)] /\ Top \in CallData
           /\ Top.cmd \in 0..Len(table) /\ Len(table) \in Nat
           /\ Top.at \in {"params", "body", "free"} => Command \in Entry
           /\ genStep # "scan"
<1>1. calls \in Seq(CallData) /\ calls # <<>> /\ stack \in Seq(FrameData)
    BY DEF IInv, RunTypes, FramesInv
<1>2. Len(calls) \in Nat \ {0} /\ Len(stack) \in Nat
    BY <1>1
<1>3. Top = calls[Len(calls)] /\ Top \in CallData /\ Len(calls) \in 1..Len(calls)
    BY <1>1, <1>2 DEF Top
<1>4. table \in Seq(Entry) /\ Len(table) \in Nat
    BY DEF IInv, GenTypes
<1>5. Top.cmd \in 0..Len(table) /\ (Top.at \in {"params", "body", "free"} => Top.cmd # 0)
    BY <1>3 DEF IInv, RunTypes
<1>6. Top.at \in {"params", "body", "free"} => Command \in Entry
    BY <1>4, <1>5 DEF Command
<1>7. genStep # "scan"
    BY DEF IInv, GenTypes
<1> QED
    BY <1>2, <1>3, <1>4, <1>5, <1>6, <1>7

\* The last call goes on: its line stays, and it waits for no other one.
LEMMA TopGoesOn ==
    ASSUME IInv, program = "running", UNCHANGED genVars, program' = "running",
           NEW c \in CallData, c.args = Top.args, calls' = SetTop(c),
           c.cmd \in 0..Len(table),
           c.at \in {"params", "body", "free"} => c.cmd # 0,
           c.at # "push",
           stack' \in Seq(FrameData), Len(stack') = Len(calls),
           Len(stack') <= MaxParserRecursion,
           \A i \in 1..Len(calls) : stack'[i].args = calls[i].args
    PROVE  IInv'
<1>1. calls \in Seq(CallData) /\ calls # <<>>
    BY DEF IInv, RunTypes, FramesInv
<1>2. /\ Len(calls) \in Nat \ {0} /\ Top = calls[Len(calls)] /\ genStep # "scan"
    BY TopIsACall
<1>3. /\ calls' \in Seq(CallData) /\ Len(calls') = Len(calls)
      /\ \A i \in 1..Len(calls) : calls'[i] = IF i = Len(calls) THEN c ELSE calls[i]
    BY <1>1, LastReplaced DEF SetTop
<1>4. Top' = c
    BY <1>2, <1>3 DEF Top
<1>5. GenTypes'
    BY <1>2 DEF IInv, GenTypes, genVars
<1>6. \A i \in 1..Len(calls') :
          /\ calls'[i].cmd \in 0..Len(table')
          /\ calls'[i].at \in {"params", "body", "free"} => calls'[i].cmd # 0
    BY <1>3 DEF IInv, RunTypes, genVars
<1>7. RunTypes'
    BY <1>3, <1>6 DEF RunTypes, Programs
<1>8. \A i \in 1..Len(calls) : calls'[i].args = calls[i].args
    BY <1>2, <1>3
<1>9. \A i \in 1..Len(calls) - 1 : i \in 1..Len(calls) /\ i + 1 \in 1..Len(calls) /\ i # Len(calls)
    BY <1>2
<1>10. \A i \in 1..Len(calls') - 1 :
           calls'[i].at = "free" /\ calls'[i].held /\ calls'[i].extra = calls'[i + 1].args
    BY <1>3, <1>8, <1>9 DEF IInv, FramesInv
<1>11. \A i \in 1..Len(stack') : i <= Len(calls') /\ stack'[i].args = calls'[i].args
    BY <1>2, <1>3, <1>8
<1>12. calls' # <<>>
    BY <1>2, <1>3
<1> QED
    BY <1>3, <1>4, <1>5, <1>7, <1>10, <1>11, <1>12 DEF IInv, FramesInv

-----------------------------------------------------------------------------
(***************************************************************************)
(* The steps of a call.                                                    *)
(***************************************************************************)
\* After the push, the frames are those of the calls.
LEMMA FramesOfCalls ==
    ASSUME IInv, program = "running", Top.at # "push"
    PROVE  /\ stack \in Seq(FrameData) /\ stack # <<>>
           /\ Len(stack) = Len(calls) /\ Len(stack) <= MaxParserRecursion
           /\ \A i \in 1..Len(calls) : stack[i].args = calls[i].args
<1>1. stack \in Seq(FrameData) /\ Len(stack) = Len(calls)
    BY DEF IInv, RunTypes, FramesInv
<1>2. Len(calls) # 0
    BY TopIsACall
<1> QED
    BY <1>1, <1>2 DEF IInv, FramesInv

LEMMA OnlyTopGoesOn ==
    ASSUME IInv, program = "running", Top.at # "push", UNCHANGED <<genVars, program, stack>>,
           NEW c \in CallData, c.args = Top.args, calls' = SetTop(c),
           c.cmd \in 0..Len(table),
           c.at \in {"params", "body", "free"} => c.cmd # 0, c.at # "push"
    PROVE  IInv'
<1>1. /\ stack' \in Seq(FrameData) /\ Len(stack') = Len(calls)
      /\ Len(stack') <= MaxParserRecursion
      /\ \A i \in 1..Len(calls) : stack'[i].args = calls[i].args
    BY FramesOfCalls
<1>2. UNCHANGED genVars /\ program' = "running"
    OBVIOUS
<1> QED
    BY <1>1, <1>2, TopGoesOn

LEMMA PushKeeps == ASSUME IInv, PushCurrentArgs PROVE IInv'
<1>1. program = "running" /\ Top.at = "push" /\ UNCHANGED genVars
    BY DEF PushCurrentArgs, At
<1>2. /\ Len(calls) \in Nat \ {0} /\ Len(stack) \in Nat /\ Top = calls[Len(calls)]
      /\ Top \in CallData /\ Top.cmd \in 0..Len(table) /\ genStep # "scan"
    BY <1>1, TopIsACall
<1>3. Len(stack) = Len(calls) - 1 /\ MaxParserRecursion \in Nat
      /\ Len(stack) <= MaxParserRecursion /\ stack \in Seq(FrameData)
    BY <1>1, RuntimeAssumption DEF IInv, FramesInv, RunTypes
<1>4. CASE Len(stack) >= MaxParserRecursion
    <2>1. program' = "died" /\ UNCHANGED <<stack, calls>>
        BY <1>4 DEF PushCurrentArgs
    <2>2. GenTypes' /\ RunTypes'
        BY <1>1, <1>2, <2>1 DEF IInv, GenTypes, RunTypes, Programs, genVars
    <2>3. Len(stack') = MaxParserRecursion
        BY <1>3, <1>4, <2>1
    <2> QED
        BY <1>3, <2>1, <2>2, <2>3 DEF IInv, FramesInv
<1>5. CASE Len(stack) < MaxParserRecursion
    <2> DEFINE frame == [args |-> Top.args, numParams |-> -1]
               c == [Top EXCEPT !.at = "find"]
    <2>1. stack' = Append(stack, frame) /\ calls' = SetTop(c) /\ program' = "running"
        BY <1>1, <1>3, <1>5 DEF PushCurrentArgs, GoTo
    <2>2. frame \in FrameData /\ c \in CallData /\ c.args = Top.args /\ c.cmd = Top.cmd
          /\ c.at = "find"
        BY <1>2 DEF FrameData, CallData, Steps
    <2> HIDE DEF frame, c
    <2>3. stack' \in Seq(FrameData) /\ Len(stack') = Len(calls)
          /\ Len(stack') <= MaxParserRecursion
        BY <1>2, <1>3, <1>5, <2>1, <2>2
    <2>4. \A i \in 1..Len(stack) : stack'[i] = stack[i]
        BY <1>3, <2>1, <2>2
    <2>5. stack'[Len(calls)] = frame
        BY <1>2, <1>3, <2>1, <2>2
    <2>6. \A i \in 1..Len(calls) : stack'[i].args = calls[i].args
        <3> SUFFICES ASSUME NEW i \in 1..Len(calls)
                     PROVE  stack'[i].args = calls[i].args
            OBVIOUS
        <3>1. CASE i = Len(calls)
            BY <1>2, <2>5, <3>1 DEF frame
        <3>2. CASE i # Len(calls)
            <4>1. i \in 1..Len(stack)
                BY <1>2, <1>3, <3>2
            <4> QED
                BY <2>4, <4>1 DEF IInv, FramesInv
        <3> QED
            BY <3>1, <3>2
    <2> QED
        BY <1>1, <1>2, <2>1, <2>2, <2>3, <2>6, TopGoesOn
<1> QED
    BY <1>3, <1>4, <1>5, <1>2

LEMMA FindKeeps == ASSUME IInv, FindCommand PROVE IInv'
<1>1. program = "running" /\ Top.at = "find" /\ UNCHANGED <<genVars, program, stack>>
    BY DEF FindCommand, At
<1>2. Top \in CallData /\ Top.cmd \in 0..Len(table) /\ Len(table) \in Nat
    BY <1>1, TopIsACall
<1>3. DOMAIN table = 1..Len(table)
    BY DEF IInv, GenTypes
<1>4. CASE GoTo("pop")
    <2> DEFINE c == [Top EXCEPT !.at = "pop"]
    <2>1. c \in CallData /\ c.args = Top.args /\ c.cmd = Top.cmd /\ c.at = "pop"
        BY <1>2 DEF CallData, Steps
    <2>2. calls' = SetTop(c)
        BY <1>4 DEF GoTo
    <2> QED
        BY <1>1, <1>2, <2>1, <2>2, OnlyTopGoesOn
<1>5. CASE \E cmd \in 1..Len(table) :
               calls' = SetTop([Top EXCEPT !.cmd = cmd, !.at = "params"])
    <2>1. PICK cmd \in 1..Len(table) :
               calls' = SetTop([Top EXCEPT !.cmd = cmd, !.at = "params"])
        BY <1>5
    <2> DEFINE c == [Top EXCEPT !.cmd = cmd, !.at = "params"]
    <2>2. cmd \in Nat /\ cmd \in 0..Len(table) /\ cmd # 0
        BY <1>2
    <2>3. c \in CallData /\ c.args = Top.args /\ c.cmd = cmd /\ c.at = "params"
        BY <1>2, <2>2 DEF CallData, Steps
    <2> QED
        BY <1>1, <2>1, <2>2, <2>3, OnlyTopGoesOn
<1> QED
    BY <1>3, <1>4, <1>5 DEF FindCommand, ParserFindCommand

LEMMA CallKeeps == ASSUME IInv, CallCommand PROVE IInv'
<1>1. /\ program = "running" /\ Top.at = "params" /\ UNCHANGED genVars
      /\ program' = "running"
    BY DEF CallCommand, At
<1>2. /\ Top \in CallData /\ Top.cmd \in 0..Len(table) /\ Command \in Entry
      /\ Len(calls) \in Nat \ {0}
    BY <1>1, TopIsACall
<1>3. Top.cmd # 0
    BY <1>1, TopIsACall DEF IInv, RunTypes
<1>4. /\ stack \in Seq(FrameData) /\ stack # <<>>
      /\ Len(stack) = Len(calls) /\ Len(stack) <= MaxParserRecursion
      /\ \A i \in 1..Len(calls) : stack[i].args = calls[i].args
    BY <1>1, FramesOfCalls
<1> DEFINE frame == [stack[Len(stack)] EXCEPT !.numParams = Command.numParams]
<1>5. Command.numParams \in Nat /\ stack[Len(stack)] \in FrameData
    BY <1>2, <1>4 DEF Entry
<1>6. frame \in FrameData /\ frame.args = stack[Len(stack)].args
    BY <1>5 DEF FrameData
<1>7. stack' = [stack EXCEPT ![Len(stack)] = frame]
    BY DEF CallCommand
<1> HIDE DEF frame
<1>8. /\ stack' \in Seq(FrameData) /\ Len(stack') = Len(stack)
      /\ \A i \in 1..Len(stack) : stack'[i] = IF i = Len(stack) THEN frame ELSE stack[i]
    BY <1>4, <1>6, <1>7, LastReplaced
<1>9. \A i \in 1..Len(calls) : stack'[i].args = calls[i].args
    BY <1>4, <1>6, <1>8
<1>10. PICK at \in {"pop", "body"} : GoTo(at)
    BY DEF CallCommand
<1> DEFINE c == [Top EXCEPT !.at = at]
<1>11. c \in CallData /\ c.args = Top.args /\ c.cmd = Top.cmd /\ c.at # "push"
    BY <1>2 DEF CallData, Steps
<1>12. calls' = SetTop(c)
    BY <1>10 DEF GoTo
<1> HIDE DEF c
<1> QED
    BY <1>1, <1>2, <1>3, <1>4, <1>8, <1>9, <1>11, <1>12, TopGoesOn

LEMMA PlainKeeps == ASSUME IInv, PlainCommand PROVE IInv'
<1>1. program = "running" /\ Top.at = "body" /\ UNCHANGED <<genVars, program, stack>>
    BY DEF PlainCommand, At
<1>2. Top \in CallData /\ Top.cmd \in 0..Len(table)
    BY <1>1, TopIsACall
<1> DEFINE c == [Top EXCEPT !.at = "pop"]
<1>3. c \in CallData /\ c.args = Top.args /\ c.cmd = Top.cmd /\ c.at = "pop"
    BY <1>2 DEF CallData, Steps
<1>4. calls' = SetTop(c)
    BY DEF PlainCommand, GoTo
<1> QED
    BY <1>1, <1>2, <1>3, <1>4, OnlyTopGoesOn

LEMMA FreeKeeps == ASSUME IInv, FreeExtraArgs PROVE IInv'
<1>1. program = "running" /\ Top.at = "free" /\ UNCHANGED <<genVars, program, stack>>
    BY DEF FreeExtraArgs, At
<1>2. Top \in CallData /\ Top.cmd \in 0..Len(table)
    BY <1>1, TopIsACall
<1> DEFINE c == [Top EXCEPT !.held = FALSE, !.at = "pop"]
<1>3. c \in CallData /\ c.args = Top.args /\ c.cmd = Top.cmd /\ c.at = "pop"
    BY <1>2 DEF CallData, Steps
<1>4. calls' = SetTop(c)
    BY DEF FreeExtraArgs
<1> QED
    BY <1>1, <1>2, <1>3, <1>4, OnlyTopGoesOn

\* What is left of a line is a line.
LEMMA ExtraIsALine ==
    ASSUME IInv, program = "running", Top.at = "body", Command.hasExtraParams
    PROVE  ExtraArgs(Forwards[Command.name]) \in Seq(Tokens)
<1>1. stack \in Seq(FrameData) /\ stack # <<>>
    BY FramesOfCalls
<1>2. Command \in Entry /\ Forwards[Command.name] \in Tokens
    BY TopIsACall DEF Entry
<1> DEFINE frame == stack[Len(stack)]
           m == 2 + frame.numParams
           rest == SubSeq(frame.args, m, Len(frame.args))
<1>3. frame.args \in Seq(Tokens) /\ m \in Nat \ {0} /\ Len(frame.args) \in Int
    <2>1. Len(stack) \in 1..Len(stack) /\ \A i \in 1..Len(stack) : stack[i] \in FrameData
        BY <1>1
    <2>2. frame \in FrameData
        BY <2>1
    <2> HIDE DEF frame
    <2>3. frame.args \in Seq(Tokens) /\ frame.numParams \in Nat \cup {-1}
        BY <2>2 DEF FrameData
    <2> QED
        BY <2>3
<1>4. rest \in Seq(Tokens)
    <2> HIDE DEF m, frame
    <2>1. \A i \in m..Len(frame.args) : frame.args[i] \in Tokens
        BY <1>3
    <2>2. m \in Int
        BY <1>3
    <2> QED
        BY <1>3, <2>1, <2>2, SubSeqProperties
<1>5. <<Forwards[Command.name]>> \in Seq(Tokens)
    BY <1>2
<1>6. <<Forwards[Command.name]>> \o rest \in Seq(Tokens)
    <2> HIDE DEF rest
    <2> QED
        BY <1>4, <1>5
<1>7. <<>> \in Seq(Tokens)
    OBVIOUS
<1> QED
    BY <1>6, <1>7, Zenon DEF ExtraArgs

LEMMA ExtraKeeps == ASSUME IInv, GetExtraArgs PROVE IInv'
<1>1. /\ program = "running" /\ Top.at = "body" /\ Command.hasExtraParams
      /\ UNCHANGED <<genVars, program, stack>>
    BY DEF GetExtraArgs, At
<1> DEFINE extra == ExtraArgs(Forwards[Command.name])
           c == [Top EXCEPT !.extra = extra, !.held = extra # <<>>, !.at = "free"]
<1>2. extra \in Seq(Tokens)
    BY <1>1, ExtraIsALine
<1>3. IF Len(extra) <= 1 THEN calls' = SetTop(c) ELSE calls' = Append(SetTop(c), Call(extra))
    BY Zenon DEF GetExtraArgs
<1> HIDE DEF extra
<1>4. /\ Len(calls) \in Nat \ {0} /\ Top = calls[Len(calls)] /\ Top \in CallData
      /\ Top.cmd \in 0..Len(table) /\ Len(table) \in Nat /\ genStep # "scan"
    BY <1>1, TopIsACall
<1>5. Top.cmd # 0
    BY <1>1, <1>4 DEF IInv, RunTypes
<1>6. /\ c \in CallData /\ c.args = Top.args /\ c.cmd = Top.cmd /\ c.at = "free"
      /\ c.extra = extra /\ c.held = (extra # <<>>)
    <2>1. (extra # <<>>) \in BOOLEAN
        OBVIOUS
    <2> QED
        BY <1>2, <1>4, <2>1 DEF CallData, Steps
<1> HIDE DEF c
<1>7. CASE Len(extra) <= 1
    BY <1>1, <1>3, <1>4, <1>5, <1>6, <1>7, OnlyTopGoesOn
<1>8. CASE Len(extra) > 1
    <2> DEFINE n == Len(calls)
    <2>1. extra # <<>> /\ ~(Len(extra) <= 1)
        BY <1>2, <1>8
    <2>2. /\ stack \in Seq(FrameData) /\ Len(stack) = n /\ Len(stack) <= MaxParserRecursion
          /\ \A i \in 1..n : stack[i].args = calls[i].args
        BY <1>1, FramesOfCalls
    <2>3. calls \in Seq(CallData) /\ calls # <<>>
        BY <1>1 DEF IInv, RunTypes, FramesInv
    <2>4. /\ SetTop(c) \in Seq(CallData) /\ Len(SetTop(c)) = n
          /\ \A i \in 1..n : SetTop(c)[i] = IF i = n THEN c ELSE calls[i]
        BY <1>6, <2>3, LastReplaced DEF SetTop
    <2>5. /\ Call(extra) \in CallData /\ Call(extra).args = extra
          /\ Call(extra).cmd = 0 /\ Call(extra).at = "push"
        BY <1>2 DEF Call, CallData, Steps
    <2>6. calls' = Append(SetTop(c), Call(extra))
        BY <1>3, <2>1
    <2> HIDE DEF n
    <2>7. n \in Nat \ {0}
        BY <1>4 DEF n
    <2>8. /\ calls' \in Seq(CallData) /\ Len(calls') = n + 1
          /\ calls'[n + 1] = Call(extra)
          /\ \A i \in 1..n : calls'[i] = SetTop(c)[i]
        BY <2>4, <2>5, <2>6, <2>7
    <2>9. \A i \in 1..n : calls'[i] = IF i = n THEN c ELSE calls[i]
        BY <2>4, <2>8
    <2>10. \A i \in 1..n : calls'[i].args = calls[i].args
        BY <1>4, <1>6, <2>9 DEF n
    <2>11. GenTypes'
        BY <1>1, <1>4 DEF IInv, GenTypes, genVars
    <2>12. RunTypes'
        <3>1. \A i \in 1..n :
                  /\ calls'[i].cmd \in 0..Len(table')
                  /\ calls'[i].at \in {"params", "body", "free"} => calls'[i].cmd # 0
            BY <1>1, <1>4, <1>5, <1>6, <2>9 DEF IInv, RunTypes, genVars, n
        <3>2. /\ calls'[n + 1].cmd \in 0..Len(table')
              /\ calls'[n + 1].at \in {"params", "body", "free"} => calls'[n + 1].cmd # 0
            BY <1>1, <1>4, <2>5, <2>8 DEF genVars
        <3>3. \A i \in 1..Len(calls') : i \in 1..n \/ i = n + 1
            BY <2>7, <2>8
        <3>4. program' \in Programs /\ stack' \in Seq(FrameData)
            BY <1>1, <2>2 DEF Programs
        <3> QED
            BY <2>8, <3>1, <3>2, <3>3, <3>4 DEF RunTypes
    <2>13. Top' = Call(extra) /\ calls' # <<>>
        BY <2>7, <2>8 DEF Top
    <2>14. \A i \in 1..Len(stack') : i <= Len(calls') /\ stack'[i].args = calls'[i].args
        BY <1>1, <2>2, <2>7, <2>8, <2>10
    <2>15. \A i \in 1..Len(calls') - 1 :
               calls'[i].at = "free" /\ calls'[i].held /\ calls'[i].extra = calls'[i + 1].args
        <3> SUFFICES ASSUME NEW i \in 1..n
                     PROVE  calls'[i].at = "free" /\ calls'[i].held
                                /\ calls'[i].extra = calls'[i + 1].args
            BY <2>7, <2>8
        <3>1. CASE i = n
            BY <1>6, <2>1, <2>5, <2>8, <2>9, <3>1
        <3>2. CASE i # n
            <4>1. i \in 1..Len(calls) - 1 /\ i + 1 \in 1..n
                BY <2>7, <3>2 DEF n
            <4> QED
                BY <2>9, <2>10, <3>2, <4>1 DEF IInv, FramesInv
        <3> QED
            BY <3>1, <3>2
    <2> QED
        BY <1>1, <2>2, <2>5, <2>7, <2>8, <2>11, <2>12, <2>13, <2>14, <2>15
           DEF IInv, FramesInv
<1> QED
    BY <1>2, <1>7, <1>8

\* The call that returns takes its frame with it, and the command that made it
\* is at its free.
LEMMA ReturnKeeps == ASSUME IInv, Return PROVE IInv'
<1>1. program = "running" /\ Top.at = "pop" /\ UNCHANGED genVars
    BY DEF Return, At
<1>2. /\ stack \in Seq(FrameData) /\ stack # <<>>
      /\ Len(stack) = Len(calls) /\ Len(stack) <= MaxParserRecursion
      /\ \A i \in 1..Len(calls) : stack[i].args = calls[i].args
    BY <1>1, FramesOfCalls
<1>3. calls \in Seq(CallData) /\ calls # <<>> /\ genStep # "scan" /\ Len(calls) \in Nat \ {0}
    BY <1>1, TopIsACall DEF IInv, RunTypes, FramesInv
<1> DEFINE n == Len(calls) - 1
<1>4. /\ stack' \in Seq(FrameData) /\ Len(stack') = n
      /\ \A i \in 1..n : stack'[i] = stack[i]
    BY <1>2, LastDropped DEF Return
<1>5. /\ calls' \in Seq(CallData) /\ Len(calls') = n
      /\ \A i \in 1..n : calls'[i] = calls[i]
    BY <1>3, LastDropped DEF Return
<1>6. program' = IF n = 0 THEN "exited" ELSE "running"
    BY <1>1, <1>3 DEF Return
<1>7. n \in Nat /\ n <= MaxParserRecursion /\ \A i \in 1..n : i \in 1..Len(calls)
    BY <1>2, <1>3, RuntimeAssumption
<1>8. \A i \in 1..n :
          calls[i].at = "free" /\ calls[i].held /\ calls[i].extra = calls[i + 1].args
    BY DEF IInv, FramesInv
<1> HIDE DEF n
<1>9. GenTypes'
    BY <1>1, <1>3 DEF IInv, GenTypes, genVars
<1>10. \A i \in 1..Len(calls') :
          /\ calls'[i].cmd \in 0..Len(table')
          /\ calls'[i].at \in {"params", "body", "free"} => calls'[i].cmd # 0
    BY <1>1, <1>5, <1>7 DEF IInv, RunTypes, genVars
<1>11. RunTypes'
    BY <1>4, <1>5, <1>6, <1>10 DEF RunTypes, Programs
<1>12. \A i \in 1..Len(stack') : i <= Len(calls') /\ stack'[i].args = calls'[i].args
    BY <1>2, <1>4, <1>5, <1>7
<1>13. \A i \in 1..Len(calls') - 1 :
           calls'[i].at = "free" /\ calls'[i].held /\ calls'[i].extra = calls'[i + 1].args
    <2>1. \A i \in 1..n - 1 : i \in 1..n /\ i + 1 \in 1..n
        BY <1>7
    <2> QED
        BY <1>5, <1>8, <2>1
<1>14. CASE n = 0
    <2>1. stack' = <<>> /\ calls' = <<>> /\ program' = "exited"
        BY <1>4, <1>5, <1>6, <1>14
    <2> QED
        BY <1>4, <1>7, <1>9, <1>11, <1>12, <1>13, <2>1 DEF IInv, FramesInv
<1>15. CASE n # 0
    <2>1. calls' # <<>> /\ program' = "running" /\ n \in 1..n
        BY <1>5, <1>6, <1>7, <1>15
    <2>2. Top' = calls[n] /\ Top'.at = "free"
        BY <1>5, <1>8, <2>1 DEF Top
    <2> QED
        BY <1>4, <1>5, <1>7, <1>9, <1>11, <1>12, <1>13, <2>1, <2>2 DEF IInv, FramesInv
<1> QED
    BY <1>14, <1>15

-----------------------------------------------------------------------------
(***************************************************************************)
(* The start, and the whole.                                               *)
(***************************************************************************)
LEMMA WmainKeeps == ASSUME IInv, ParserWmain PROVE IInv'
<1>1. /\ genStep = "written" /\ program = "unbuilt" /\ program' = "running"
      /\ UNCHANGED <<genVars, stack>> /\ stack = <<>>
    BY DEF ParserWmain, IInv, FramesInv
<1>2. PICK line \in Lines : calls' = <<Call(line)>>
    BY DEF ParserWmain
<1>3. line \in Seq(Tokens)
    <2>1. PICK n \in 0..MaxTokens : line \in [1..n -> Tokens]
        BY DEF Lines
    <2>2. n \in Nat
        BY RuntimeAssumption
    <2> QED
        BY <2>1, <2>2
<1>4. Call(line) \in CallData /\ Call(line).cmd = 0 /\ Call(line).at = "push"
    BY <1>3 DEF Call, CallData, Steps
<1>5. calls' \in Seq(CallData) /\ Len(calls') = 1 /\ calls'[1] = Call(line) /\ calls' # <<>>
    BY <1>2, <1>4
<1>6. GenTypes'
    BY <1>1 DEF IInv, GenTypes, genVars
<1>7. Len(table) \in Nat /\ table' = table
    BY <1>1 DEF IInv, GenTypes, genVars
<1>8. \A i \in 1..Len(calls') : i = 1
    BY <1>5
<1>9. \A i \in 1..Len(calls') :
          /\ calls'[i].cmd \in 0..Len(table')
          /\ calls'[i].at \in {"params", "body", "free"} => calls'[i].cmd # 0
    BY <1>4, <1>5, <1>7, <1>8
<1>10. RunTypes'
    BY <1>1, <1>5, <1>9 DEF IInv, RunTypes, Programs
<1>11. Top' = Call(line)
    BY <1>5 DEF Top
<1>12. Len(stack') = 0 /\ Len(calls') - 1 = 0 /\ MaxParserRecursion \in Nat
    BY <1>1, <1>5, RuntimeAssumption
<1>13. FramesInv'
    BY <1>1, <1>4, <1>5, <1>11, <1>12 DEF FramesInv
<1> QED
    BY <1>6, <1>10, <1>13 DEF IInv

LEMMA GenerateKeeps == ASSUME IInv, Generate, UNCHANGED runVars PROVE IInv'
<1>1. genStep = "scan" /\ program = "unbuilt" /\ table = <<>> /\ calls = <<>>
      /\ UNCHANGED <<program, stack, calls>>
    BY DEF Generate, FindParserFuncs, WriteTable, IInv, GenTypes, FramesInv, runVars
<1>2. project \in Seq(Seq(Runnable)) /\ scanned \in 0..Len(project) /\ found \in Seq(Runnable)
    BY ForwardsAssumption DEF IInv, GenTypes
<1>3. CASE FindParserFuncs
    <2>1. project[scanned + 1] \in Seq(Runnable) /\ scanned' \in 0..Len(project)
        BY <1>2, <1>3 DEF FindParserFuncs
    <2>2. found \o project[scanned + 1] \in Seq(Runnable)
        BY <1>2, <2>1
    <2>3. found' \in Seq(Runnable) /\ genStep' \in {"scan", "written"}
          /\ UNCHANGED <<project, table>>
        BY <1>1, <1>2, <1>3, <2>2 DEF FindParserFuncs
    <2>4. Len(table') = 0 /\ table' \in Seq(Entry)
        BY <1>1, <2>3
    <2>5. GenTypes'
        BY <1>1, <2>1, <2>3, <2>4 DEF IInv, GenTypes
    <2> QED
        BY <1>1, <2>3, <2>5 DEF IInv, RunTypes, FramesInv
<1>4. CASE WriteTable
    <2>1. table' \in Seq(Entry) /\ Len(table') \in {0, Len(found)}
        BY <1>2, <1>4, TableType DEF WriteTable
    <2>2. genStep' = "written" /\ UNCHANGED <<project, scanned, found>>
        BY <1>4 DEF WriteTable
    <2>3. GenTypes'
        BY <2>1, <2>2 DEF IInv, GenTypes
    <2>4. \A i \in 1..Len(calls) : FALSE
        BY <1>1
    <2> QED
        BY <1>1, <2>3, <2>4 DEF IInv, RunTypes, FramesInv
<1> QED
    BY <1>3, <1>4 DEF Generate

LEMMA FramesInductive == Spec => []IInv
<1>1. Init => IInv
    <2> SUFFICES ASSUME Init PROVE IInv
        OBVIOUS
    <2>1. /\ project \in Projects /\ genStep = "scan" /\ scanned = 0 /\ found = <<>>
          /\ table = <<>> /\ program = "unbuilt" /\ stack = <<>> /\ calls = <<>>
        BY DEF Init, GenInit
    <2>2. project \in Seq(Seq(Runnable)) /\ Len(project) \in Nat
        BY <2>1, ForwardsAssumption
    <2>3. GenTypes
        BY <2>1, <2>2 DEF GenTypes
    <2>4. RunTypes
        BY <2>1 DEF RunTypes, Programs
    <2>5. FramesInv
        BY <2>1, RuntimeAssumption DEF FramesInv
    <2> QED
        BY <2>3, <2>4, <2>5 DEF IInv
<1>2. IInv /\ [Next]_vars => IInv'
    <2> SUFFICES ASSUME IInv, [Next]_vars PROVE IInv'
        OBVIOUS
    <2>1. CASE Generate /\ UNCHANGED runVars
        BY <2>1, GenerateKeeps
    <2>2. CASE Run
        BY <2>2, WmainKeeps, PushKeeps, FindKeeps, CallKeeps, PlainKeeps, ExtraKeeps,
           FreeKeeps, ReturnKeeps DEF Run
    <2>3. CASE UNCHANGED vars
        BY <2>3 DEF vars, genVars, runVars, IInv, GenTypes, RunTypes, FramesInv, Top
    <2> QED
        BY <2>1, <2>2, <2>3 DEF Next, Ended
<1> QED
    BY <1>1, <1>2, PTL DEF Spec

\* The variables of the generator and of the runtime have their types.
THEOREM TypeCorrect == Spec => []TypeOK
<1>1. IInv => TypeOK
    <2> SUFFICES ASSUME IInv PROVE TypeOK
        OBVIOUS
    <2>1. /\ stack \in Seq(FrameData) /\ calls \in Seq(CallData)
          /\ \A i \in 1..Len(calls) : calls[i].cmd \in 0..Len(table)
        BY DEF IInv, RunTypes
    <2>2. \A i \in DOMAIN stack : stack[i].numParams \in Nat \cup {-1}
        <3>1. \A i \in DOMAIN stack : stack[i] \in FrameData
            BY <2>1
        <3> QED
            BY <3>1 DEF FrameData
    <2>3. \A i \in DOMAIN calls :
              /\ calls[i].cmd \in 0..Len(table) /\ calls[i].at \in Steps
              /\ calls[i].args \in Seq(Tokens) /\ calls[i].held \in BOOLEAN
        <3>1. \A i \in DOMAIN calls : calls[i] \in CallData /\ i \in 1..Len(calls)
            BY <2>1
        <3> QED
            BY <2>1, <3>1 DEF CallData
    <2> QED
        BY <2>2, <2>3 DEF IInv, GenTypes, RunTypes, Programs, TypeOK
<1> QED
    BY <1>1, FramesInductive, PTL

\* Every line that is being processed has its own frame of
\* G_ParserArgsStack: PushCurrentArgsForExtraArgs and its pop stay in step
\* with the calls of ParserProcessLine, the argv of a frame is not freed by
\* the command that got it, and the array does not overflow.
THEOREM FramesAreKept == Spec => []CallsKeepTheirFrames
<1>1. IInv => CallsKeepTheirFrames
    <2> SUFFICES ASSUME IInv PROVE CallsKeepTheirFrames
        OBVIOUS
    <2>1. DOMAIN stack = 1..Len(stack) /\ Len(stack) \in Nat /\ Len(calls) \in Nat
        BY DEF IInv, RunTypes
    <2>2. \A i \in 1..Len(stack) : i <= Len(calls) /\ stack[i].args = calls[i].args
        BY DEF IInv, FramesInv
    <2>3. \A i \in 1..Len(stack) :
              i > 1 => calls[i - 1].held /\ calls[i - 1].extra = stack[i].args
        <3> SUFFICES ASSUME NEW i \in 1..Len(stack), i > 1
                     PROVE  calls[i - 1].held /\ calls[i - 1].extra = stack[i].args
            OBVIOUS
        <3>1. i - 1 \in 1..Len(calls) - 1 /\ (i - 1) + 1 = i
            BY <2>1, <2>2
        <3> QED
            BY <2>2, <3>1 DEF IInv, FramesInv
    <2> QED
        BY <2>1, <2>2, <2>3 DEF IInv, FramesInv, CallsKeepTheirFrames
<1> QED
    BY <1>1, FramesInductive, PTL

-----------------------------------------------------------------------------
(***************************************************************************)
(* A command that runs has been found by its own line, which its entry of  *)
(* the table accepted; and the line a command runs is what its parameters  *)
(* left of its own.                                                        *)
(***************************************************************************)
TableInv ==
    \A i \in 1..Len(table) :
        table[i] = ParserFunc(found[i]) /\ Supported(found[i]) /\ found[i] \in Runnable

\* The line that the command of a call runs.
Remainder(call) ==
    <<Forwards[table[call.cmd].name]>>
        \o SubSeq(call.args, 2 + table[call.cmd].numParams, Len(call.args))

\* What a call has established, as the i-th.
Established(call, i) ==
    /\ call.at \in {"params", "body", "free"} /\ table[call.cmd].hideFromParser => i > 1
    /\ call.at \in {"body", "free"} => ProcessParameters(table[call.cmd], call.args)

CallsInv ==
    \A i \in 1..Len(calls) :
        /\ Established(calls[i], i)
        /\ calls[i].at = "body" => stack[i].numParams = table[calls[i].cmd].numParams
        /\ i > 1 => Len(calls[i].args) > 1 /\ calls[i].args = Remainder(calls[i - 1])

\* The calls below the last one wait, and go on as they were.
LEMMA TopEstablishes ==
    ASSUME IInv, CallsInv, program = "running", UNCHANGED genVars,
           NEW c \in CallData, c.args = Top.args, calls' = SetTop(c),
           Established(c, Len(calls)),
           c.at = "body" => stack'[Len(calls)].numParams = table[c.cmd].numParams
    PROVE  CallsInv'
<1>1. PICK n \in Nat \ {0} : n = Len(calls)
    BY TopIsACall
<1>2. calls \in Seq(CallData) /\ calls # <<>> /\ Top = calls[n]
    BY <1>1, TopIsACall DEF IInv, RunTypes, FramesInv
<1>3. Len(calls') = n /\ \A i \in 1..n : calls'[i] = IF i = n THEN c ELSE calls[i]
    BY <1>1, <1>2, LastReplaced DEF SetTop
<1>4. table' = table
    BY DEF genVars
<1>5. ASSUME NEW i \in 1..n
      PROVE  /\ Established(calls'[i], i)
             /\ calls'[i].at = "body" => stack'[i].numParams = table[calls'[i].cmd].numParams
    <2>1. CASE i = n
        BY <1>1, <1>3, <2>1
    <2>2. CASE i # n
        <3>1. calls'[i] = calls[i] /\ i \in 1..Len(calls) - 1
            BY <1>1, <1>3, <2>2
        <3>2. calls[i].at = "free"
            BY <3>1 DEF IInv, FramesInv
        <3> QED
            BY <1>1, <3>1, <3>2 DEF CallsInv
    <2> QED
        BY <2>1, <2>2
<1>6. ASSUME NEW i \in 1..n, i > 1
      PROVE  /\ Len(calls'[i].args) > 1
             /\ calls'[i].args = Remainder(calls'[i - 1])
    <2>1. i - 1 \in 1..n /\ i - 1 # n
        BY <1>6
    <2>2. calls'[i - 1] = calls[i - 1] /\ calls'[i].args = calls[i].args
        BY <1>2, <1>3, <2>1
    <2> QED
        BY <1>1, <1>6, <2>2 DEF CallsInv
<1>7. \A i \in 1..n : Established(calls[i], i)'
    BY <1>4, <1>5 DEF Established
<1>8. \A i \in 1..n : i > 1 => Len(calls'[i].args) > 1 /\ calls'[i].args = Remainder(calls[i - 1])'
    BY <1>4, <1>6 DEF Remainder
<1> QED
    BY <1>3, <1>4, <1>5, <1>7, <1>8 DEF CallsInv

LEMMA PushEstablishes == ASSUME IInv, CallsInv, PushCurrentArgs PROVE CallsInv'
<1>1. program = "running" /\ UNCHANGED genVars
    BY DEF PushCurrentArgs, At
<1>2. Top \in CallData
    BY <1>1, TopIsACall
<1>3. CASE UNCHANGED <<stack, calls>>
    BY <1>1, <1>3 DEF CallsInv, Established, Remainder, genVars
<1>4. CASE GoTo("find")
    <2> DEFINE c == [Top EXCEPT !.at = "find"]
    <2>1. c \in CallData /\ c.args = Top.args /\ c.at = "find"
        BY <1>2 DEF CallData, Steps
    <2>2. calls' = SetTop(c)
        BY <1>4 DEF GoTo
    <2> HIDE DEF c
    <2>3. Established(c, Len(calls))
        BY <2>1 DEF Established
    <2> QED
        BY <1>1, <2>1, <2>2, <2>3, TopEstablishes
<1> QED
    BY <1>3, <1>4 DEF PushCurrentArgs

LEMMA FindEstablishes == ASSUME IInv, CallsInv, FindCommand PROVE CallsInv'
<1>1. program = "running" /\ Top.at = "find" /\ UNCHANGED <<genVars, program, stack>>
    BY DEF FindCommand, At
<1>2. Top \in CallData /\ Len(table) \in Nat
    BY <1>1, TopIsACall
<1>3. Len(stack) = Len(calls) /\ table \in Seq(Entry)
    BY <1>1, FramesOfCalls DEF IInv, GenTypes
<1>4. CASE GoTo("pop")
    <2> DEFINE c == [Top EXCEPT !.at = "pop"]
    <2>1. c \in CallData /\ c.args = Top.args /\ c.at = "pop"
        BY <1>2 DEF CallData, Steps
    <2>2. calls' = SetTop(c)
        BY <1>4 DEF GoTo
    <2> HIDE DEF c
    <2>3. Established(c, Len(calls))
        BY <2>1 DEF Established
    <2> QED
        BY <1>1, <2>1, <2>2, <2>3, TopEstablishes
<1>5. ASSUME NEW cmd \in 1..Len(table), HasName(cmd, Top.args[1], Len(stack) > 1),
             calls' = SetTop([Top EXCEPT !.cmd = cmd, !.at = "params"])
      PROVE  CallsInv'
    <2> DEFINE c == [Top EXCEPT !.cmd = cmd, !.at = "params"]
    <2>1. c \in CallData /\ c.args = Top.args /\ c.cmd = cmd /\ c.at = "params"
        <3>1. cmd \in Nat
            BY <1>2
        <3> QED
            BY <1>2, <3>1 DEF CallData, Steps
    <2>2. calls' = SetTop(c)
        BY <1>5
    <2> HIDE DEF c
    <2>3. Established(c, Len(calls))
        BY <1>3, <1>5, <2>1 DEF Established, HasName
    <2> QED
        BY <1>1, <2>1, <2>2, <2>3, TopEstablishes
<1>6. DOMAIN table = 1..Len(table)
    BY <1>3
<1> QED
    BY <1>4, <1>5, <1>6 DEF FindCommand, ParserFindCommand

LEMMA CallEstablishes == ASSUME IInv, CallsInv, CallCommand PROVE CallsInv'
<1>1. program = "running" /\ Top.at = "params" /\ UNCHANGED genVars
    BY DEF CallCommand, At
<1>2. /\ Top \in CallData /\ Top = calls[Len(calls)] /\ Len(calls) \in 1..Len(calls)
      /\ Command = table[Top.cmd]
    BY <1>1, TopIsACall DEF Command
<1>3. Established(Top, Len(calls))
    BY <1>2 DEF CallsInv
<1>4. stack'[Len(calls)].numParams = Command.numParams
    <2>1. stack \in Seq(FrameData) /\ Len(stack) = Len(calls) /\ DOMAIN stack = 1..Len(stack)
        BY <1>1, FramesOfCalls
    <2>2. stack[Len(stack)] \in FrameData
        BY <1>2, <2>1
    <2>3. stack' = [stack EXCEPT ![Len(stack)].numParams = Command.numParams]
        BY DEF CallCommand
    <2> QED
        BY <1>2, <2>1, <2>2, <2>3 DEF FrameData
<1>5. ASSUME NEW at \in {"pop", "body"}, GoTo(at),
             at = "body" => ProcessParameters(Command, Top.args)
      PROVE  CallsInv'
    <2> DEFINE c == [Top EXCEPT !.at = at]
    <2>1. c \in CallData /\ c.args = Top.args /\ c.cmd = Top.cmd /\ c.at = at
        BY <1>2 DEF CallData, Steps
    <2>2. calls' = SetTop(c)
        BY <1>5 DEF GoTo
    <2> HIDE DEF c
    <2>3. Established(c, Len(calls))
        BY <1>1, <1>2, <1>3, <1>5, <2>1 DEF Established
    <2> QED
        BY <1>1, <1>2, <1>4, <2>1, <2>2, <2>3, TopEstablishes
<1> QED
    BY <1>5 DEF CallCommand

\* A call that goes on to its end, or to the free of its command's argv.
LEMMA OthersEstablish ==
    ASSUME IInv, CallsInv, PlainCommand \/ FreeExtraArgs
    PROVE  CallsInv'
<1>1. program = "running" /\ UNCHANGED <<genVars, program, stack>>
    BY DEF PlainCommand, FreeExtraArgs, At
<1>2. Top \in CallData
    BY <1>1, TopIsACall
<1>3. PICK held \in BOOLEAN : calls' = SetTop([Top EXCEPT !.held = held, !.at = "pop"])
    <2>1. CASE FreeExtraArgs
        BY <2>1 DEF FreeExtraArgs
    <2>2. CASE PlainCommand
        <3>1. Top.held \in BOOLEAN
            BY <1>2 DEF CallData
        <3>2. [Top EXCEPT !.held = Top.held, !.at = "pop"] = [Top EXCEPT !.at = "pop"]
            BY <1>2 DEF CallData
        <3> QED
            BY <2>2, <3>1, <3>2 DEF PlainCommand, GoTo
    <2> QED
        BY <2>1, <2>2
<1> DEFINE c == [Top EXCEPT !.held = held, !.at = "pop"]
<1>4. c \in CallData /\ c.args = Top.args /\ c.at = "pop"
    BY <1>2 DEF CallData, Steps
<1>5. calls' = SetTop(c)
    BY <1>3
<1> HIDE DEF c
<1>6. Established(c, Len(calls))
    BY <1>4 DEF Established
<1> QED
    BY <1>1, <1>4, <1>5, <1>6, TopEstablishes

LEMMA ExtraEstablishes == ASSUME IInv, CallsInv, GetExtraArgs PROVE CallsInv'
<1>1. /\ program = "running" /\ Top.at = "body" /\ Command.hasExtraParams
      /\ UNCHANGED <<genVars, program, stack>>
    BY DEF GetExtraArgs, At
<1> DEFINE extra == ExtraArgs(Forwards[Command.name])
           c == [Top EXCEPT !.extra = extra, !.held = extra # <<>>, !.at = "free"]
<1>2. extra \in Seq(Tokens)
    BY <1>1, ExtraIsALine
<1>3. IF Len(extra) <= 1 THEN calls' = SetTop(c) ELSE calls' = Append(SetTop(c), Call(extra))
    BY Zenon DEF GetExtraArgs
<1>4. PICK n \in Nat \ {0} : n = Len(calls)
    BY <1>1, TopIsACall
<1>5. /\ calls \in Seq(CallData) /\ calls # <<>> /\ Top \in CallData /\ Top = calls[n]
      /\ Command = table[Top.cmd] /\ n \in 1..Len(calls)
    BY <1>1, <1>4, TopIsACall DEF IInv, RunTypes, FramesInv, Command
<1>6. Established(Top, n) /\ stack[n].numParams = Command.numParams /\ stack[n].args = Top.args
    BY <1>1, <1>4, <1>5, FramesOfCalls DEF CallsInv
<1>7. Len(extra) > 1 => extra = Remainder(Top)
    <2>1. Len(stack) = n
        BY <1>1, <1>4, FramesOfCalls
    <2>2. extra = <<>> \/ extra = Remainder(Top)
        BY <1>5, <1>6, <2>1, Zenon DEF ExtraArgs, Remainder
    <2>3. Len(<<>>) = 0
        OBVIOUS
    <2> HIDE DEF extra
    <2> QED
        BY <2>2, <2>3
<1> HIDE DEF extra
<1>8. /\ c \in CallData /\ c.args = Top.args /\ c.cmd = Top.cmd /\ c.at = "free"
    <2>1. (extra # <<>>) \in BOOLEAN
        OBVIOUS
    <2> QED
        BY <1>2, <1>5, <2>1 DEF CallData, Steps
<1> HIDE DEF c
<1>9. Established(c, n)
    BY <1>1, <1>6, <1>8 DEF Established
<1>10. CASE Len(extra) <= 1
    BY <1>1, <1>3, <1>4, <1>8, <1>9, <1>10, TopEstablishes
<1>11. CASE Len(extra) > 1
    <2>1. /\ SetTop(c) \in Seq(CallData) /\ Len(SetTop(c)) = n
          /\ \A i \in 1..n : SetTop(c)[i] = IF i = n THEN c ELSE calls[i]
        BY <1>4, <1>5, <1>8, LastReplaced DEF SetTop
    <2>2. /\ Call(extra) \in CallData /\ Call(extra).args = extra /\ Call(extra).at = "push"
        BY <1>2 DEF Call, CallData, Steps
    <2>3. calls' = Append(SetTop(c), Call(extra))
        BY <1>2, <1>3, <1>11
    <2>4. /\ Len(calls') = n + 1
          /\ calls'[n + 1] = Call(extra)
          /\ \A i \in 1..n : calls'[i] = IF i = n THEN c ELSE calls[i]
        BY <2>1, <2>2, <2>3
    <2>5. Established(Call(extra), n + 1)
        BY <2>2 DEF Established
    <2>6. Remainder(c) = Remainder(Top)
        BY <1>8 DEF Remainder
    <2>7. table' = table
        BY <1>1 DEF genVars
    <2>8. ASSUME NEW i \in 1..n + 1
          PROVE  /\ Established(calls'[i], i)
                 /\ calls'[i].at # "body"
                 /\ i > 1 => /\ Len(calls'[i].args) > 1
                             /\ calls'[i].args = Remainder(calls'[i - 1])
        <3>1. CASE i = n + 1
            <4>1. i - 1 = n /\ n \in 1..n
                BY <3>1
            <4> QED
                BY <1>7, <1>11, <2>2, <2>4, <2>5, <2>6, <3>1, <4>1
        <3>2. CASE i # n + 1
            <4>1. i \in 1..n /\ (i > 1 => i - 1 \in 1..n /\ i - 1 # n)
                BY <3>2
            <4>2. calls'[i].args = calls[i].args
                BY <1>5, <1>8, <2>4, <4>1
            <4>3. i > 1 => calls'[i - 1] = calls[i - 1]
                BY <2>4, <4>1
            <4>4. Established(calls'[i], i) /\ calls'[i].at # "body"
                <5>1. CASE i = n
                    BY <1>8, <1>9, <2>4, <4>1, <5>1
                <5>2. CASE i # n
                    <6>1. calls'[i] = calls[i] /\ i \in 1..Len(calls) - 1
                        BY <1>4, <2>4, <4>1, <5>2
                    <6>2. calls[i].at = "free"
                        BY <6>1 DEF IInv, FramesInv
                    <6> QED
                        BY <1>4, <4>1, <6>1, <6>2 DEF CallsInv
                <5> QED
                    BY <5>1, <5>2
            <4> QED
                BY <1>4, <4>1, <4>2, <4>3, <4>4 DEF CallsInv
        <3> QED
            BY <3>1, <3>2
    <2>9. \A i \in 1..n + 1 : Established(calls[i], i)'
        BY <2>7, <2>8 DEF Established
    <2>10. \A i \in 1..n + 1 :
               i > 1 => Len(calls'[i].args) > 1 /\ calls'[i].args = Remainder(calls[i - 1])'
        BY <2>7, <2>8 DEF Remainder
    <2> QED
        BY <2>4, <2>8, <2>9, <2>10 DEF CallsInv
<1> QED
    BY <1>2, <1>10, <1>11

LEMMA ReturnEstablishes == ASSUME IInv, CallsInv, Return PROVE CallsInv'
<1>1. program = "running" /\ UNCHANGED genVars
    BY DEF Return, At
<1>2. PICK n \in Nat \ {0} : n = Len(calls)
    BY <1>1, TopIsACall
<1>3. calls \in Seq(CallData) /\ calls # <<>>
    BY <1>1 DEF IInv, RunTypes, FramesInv
<1>4. Len(calls') = n - 1 /\ \A i \in 1..n - 1 : calls'[i] = calls[i]
    BY <1>2, <1>3, LastDropped DEF Return
<1>5. \A i \in 1..n - 1 : i \in 1..n /\ (i > 1 => i - 1 \in 1..n - 1)
    BY <1>2
<1>6. \A i \in 1..n - 1 : calls[i].at = "free"
    BY <1>2 DEF IInv, FramesInv
<1>7. table' = table
    BY <1>1 DEF genVars
<1>8. \A i \in 1..n - 1 : Established(calls[i], i)'
    <2>1. \A i \in 1..n - 1 : Established(calls[i], i)
        BY <1>2, <1>5 DEF CallsInv
    <2> QED
        BY <1>4, <1>7, <2>1 DEF Established
<1>9. \A i \in 1..n - 1 :
          i > 1 => Len(calls'[i].args) > 1 /\ calls'[i].args = Remainder(calls[i - 1])'
    <2>1. \A i \in 1..n - 1 :
              i > 1 => Len(calls[i].args) > 1 /\ calls[i].args = Remainder(calls[i - 1])
        BY <1>2, <1>5 DEF CallsInv
    <2> QED
        BY <1>4, <1>5, <1>7, <2>1 DEF Remainder
<1> QED
    BY <1>4, <1>6, <1>8, <1>9 DEF CallsInv

LEMMA WmainEstablishes == ASSUME IInv, ParserWmain PROVE CallsInv'
<1>1. PICK line \in Lines : calls' = <<Call(line)>>
    BY DEF ParserWmain
<1>2. Len(calls') = 1 /\ calls'[1] = Call(line) /\ Call(line).at = "push"
    BY <1>1 DEF Call
<1>3. \A i \in 1..1 : i = 1 /\ ~(i > 1)
    OBVIOUS
<1> QED
    BY <1>2, <1>3 DEF CallsInv, Established

-----------------------------------------------------------------------------
(***************************************************************************)
(* What the table says of a declaration.                                   *)
(***************************************************************************)
LEMMA TableInvKept == ASSUME IInv, TableInv, [Next]_vars PROVE TableInv'
<1>1. CASE UNCHANGED <<found, table>>
    BY <1>1 DEF TableInv
<1>2. CASE FindParserFuncs
    <2>1. table' = <<>>
        BY <1>2 DEF FindParserFuncs, IInv, GenTypes
    <2>2. \A i \in 1..Len(table') : FALSE
        BY <2>1
    <2> QED
        BY <2>2 DEF TableInv
<1>3. CASE WriteTable
    <2>1. found \in Seq(Runnable) /\ found' = found /\ table' = MakeParserFileData(found)
        BY <1>3 DEF WriteTable, IInv, GenTypes
    <2>2. CASE \A i \in DOMAIN found : Supported(found[i])
        <3>1. table' = [i \in DOMAIN found |-> ParserFunc(found[i])]
            BY <2>1, <2>2 DEF MakeParserFileData
        <3>2. Len(table') = Len(found) /\ DOMAIN found = 1..Len(found)
            BY <2>1, <3>1
        <3> QED
            BY <2>1, <2>2, <3>1, <3>2 DEF TableInv
    <2>3. CASE ~\A i \in DOMAIN found : Supported(found[i])
        <3>1. table' = <<>>
            BY <2>1, <2>3 DEF MakeParserFileData
        <3>2. \A i \in 1..Len(table') : FALSE
            BY <3>1
        <3> QED
            BY <3>2 DEF TableInv
    <2> QED
        BY <2>2, <2>3
<1>4. CASE Run \/ Ended \/ UNCHANGED vars
    <2>1. UNCHANGED genVars
        BY <1>4 DEF Run, ParserWmain, PushCurrentArgs, FindCommand, CallCommand, PlainCommand,
                    GetExtraArgs, FreeExtraArgs, Return, Ended, vars
    <2> QED
        BY <1>1, <2>1 DEF genVars
<1> QED
    BY <1>2, <1>3, <1>4 DEF Next, Generate

LEMMA VarTypeIndex ==
    /\ \A type : GetNumOfVars(type) = 8 => type = "char*"
    /\ GetNumOfVars("CMD_LINE") = 9
    /\ \A type : GetNumOfVars(type) = 9 => type = "CMD_LINE"
<1>1. /\ DOMAIN VarTypes = 1..10 /\ VarTypes[9] = "char*" /\ VarTypes[10] = "CMD_LINE"
      /\ \A i \in 1..9 : VarTypes[i] # "CMD_LINE"
    BY DEF VarTypes
<1>2. ASSUME NEW type, \E i \in DOMAIN VarTypes : VarTypes[i] = type
      PROVE  \E i \in 1..10 : VarTypes[i] = type /\ GetNumOfVars(type) = i - 1
    <2>1. /\ (CHOOSE i \in DOMAIN VarTypes : VarTypes[i] = type) \in DOMAIN VarTypes
          /\ VarTypes[CHOOSE i \in DOMAIN VarTypes : VarTypes[i] = type] = type
        BY <1>2, Zenon
    <2> QED
        BY <1>1, <1>2, <2>1 DEF GetNumOfVars
<1>3. ASSUME NEW type, ~\E i \in DOMAIN VarTypes : VarTypes[i] = type
      PROVE  GetNumOfVars(type) = 0
    BY <1>3 DEF GetNumOfVars
<1>4. ASSUME NEW type, GetNumOfVars(type) = 8 PROVE type = "char*"
    <2>1. PICK i \in 1..10 : VarTypes[i] = type /\ GetNumOfVars(type) = i - 1
        BY <1>2, <1>3, <1>4
    <2>2. i = 9
        BY <1>4, <2>1
    <2> QED
        BY <1>1, <2>1, <2>2
<1>5. ASSUME NEW type, GetNumOfVars(type) = 9 PROVE type = "CMD_LINE"
    <2>1. PICK i \in 1..10 : VarTypes[i] = type /\ GetNumOfVars(type) = i - 1
        BY <1>2, <1>3, <1>5
    <2>2. i = 10
        BY <1>5, <2>1
    <2> QED
        BY <1>1, <2>1, <2>2
<1>6. GetNumOfVars("CMD_LINE") = 9
    <2>1. PICK i \in 1..10 : VarTypes[i] = "CMD_LINE" /\ GetNumOfVars("CMD_LINE") = i - 1
        BY <1>1, <1>2
    <2>2. i = 10
        BY <1>1, <2>1
    <2> QED
        BY <2>1, <2>2
<1> QED
    BY <1>4, <1>5, <1>6

\* The entry of a declaration with parameters has their number and kinds.
LEMMA EntryOfParams ==
    ASSUME NEW f \in Runnable, Supported(f), f.params # <<>>
    PROVE  /\ Len(f.params) \in Nat \ {0} /\ DOMAIN f.params = 1..Len(f.params)
           /\ ParserFunc(f).numParams = Len(f.params)
           /\ \A i \in 1..Len(f.params) :
                  /\ ParserFunc(f).kind[i] \in Nat \ {0}
                  /\ ParserFunc(f).kind[i] = 9 => f.params[i] = "char*"
                  /\ ParserFunc(f).kind[i] = 10 => f.params = <<"CMD_LINE">>
<1>1. f.params \in Seq(STRING)
    BY DEF Runnable, FunctionData
<1>2. Len(f.params) \in Nat \ {0} /\ DOMAIN f.params = 1..Len(f.params)
    BY <1>1
<1>3. ParserFunc(f).kind = [i \in DOMAIN f.params |-> GetNumOfVars(f.params[i]) + 1]
    BY DEF ParserFunc, ParamKinds
<1>4. ParserFunc(f).numParams = Len(f.params)
    BY <1>2, <1>3 DEF ParserFunc
<1>5. ASSUME NEW i \in 1..Len(f.params)
      PROVE  /\ ParserFunc(f).kind[i] \in Nat \ {0}
             /\ ParserFunc(f).kind[i] = 9 => f.params[i] = "char*"
             /\ ParserFunc(f).kind[i] = 10 => f.params = <<"CMD_LINE">>
    <2>1. GetNumOfVars(f.params[i]) \in Nat /\ ParserFunc(f).kind[i] = GetNumOfVars(f.params[i]) + 1
        BY <1>2, <1>3, KindIsNat
    <2>2. f.params[i] = "CMD_LINE" => f.params = <<"CMD_LINE">>
        <3>1. f.params[i] = "CMD_LINE" => Len(f.params) = 1
            BY <1>2 DEF Supported
        <3> QED
            BY <1>1, <3>1
    <2> QED
        BY <2>1, <2>2, VarTypeIndex
<1> QED
    BY <1>2, <1>4, <1>5

\* The entry of a declaration without parameters takes no argument.
LEMMA EntryOfNone ==
    ASSUME NEW f, f.params = <<>>
    PROVE  ParserFunc(f).numParams = 1 /\ ParserFunc(f).kind[1] = 0
    BY DEF ParserFunc, ParamKinds

-----------------------------------------------------------------------------
(***************************************************************************)
(* A call that runs its function was accepted for it.                      *)
(***************************************************************************)
LEMMA AcceptedMatches ==
    ASSUME NEW f \in Runnable, Supported(f), NEW args \in Seq(Tokens),
           ProcessParameters(ParserFunc(f), args), f.params # <<"CMD_LINE">>
    PROVE  TypesMatch(f, args)
<1> DEFINE entry == ParserFunc(f)
<1>1. Len(args) \in Nat /\ entry.hasExtraParams = IsExtra(f)
    BY DEF ParserFunc
<1>2. CASE f.params = <<>>
    <2>1. entry.kind[1] = 0
        BY <1>2, EntryOfNone
    <2>2. Len(args) - 1 = 0
        BY <2>1 DEF ProcessParameters
    <2>3. Len(f.params) = 0 /\ \A i \in DOMAIN f.params : FALSE
        BY <1>2
    <2> QED
        <3>1. Len(args) - 1 >= Len(f.params) /\ ~(Len(args) - 1 > Len(f.params))
            <4>1. \A x, y : x = 0 /\ y = 0 => x >= y /\ ~(x > y)
                OBVIOUS
            <4> QED
                BY <2>2, <2>3, <4>1
        <3> QED
            BY <2>3, <3>1 DEF TypesMatch
<1>3. CASE f.params # <<>>
    <2>1. /\ Len(f.params) \in Nat \ {0} /\ DOMAIN f.params = 1..Len(f.params)
          /\ entry.numParams = Len(f.params)
          /\ \A i \in 1..Len(f.params) :
                 /\ entry.kind[i] \in Nat \ {0}
                 /\ entry.kind[i] = 9 => f.params[i] = "char*"
                 /\ entry.kind[i] = 10 => f.params = <<"CMD_LINE">>
        BY <1>3, EntryOfParams
    <2> HIDE DEF entry
    <2>2. entry.kind[1] # 10 /\ entry.kind[1] # 0
        BY <2>1
    <2>3. /\ Len(args) - 1 >= entry.numParams
          /\ \A i \in 1..entry.numParams : Fits(entry.kind[i], args[i + 1])
          /\ Len(args) - 1 > entry.numParams => entry.hasExtraParams
        BY <2>2 DEF ProcessParameters, entry
    <2>4. \A i \in DOMAIN f.params : f.params[i] = "char*" \/ args[i + 1] \in Numbers
        BY <2>1, <2>3 DEF Fits
    <2> QED
        BY <1>1, <2>1, <2>3, <2>4 DEF TypesMatch
<1> QED
    BY <1>2, <1>3

\* A command without parameters leaves nothing of its line.
LEMMA NothingRemains ==
    ASSUME NEW f, f.params = <<>>, NEW args \in Seq(Tokens), NEW token,
           ProcessParameters(ParserFunc(f), args)
    PROVE  Len(<<token>> \o SubSeq(args, 2 + ParserFunc(f).numParams, Len(args))) = 1
<1>1. ParserFunc(f).numParams = 1 /\ ParserFunc(f).kind[1] = 0
    BY EntryOfNone
<1>2. Len(args) - 1 = 0 /\ Len(args) \in Nat
    BY <1>1 DEF ProcessParameters
<1>3. Len(args) = 1 /\ 2 + ParserFunc(f).numParams = 3
    BY <1>1, <1>2
<1>4. \A i \in 3..1 : args[i] \in Tokens
    OBVIOUS
<1>5. SubSeq(args, 3, 1) \in Seq(Tokens) /\ Len(SubSeq(args, 3, 1)) = 0
    BY <1>4, SubSeqProperties
<1> DEFINE rest == SubSeq(args, 3, 1)
<1>6. Len(<<token>> \o rest) = 1
    <2>1. rest \in Seq(Tokens) /\ Len(rest) = 0
        BY <1>5
    <2> HIDE DEF rest
    <2> QED
        BY <2>1
<1> QED
    BY <1>3, <1>6

(***************************************************************************)
(* Every function that runs was called as its declaration in the source    *)
(* says, through the table that CliTableGen wrote of it, for every         *)
(* project, line, and depth of commands that run commands.                 *)
(***************************************************************************)
THEOREM CallsAreDeclared == Spec => []CalledAsDeclared
<1>1. Init => TableInv /\ CallsInv
    <2> SUFFICES ASSUME Init PROVE TableInv /\ CallsInv
        OBVIOUS
    <2>1. (\A i \in 1..Len(table) : FALSE) /\ (\A i \in 1..Len(calls) : FALSE)
        BY DEF Init, GenInit
    <2> QED
        BY <2>1 DEF TableInv, CallsInv
<1>2. IInv /\ TableInv /\ CallsInv /\ [Next]_vars => (TableInv /\ CallsInv)'
    <2> SUFFICES ASSUME IInv, TableInv, CallsInv, [Next]_vars PROVE CallsInv'
        BY TableInvKept
    <2>1. CASE Generate /\ UNCHANGED runVars
        <3>1. calls = <<>> /\ calls' = <<>>
            BY <2>1 DEF Generate, FindParserFuncs, WriteTable, runVars, IInv, GenTypes, FramesInv
        <3>2. \A i \in 1..Len(calls') : FALSE
            BY <3>1
        <3> QED
            BY <3>2 DEF CallsInv
    <2>2. CASE Run
        BY <2>2, WmainEstablishes, PushEstablishes, FindEstablishes, CallEstablishes,
           OthersEstablish, ExtraEstablishes, ReturnEstablishes DEF Run
    <2>3. CASE Ended \/ UNCHANGED vars
        BY <2>3 DEF Ended, vars, genVars, runVars, CallsInv, Established, Remainder
    <2> QED
        BY <2>1, <2>2, <2>3 DEF Next
<1>3. IInv /\ TableInv /\ CallsInv => CalledAsDeclared
    <2> SUFFICES ASSUME IInv, TableInv, CallsInv,
                        NEW i \in 1..Len(calls), calls[i].at \in {"body", "free"}
                 PROVE  LET f == Declaration(calls[i])
                        IN  /\ f.params # <<"CMD_LINE">> => TypesMatch(f, calls[i].args)
                            /\ IsHidden(f) => i > 1
                            /\ i > 1 =>
                                   LET caller == Declaration(calls[i - 1])
                                       line == calls[i - 1].args
                                   IN  calls[i].args = <<Forwards[caller.name]>>
                                           \o SubSeq(line, 2 + Len(caller.params), Len(line))
        <3>1. DOMAIN calls = 1..Len(calls)
            BY DEF IInv, RunTypes
        <3> QED
            BY <3>1 DEF CalledAsDeclared
    <2>1. Len(calls) \in Nat /\ \A k \in 1..Len(calls) : calls[k] \in CallData
        BY DEF IInv, RunTypes
    <2>2. \A k \in 1..Len(calls) :
              calls[k].args \in Seq(Tokens) /\ calls[k].cmd \in 0..Len(table)
        BY <2>1 DEF CallData, IInv, RunTypes
    <2>3. ASSUME NEW k \in 1..Len(calls), calls[k].at \in {"body", "free"}
          PROVE  /\ Declaration(calls[k]) \in Runnable /\ Supported(Declaration(calls[k]))
                 /\ table[calls[k].cmd] = ParserFunc(Declaration(calls[k]))
                 /\ ProcessParameters(ParserFunc(Declaration(calls[k])), calls[k].args)
        <3>1. calls[k].cmd \in 1..Len(table)
            <4>1. calls[k].cmd # 0 /\ Len(table) \in Nat
                BY <2>3 DEF IInv, RunTypes, GenTypes
            <4> QED
                BY <2>2, <4>1
        <3> QED
            BY <2>3, <3>1 DEF TableInv, CallsInv, Established, Declaration
    <2> DEFINE f == Declaration(calls[i])
    <2>4. f.params # <<"CMD_LINE">> => TypesMatch(f, calls[i].args)
        BY <2>2, <2>3, AcceptedMatches
    <2>5. IsHidden(f) => i > 1
        <3>1. table[calls[i].cmd].hideFromParser = IsHidden(f)
            <4>1. ParserFunc(f).hideFromParser = IsHidden(f)
                BY DEF ParserFunc
            <4> QED
                BY <2>3, <4>1
        <3>2. Established(calls[i], i)
            BY DEF CallsInv
        <3> QED
            BY <3>1, <3>2 DEF Established
    <2>6. ASSUME i > 1
          PROVE  LET caller == Declaration(calls[i - 1])
                     line == calls[i - 1].args
                 IN  calls[i].args = <<Forwards[caller.name]>>
                         \o SubSeq(line, 2 + Len(caller.params), Len(line))
        <3> DEFINE caller == Declaration(calls[i - 1])
                   line == calls[i - 1].args
        <3>1. i - 1 \in 1..Len(calls) /\ i - 1 \in 1..Len(calls) - 1
            BY <2>1, <2>6
        <3>2. calls[i - 1].at = "free"
            BY <3>1 DEF IInv, FramesInv
        <3>3. /\ caller \in Runnable /\ Supported(caller) /\ line \in Seq(Tokens)
              /\ table[calls[i - 1].cmd] = ParserFunc(caller)
              /\ ProcessParameters(ParserFunc(caller), line)
            BY <2>2, <2>3, <3>1, <3>2
        <3>4. /\ Len(calls[i].args) > 1
              /\ calls[i].args = Remainder(calls[i - 1])
            BY <2>6 DEF CallsInv
        <3>5. ParserFunc(caller).name = caller.name
            BY DEF ParserFunc
        <3> HIDE DEF caller, line
        <3>6. calls[i].args = <<Forwards[caller.name]>>
                  \o SubSeq(line, 2 + ParserFunc(caller).numParams, Len(line))
            BY <3>3, <3>4, <3>5 DEF Remainder, line
        <3>7. caller.params # <<>>
            <4> SUFFICES ASSUME caller.params = <<>> PROVE FALSE
                OBVIOUS
            <4>1. Len(calls[i].args) = 1
                BY <3>3, <3>6, NothingRemains
            <4> QED
                BY <3>4, <4>1
        <3>8. ParserFunc(caller).numParams = Len(caller.params)
            BY <3>3, <3>7, EntryOfParams
        <3> QED
            BY <3>6, <3>8 DEF caller, line
    <2> QED
        BY <2>4, <2>5, <2>6
<1> QED
    BY <1>1, <1>2, <1>3, FramesInductive, PTL DEF Spec
=============================================================================
