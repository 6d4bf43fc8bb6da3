---------------------------- MODULE MultiString ----------------------------
(***************************************************************************)
(* IMultiStringUtils: the layout of a REG_MULTI_SZ buffer and the walk     *)
(* over it.  A buffer is the sequence of the null-terminated strings that  *)
(* lie in it one after another, zeros behind them.  A string is a name; its *)
(* length in WCHARs and what _wcsicmp makes of it are all that counts.     *)
(*                                                                         *)
(* The walk is a do-while: it reports the first string even if it is empty *)
(* and stops at the first empty string after that.  So the empty           *)
(* multi-string, two zeros, is walked as one empty string.                 *)
(***************************************************************************)
EXTENDS Integers, SequencesExt

CONSTANTS
    Strings,    \* the non-empty strings that are added and removed
    Length,     \* wcslen
    Folded,     \* the upper case form that _wcsicmp compares
    Empty       \* the empty string

ASSUME StringsAssumption ==
    /\ Length \in [Strings -> Nat \ {0}]
    /\ DOMAIN Folded = Strings
    /\ Empty \notin Strings

Same(s, t) == s # Empty /\ t # Empty /\ Folded[s] = Folded[t]

WcharsOf(s) == IF s = Empty THEN 1 ELSE Length[s] + 1

\* Where a string is put: at the start (After = NULL), at the end (After = -1)
\* or after the string it names.
Start == "start"
End == "end"
Places == {Start, End} \cup Strings

-----------------------------------------------------------------------------
\* The strings that ParseMultiStringInternal reports.
Parsed(strs) ==
    IF strs = <<>> THEN <<Empty>>
    ELSE LET ends == {i \in 2..Len(strs) : strs[i] = Empty}
         IN  IF ends = {} THEN strs ELSE SubSeq(strs, 1, Min(ends) - 1)

\* GetMultiStringSize: what the walk counts, and the last zero.
GetMultiStringSize(strs) ==
    1 + FoldLeft(LAMBDA n, s : n + WcharsOf(s), 0, Parsed(strs))

\* CheckMultiString: the walk fails before it has counted maxLen WCHARs.
CheckMultiString(strs, maxLen) == GetMultiStringSize(strs) <= maxLen

(***************************************************************************)
(* The copies are sets: empty when the function returns FALSE.             *)
(***************************************************************************)
\* CopyDeleteStringFromMultiString; the buffer is as large as the original.
CopyDelete(strs, del) ==
    LET kept == SelectSeq(Parsed(strs), LAMBDA s : ~Same(s, del))
    IN  IF /\ kept # Parsed(strs)
           /\ CheckMultiString(kept, GetMultiStringSize(strs))
        THEN {Parsed(kept)} ELSE {}

\* ... with DelString = NULL
CopyAll(strs) == {Parsed(strs)}

\* The first string that is the same as s, or 0.
IndexOf(strs, s) == SelectInSeq(strs, LAMBDA t : Same(t, s))

(***************************************************************************)
(* The second half of CopyAddStringToMultiString: add goes into copy.  At  *)
(* the end it is written over the last zero of what the walk has copied.   *)
(***************************************************************************)
AddTo(copy, add, after) ==
    LET target ==
            IF after = Start THEN {<<add>> \o copy}
            ELSE IF after = End THEN {Append(Parsed(copy), add)}
            ELSE LET i == IndexOf(copy, after)
                 IN  IF i = 0 THEN {} ELSE {InsertAt(copy, i + 1, add)}
        size == GetMultiStringSize(copy) + WcharsOf(add)
    IN  {Parsed(t) : t \in {u \in target : CheckMultiString(u, size)}}

\* "First get a copy, but be sure the string to add is not there."
CopyAdd(strs, add, after) ==
    LET copies == IF CopyDelete(strs, add) # {} THEN CopyDelete(strs, add) ELSE CopyAll(strs)
    IN  UNION {AddTo(copy, add, after) : copy \in copies}

(***************************************************************************)
(* When memory is short any allocation may fail.  If that of the first     *)
(* copy does, CopyAdd takes it for a string that is not there and goes on  *)
(* with a plain copy.                                                      *)
(***************************************************************************)
CopyAddShort(strs, add, after) ==
    UNION {AddTo(copy, add, after) : copy \in CopyAll(strs)}

-----------------------------------------------------------------------------
(***************************************************************************)
(* The reference: a multi-string as the list of its strings.               *)
(***************************************************************************)
\* "Properly formed": no empty string before the end.
Proper(strs) == Parsed(strs) = <<Empty>> \/ \A i \in DOMAIN strs : strs[i] # Empty

ListOf(strs) == SelectSeq(Parsed(strs), LAMBDA s : s # Empty)

Without(list, s) == SelectSeq(list, LAMBDA t : ~Same(t, s))

ListRemove(list, s) == IF Without(list, s) = list THEN {} ELSE {Without(list, s)}

ListAdd(list, s, after) ==
    LET rest == Without(list, s)
        i == IF after \in Strings THEN IndexOf(rest, after) ELSE 0
    IN  IF after = Start THEN {<<s>> \o rest}
        ELSE IF after = End THEN {Append(rest, s)}
        ELSE IF i = 0 THEN {} ELSE {SubSeq(rest, 1, i) \o <<s>> \o SubSeq(rest, i + 1, Len(rest))}
=============================================================================
