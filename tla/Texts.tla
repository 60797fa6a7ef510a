------------------------------- MODULE Texts -------------------------------
(***************************************************************************)
(* The two places where doop-analyzer takes texts apart: the identity that *)
(* a policy puts in front of its message (report.go), and the placeholders *)
(* in the targets of a rule (process.go).  A text is a sequence of tokens; *)
(* "w" stands for any other character, and one JSON string for all keys    *)
(* and values of an object.                                                *)
(***************************************************************************)
EXTENDS Naturals, SequencesExt, FiniteSetsExt

Open == "open"          \* the characters { } " and those around words
Close == "close"
Quote == "quote"
Space == "space"
LineBreak == "break"
Blanks == {Space, LineBreak}
Before(t, i) == SubSeq(t, 1, i - 1)
After(t, i) == SubSeq(t, i + 1, Len(t))

Unindented(t) == SubSeq(t, Min({i \in DOMAIN t : t[i] \notin Blanks} \cup {Len(t) + 1}), Len(t))
Trimmed(t) == Reverse(Unindented(Reverse(Unindented(t))))

-----------------------------------------------------------------------------
(* objectIdentityRx: a group in braces, as short as possible, ">>", and the*)
(* rest; blanks around ">>" are left out, dots match no line break.        *)
OnOneLine(t) == LineBreak \notin ToSet(t)

Prefixed(t) ==
    /\ t # <<>> /\ Head(t) = ">>"
    /\ OnOneLine(Unindented(Tail(t)))

(* Where the first group may end.                                          *)
Ends(t) == {k \in 2 .. Len(t) :
                /\ t[1] = Open /\ t[k] = Close /\ OnOneLine(Before(t, k))
                /\ Prefixed(Unindented(After(t, k)))}

(* json.Unmarshal of { ... } into a map[string]string: one, or an error.   *)
Unmarshal(object) ==
    LET inner == Trimmed(Before(After(object, 1), Len(object) - 1))
        text == Before(After(inner, 1), Len(inner) - 1)
    IN  IF inner = <<>> THEN {<<>>}
        ELSE IF Len(inner) > 1 /\ Head(inner) = Quote /\ Last(inner) = Quote
                /\ Quote \notin ToSet(text)
        THEN {text} ELSE {}

NoObject == <<"none">>
Untouched(t) == [identity |-> NoObject, message |-> t]

(* Mutant: the expression is greedy.                                       *)
ExtractedGreedily(t) ==
    LET k == Max(Ends(t))
    IN  IF Ends(t) = {} \/ Unmarshal(Before(t, k + 1)) = {} THEN Untouched(t)
        ELSE [identity |-> CHOOSE x \in Unmarshal(Before(t, k + 1)) : TRUE,
              message |-> Unindented(Tail(Unindented(After(t, k))))]

(* What gatherReportForConstraint makes of a message.                      *)
Extracted(t) ==
    LET k == Min(Ends(t))
    IN  IF Ends(t) = {} \/ Unmarshal(Before(t, k + 1)) = {} THEN Untouched(t)
        ELSE [identity |-> CHOOSE x \in Unmarshal(Before(t, k + 1)) : TRUE,
              message |-> Unindented(Tail(Unindented(After(t, k))))]

-----------------------------------------------------------------------------
(* placeholderRx: \$[0-9][1-9]*                                            *)
Digits == {"0", "1", "2", "3", "4", "5", "6", "7", "8", "9"}
NumberOf == [d \in Digits |-> CHOOSE n \in 0 .. 9 : ToString(n) = d]
Value(digits) == FoldLeft(LAMBDA n, d : 10 * n + NumberOf[d], 0, digits)

IsPlaceholder(t, i) == t[i] = "$" /\ i < Len(t) /\ t[i + 1] \in Digits

(* Mutant: only one digit is read.                                         *)
EndOfPlaceholderSoon(t, i) == i + 1

EndOfPlaceholder(t, i) ==
    Min({j \in i + 1 .. Len(t) : j = Len(t) \/ t[j + 1] \notin Digits \ {"0"}})

(* match[n] is the n-th group and match[0] the whole match; a placeholder  *)
(* beyond the last group stays.                                            *)
Replacement(placeholder, match) ==
    LET n == Value(Tail(placeholder)) IN IF n \in DOMAIN match THEN match[n] ELSE placeholder

(* ReplaceAllStringFunc: from left to right, each character once.          *)
Expanded(t, match) ==
    LET From[i \in 1 .. Len(t) + 1] ==
            IF i > Len(t) THEN <<>>
            ELSE IF IsPlaceholder(t, i)
            THEN LET j == EndOfPlaceholder(t, i)
                 IN  Replacement(SubSeq(t, i, j), match) \o From[j + 1]
            ELSE <<t[i]>> \o From[i + 1]
    IN  From[1]
=============================================================================
