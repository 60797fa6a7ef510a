----------------------------- MODULE TextRules -----------------------------
(***************************************************************************)
(* What doop-analyzer/README.md says of the texts that Texts takes apart.  *)
(* None of it depends on the violations of a constraint, so that TLC looks *)
(* at it for one list of them.                                             *)
(***************************************************************************)
EXTENDS Grouping, Texts

CONSTANTS
    JsonObjects,    \* objects that a policy puts in front of its message
    Separators,     \* what it writes after them
    Messages,       \* and the messages themselves
    Decimal,        \* the digits of the numbers that placeholders have
    TextPieces,     \* what targets have in between
    Matches,        \* what the groups of a pattern may have matched
    MaxPieces       \* bound: placeholders and pieces of text in a target

(* An object that parses, with no separator in it.                         *)
IsJsonObject(o) ==
    /\ o \in Seq(STRING) /\ Len(o) > 1
    /\ o[1] = Open /\ o[Len(o)] = Close
    /\ OnOneLine(o) /\ ">>" \notin ToSet(o)
    /\ Unmarshal(o) # {}

IsSeparator(s) ==
    /\ s \in Seq(STRING)
    /\ \E i \in DOMAIN s : s[i] = ">>" /\ \A j \in DOMAIN s \ {i} : s[j] \in Blanks

IsMessage(m) == m \in Seq(STRING) /\ OnOneLine(Unindented(m))

(* Digits that a placeholder can have: $10 is read as $1 and a zero.       *)
AreDigitsOf(digits, n) ==
    /\ digits \in Seq(Digits) /\ digits # <<>>
    /\ \A i \in DOMAIN digits \ {1} : digits[i] # "0"
    /\ Value(digits) = n

(* A text without placeholders that does not continue one.                 *)
IsText(t) ==
    /\ t \in Seq(STRING) /\ t # <<>>
    /\ t[1] \notin Digits
    /\ \A i \in DOMAIN t : ~IsPlaceholder(t, i)

ASSUME TextsAssumption ==
    /\ \A object \in JsonObjects : IsJsonObject(object)
    /\ \A separator \in Separators : IsSeparator(separator)
    /\ \A message \in Messages : IsMessage(message)
    /\ \A n \in DOMAIN Decimal : AreDigitsOf(Decimal[n], n)
    /\ \A piece \in TextPieces : IsText(piece)
    /\ \A match \in Matches : \A n \in DOMAIN match : match[n] \in Seq(STRING)
    /\ MaxPieces \in Nat

-----------------------------------------------------------------------------
(* "If a JSON payload like this is found in the message and if it parses   *)
(* [...], it and the >> separator will be stripped from the message"       *)
(* (doop-analyzer/README.md:94, report.go:71-93), as long as the           *)
(* separator is not in the payload and the message has one line.           *)
IdentityIsExtracted ==
    violations = <<>> =>
        \A object \in JsonObjects, separator \in Separators, message \in Messages :
            Extracted(object \o separator \o message) =
                [identity |-> CHOOSE x \in Unmarshal(object) : TRUE,
                 message |-> Unindented(message)]

(* A target is made of placeholders and pieces of text in between.         *)
Placeholder(n) == <<"$">> \o Decimal[n]
Pieces == {Placeholder(n) : n \in DOMAIN Decimal} \cup TextPieces
UpTo(n, S) == UNION {[1 .. k -> S] : k \in 0 .. n}

(* A placeholder stays if there is no such group.                          *)
Replaced(piece, match) ==
    IF \E n \in DOMAIN Decimal \cap DOMAIN match : piece = Placeholder(n)
    THEN match[CHOOSE n \in DOMAIN Decimal : piece = Placeholder(n)] ELSE piece

(* "placeholders like `$1`, `$2` and so on are replaced by the respective  *)
(* capture groups" (doop-analyzer/README.md:191, process.go:66-74), however*)
(* many there are and whatever was captured, once each, and the rest of a  *)
(* target stays.  But $10, $20 and so on are read as $1, $2 and a zero.    *)
PlaceholdersAreReplaced ==
    violations = <<>> =>
        \A pieces \in UpTo(MaxPieces, Pieces), match \in Matches :
            Expanded(FlattenSeq(pieces), match) =
                FlattenSeq([i \in DOMAIN pieces |-> Replaced(pieces[i], match)])
=============================================================================
