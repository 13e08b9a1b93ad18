------------------------------ MODULE SqlText ------------------------------
(***************************************************************************)
(* The scanner of utl_stmt.cpp: parseSQL finds the placeholders of a text  *)
(* and the kind of statement.  A text is a sequence of character classes:  *)
(* the characters the scanner looks at stand for themselves, "a" and "b"   *)
(* for letters and digits, "K" for the letters of SELECT, by which         *)
(* getSQLType knows a query, " " for a blank, "+" for all the rest.        *)
(* Offsets count from 1; NONE is the code's -1.                            *)
(***************************************************************************)
EXTENDS Integers, Sequences, FiniteSetsExt, SequencesExt

CONSTANT MaxName    \* 30 in the code: the longest placeholder, with its colon

ASSUME MaxNameAssumption == MaxName \in Nat \ {0}

Letters == {"a", "b", "K"}
LineEnds == {"\n", "\r"}
Blank == " "
DQuote == "\""      \* of a quoted identifier
Blanks == {Blank} \union LineEnds
NONE == -1

At(s, o) == IF o \in 1 .. Len(s) THEN s[o] ELSE "end"
Pair(s, o, c, d) == At(s, o) = c /\ At(s, o + 1) = d

-----------------------------------------------------------------------------
(* Skipping.  Each gives the offset behind what begins at o.               *)

(* skipString, skipIdent: the closing quote, if there is one.  A backslash *)
(* takes the next character with it.                                       *)
NoEscape == 1                                        \* mutant: \ is nothing special
Escape == 2

skipQuoted(s, start, quote) ==
  LET from[o \in 1 .. Len(s) + 2] ==
        IF o > Len(s) THEN NONE
        ELSE IF s[o] = quote THEN o + 1
        ELSE from[IF s[o] = "\\" THEN o + Escape ELSE o + 1]
  IN from[start + 1]

skipComment1(s, o) ==
  LET ends == {e \in o + 2 .. Len(s) : Pair(s, e, "*", "/")}
  IN IF ends = {} THEN NONE ELSE Min(ends) + 2

skipComment2(s, o) ==
  LET ends == {e \in o + 2 .. Len(s) : s[e] \in LineEnds}
  IN IF ends = {} THEN Len(s) + 1
     ELSE LET e == Min(ends) IN IF Pair(s, e, "\r", "\n") THEN e + 2 ELSE e + 1

skipName(s, o) == Min({e \in o + 1 .. Len(s) + 1 : At(s, e) \notin Letters})
skipBlanks(s, o) == Min({e \in o .. Len(s) + 1 : At(s, e) \notin Blanks})

-----------------------------------------------------------------------------
(* parseSQL *)

(* The offset behind what begins at o. *)
Behind(s, o) ==
  CASE s[o] = ":" -> skipName(s, o)
    [] s[o] \in {"'", DQuote} -> skipQuoted(s, o, s[o])
    [] Pair(s, o, "/", "*") -> skipComment1(s, o)
    [] Pair(s, o, "/", "/") \/ Pair(s, o, "-", "-") -> skipComment2(s, o)
    [] OTHER -> o + 1

Placeholder(s, o) == SubSeq(s, o, Behind(s, o) - 1)

(* The scan from o on: where placeholders begin, with NONE last for a text *)
(* that is refused.                                                        *)
ScanFrom(s, start) ==
  LET from[o \in 1 .. Len(s) + 2] ==
        IF o > Len(s) THEN <<>>
        ELSE IF Behind(s, o) = NONE THEN <<NONE>>
        ELSE IF s[o] = ":" /\ Len(Placeholder(s, o)) > MaxName THEN <<NONE>>
        ELSE (IF s[o] \in {"?", ":"} THEN <<o>> ELSE <<>>) \o from[Behind(s, o)]
  IN from[start]

(* The kind is taken behind leading blanks.  A comment there is not        *)
(* skipped: the offsets its skippers return are dropped, so no keyword is  *)
(* found, and the scan begins at the comment.                              *)
IsSelect(s) == At(s, skipBlanks(s, 1)) = "K"

Scan(s) == ScanFrom(s, skipBlanks(s, 1))
Refused(s) == NONE \in Range(Scan(s))
Names(s) == [i \in DOMAIN Scan(s) |-> Placeholder(s, Scan(s)[i])]

-----------------------------------------------------------------------------
(* The reference: what each character is, decided from left to right with  *)
(* no jumps.  "code" is everything outside literals and comments; "/" and  *)
(* "-" are code, too, behind a character that may begin a comment.         *)

Code == {"code", "/", "-"}
InCode(c) ==
  CASE c = "'" -> "string" [] c = DQuote -> "ident"
    [] c = "/" -> "/" [] c = "-" -> "-" [] OTHER -> "code"

InComment(mode, c) ==
  CASE mode = "/" /\ c = "*" -> "block"
    [] mode \in {"/", "-"} /\ c = mode -> "line"
    [] OTHER -> InCode(c)

After(mode, c) ==
  CASE mode \in Code -> InComment(mode, c)
    [] mode = "string" -> IF c = "'" THEN "code" ELSE IF c = "\\" THEN "string\\" ELSE mode
    [] mode = "ident" -> IF c = DQuote THEN "code" ELSE IF c = "\\" THEN "ident\\" ELSE mode
    [] mode = "string\\" -> "string"
    [] mode = "ident\\" -> "ident"
    [] mode = "block" -> IF c = "*" THEN "block*" ELSE mode
    [] mode = "block*" -> IF c = "/" THEN "code" ELSE IF c = "*" THEN mode ELSE "block"
    [] mode = "line" -> IF c \in LineEnds THEN "code" ELSE mode

(* The mode each character is read in; the last is that of the end. *)
Modes(s) ==
  LET mode[i \in 1 .. Len(s) + 1] ==
        IF i = 1 THEN "code" ELSE After(mode[i - 1], s[i - 1])
  IN mode

Starts(s) == {i \in 1 .. Len(s) : s[i] \in {"?", ":"} /\ Modes(s)[i] \in Code}
Unfinished(s) == Modes(s)[Len(s) + 1] \notin Code \union {"line"}

(* An unfinished text, or one with a long name, is refused; of any other   *)
(* the scan finds every ? and : in code, in order, and nothing else.       *)
ScanIsExact(s) ==
  LET long == \E i \in Starts(s) : s[i] = ":" /\ skipName(s, i) - i > MaxName
  IN /\ Refused(s) <=> Unfinished(s) \/ long
     /\ ~Refused(s) => /\ Range(Scan(s)) = Starts(s)
                       /\ \A i, j \in DOMAIN Scan(s) : i < j => Scan(s)[i] < Scan(s)[j]
=============================================================================
