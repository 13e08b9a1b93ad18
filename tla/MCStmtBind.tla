----------------------------- MODULE MCStmtBind -----------------------------
(* Instances of StmtBind for TLC. *)
EXTENDS StmtBind

(* Every text of up to four characters, of five characters that matter     *)
(* most, and some longer ones.                                             *)
Alphabet == {"K", "a", ":", "?", "'", "\"", "\\", "/", "*", "-", "\n", " "}
BindTexts ==
  { <<"K", "+", ":", "a">>,                   \* a query
    <<"+", "?", "'", "?", "'", "?">>,         \* a literal between two marks
    <<":", "a", ":", "a", "b">> }             \* a name before a longer one
ShortTexts == UNION {[1 .. n -> Alphabet] : n \in 1 .. 4}
Marks == {":", "?", "'", "\\", "/", "*", "-", "\n"}
LongTexts ==
  { <<"-", "-", "?", "\r", "\n", "?">>, <<"/", "*", "*", "*", "/", "?">>,
    <<"\"", "\\", "\"", "?", "\"", "?">>, <<"/", "/", "'", "\n", ":", "a", "b", ",">> }
AllTexts == ShortTexts \union [1 .. 5 -> Marks] \union LongTexts \union BindTexts
TwoVars == {1, 2}
=============================================================================
