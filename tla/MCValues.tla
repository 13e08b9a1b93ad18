------------------------------ MODULE MCValues ------------------------------
(* Variables of every type for Values, and the statements of one and two   *)
(* of them.  A byte has four values: a byte holds -2 to 1, four bytes hold *)
(* -128 to 127, eight -32768 to 32767.                                     *)
EXTENDS Values

Of(dt, bytes) == [dt |-> dt, null |-> FALSE, bytes |-> bytes, len |-> Len(bytes), tag |-> FALSE]
Null(dt, len) == [dt |-> dt, null |-> TRUE, bytes |-> <<>>, len |-> len, tag |-> FALSE]
Number(k, d) == Of("NUM", <<k, d, 0, 0, 0, 0, 0, 0>>)

TextVars ==
  {Of(dt, b) : dt \in {"CHR", "AVC", "BIN"}, b \in {<<>>, <<1>>, <<2, 3, 1>>}}
    \union {Of("BIN", <<0, 3>>), Of("STR", <<0, 1>>), Of("STR", <<3, 1, 0, 2>>),
            Null("CHR", 2), Null("AVC", 2)}
IntVars ==
  {Of("INT", Bytes(n, w)) : n \in {-2, 1}, w \in {1, 2, 4, 8}}
    \union {Of("INT", Bytes(-7, 2)), Of("INT", Bytes(100, 4)), Of("INT", Bytes(200, 8)),
            Null("INT", 2), Null("LNG", 8)}
    \union {Of("LNG", Bytes(n, 8)) : n \in {-1, 100, -30000}}
OtherVars ==
  {Of("FLT", <<1, 2, 3, 0>>), Of("INTERVAL_YM", <<3, 0, 0, 1>>), Of("INTERVAL_DS", <<1, 2, 3, 0, 1, 2, 3, 0>>),
   Of("DATE", <<1, 2, 3>>), Null("FLT", 4), Null("INTERVAL_YM", 4), Null("INTERVAL_DS", 8)}
NumberVars == {Number(0, 0), Number(1, 0), Number(10, 0), Number(-100, 0), Number(25, 1), Number(-7, 0), Number(105, 1),
               Null("NUM", 8)}
LobVars ==
  {Of("CLOB", <<1, 2, 3, 1, 2>>), [Of("BLOB", Zeros(8)) EXCEPT !.tag = TRUE]}

MCVars == TextVars \union IntVars \union OtherVars \union NumberVars \union LobVars
MCStatements == {<<v>> : v \in MCVars} \union {<<v, w>> : v \in MCVars, w \in MCVars}
=============================================================================
