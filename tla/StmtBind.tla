------------------------------ MODULE StmtBind ------------------------------
(***************************************************************************)
(* Preparing a statement, binding variables to its placeholders, defining  *)
(* its output columns, and what KCIStmtExecute sends for each row:         *)
(* KCIStmtPrepare, kci_bind.cpp, kci_defi.cpp, checkBinds, sendQryParams.  *)
(*                                                                         *)
(* A variable is a column of the application's rows.  What a bind points   *)
(* to is abstracted to that variable and to the layout of its rows:        *)
(*   "plain"        arrays of values, indicators and lengths               *)
(*   "packed"       KCIBindArrayOfStruct, indicators in an array of sb2    *)
(*   "interleaved"  KCIBindArrayOfStruct, indicators inside the structs    *)
(* Large objects and pieces are in Request, the transaction a bind starts  *)
(* in Session.                                                             *)
(***************************************************************************)
EXTENDS SqlText, FiniteSets

CONSTANTS
  Texts,      \* what may be prepared
  Bound,      \* the texts the application goes on with
  Vars,       \* variables of the application
  Rows,       \* most rows of an execution
  Nulls,      \* sets of rows whose indicator may be -1
  Layouts,
  Columns,    \* output columns; they are first defined in ascending order
  MaxDefines  \* bound of the model: calls that define between two prepares

ASSUME ArgsAssumption ==
  /\ Bound \subseteq Texts /\ Texts # {}
  /\ Layouts \subseteq {"plain", "packed", "interleaved"}
  /\ Rows \in Nat \ {0} /\ Nulls \subseteq SUBSET (1 .. Rows) /\ Columns \in Nat /\ MaxDefines \in Nat /\ 0 \notin Vars

ASSUME TextsAssumption == Texts \subseteq Seq(STRING)
(* A name is looked up by prefix.  The application goes on with texts in   *)
(* which that is the name: none begins with a name that comes later only.  *)
ASSUME NamesAssumption ==
  \A s \in Bound : \A i, k \in DOMAIN Names(s) :
    IsPrefix(Names(s)[i], Names(s)[k]) => \E j \in 1 .. k : Names(s)[j] = Names(s)[i]

VARIABLES
  sql,      \* sql_str, NoText when there is none
  given,    \* the text KCIStmtPrepare was last given
  binds,    \* the KCIBind array, one for each placeholder
  defines,  \* the KCIDefine list
  defi_num,
  sent,     \* the rows of parameters the server got from the last call
  told,
  meant,    \* of each placeholder: the bind the application made for it
  wanted    \* of each column: the variable it was defined with

vars == <<sql, given, binds, defines, defi_num, sent, told, meant, wanted>>

NoText == <<"end">>
NULLED == "NULL"

(* A KCIBind: skips are the strides it was told, dynamic its callback.     *)
(* With it, what its pointers point to: the variable (0: val_dt is not     *)
(* set), how its rows lie in memory, and those whose indicator is -1.      *)
NewBind(name) ==
  [name |-> name, var |-> 0, rows |-> "plain", nulls |-> {}, skips |-> "plain",
   at_exec |-> FALSE, dynamic |-> FALSE]
IsSet(b) == b.var # 0

Init ==
  /\ sql = NoText /\ given = NoText /\ binds = <<>> /\ defines = <<>> /\ defi_num = 0
  /\ sent = <<>> /\ told = "nothing" /\ meant = <<>>
  /\ wanted = [c \in 1 .. Columns |-> 0]

-----------------------------------------------------------------------------
(* KCIStmtPrepare: the statement is cleared, then scanned. *)

KeepsOld(s) ==                                       \* mutant: the array is not cleared
  [i \in DOMAIN Names(s) |->
     IF i \in DOMAIN binds THEN [binds[i] EXCEPT !.name = Names(s)[i]] ELSE NewBind(Names(s)[i])]
FreshBinds(s) == [i \in DOMAIN Names(s) |-> NewBind(Names(s)[i])]

KCIStmtPrepare(s) ==
  /\ given' = s
  /\ IF Refused(s)
     THEN sql' = NoText /\ binds' = <<>> /\ told' = "not prepared"
     ELSE sql' = s /\ binds' = FreshBinds(s) /\ told' = "prepared"
  /\ meant' = [i \in DOMAIN binds' |-> NewBind(binds'[i].name)]
  /\ defines' = <<>> /\ defi_num' = 0 /\ sent' = <<>>
  /\ wanted' = [c \in 1 .. Columns |-> 0]

-----------------------------------------------------------------------------
(* Binds *)

Told == told' = "ok" /\ sent' = <<>>
OnlyBinds == UNCHANGED <<sql, given, defines, defi_num, wanted>>

(* What ByPos and ByName write; the strides of an earlier ArrayOfStruct    *)
(* and the callback of an earlier Dynamic stay.                            *)
Filled(b, v, nulls, at_exec) ==
  [b EXCEPT !.var = v, !.rows = "plain", !.nulls = nulls, !.at_exec = at_exec]
Strided(b, layout) == [b EXCEPT !.rows = layout, !.skips = layout]

BindAt(i, v, nulls, at_exec) ==
  /\ at_exec => nulls = {}
  /\ binds' = [binds EXCEPT ![i] = Filled(binds[i], v, nulls, at_exec)]
  /\ Told /\ OnlyBinds

(* KCIBindByPos, KCIBindByPos2: another position is refused. *)
KCIBindByPos(position, v, nulls, at_exec) ==
  /\ sql \in Bound /\ position \in DOMAIN binds
  /\ BindAt(position, v, nulls, at_exec)
  /\ meant' = [meant EXCEPT ![position] = Filled(meant[position], v, nulls, at_exec)]

(* KCIBindByName, KCIBindByName2: the first placeholder whose name begins  *)
(* with the given one.  (If there is none, idx stays (uint)-1, which the   *)
(* test idx < 0 does not see: the application gives names of the text.)    *)
FirstByName(name) == Min({i \in DOMAIN binds : IsPrefix(name, binds[i].name)})
KCIBindByName(name, v, nulls, at_exec) ==
  /\ sql \in Bound /\ \E i \in DOMAIN binds : IsPrefix(name, binds[i].name)
  /\ BindAt(FirstByName(name), v, nulls, at_exec)
  /\ LET exact == Min({k \in DOMAIN meant : meant[k].name = name})
     IN meant' = [meant EXCEPT ![exact] = Filled(meant[exact], v, nulls, at_exec)]

(* KCIBindArrayOfStruct and KCIBindDynamic on the handle a bind returned.  *)
KCIBindArrayOfStruct(i, layout) ==
  /\ sql \in Bound /\ IsSet(binds[i])
  /\ binds' = [binds EXCEPT ![i] = Strided(binds[i], layout)]
  /\ meant' = [meant EXCEPT ![i] = Strided(meant[i], layout)]
  /\ Told /\ OnlyBinds

(* Only with a callback for input. *)
KCIBindDynamic(i) ==
  /\ sql \in Bound /\ IsSet(binds[i]) /\ binds[i].at_exec
  /\ binds' = [binds EXCEPT ![i].dynamic = TRUE]
  /\ meant' = [meant EXCEPT ![i].dynamic = TRUE]
  /\ Told /\ OnlyBinds

-----------------------------------------------------------------------------
(* Defines: KCIDefineByPos walks the list to the position, one node at     *)
(* most is added.  The application defines columns of queries.             *)

StopsEarly(position) == Max({1, position - 1})       \* mutant: the walk ends a node early
NodeOf(position) == position

KCIDefineByPos(position, v) ==
  /\ sql \in Bound /\ IsSelect(sql) /\ position <= Len(defines) + 1 /\ defi_num < MaxDefines
  /\ LET n == Min({NodeOf(position), Len(defines) + 1})
         node == [col_index |-> position - 1, var |-> v]
     IN defines' = IF n \in DOMAIN defines THEN [defines EXCEPT ![n] = node]
                   ELSE Append(defines, node)
  /\ defi_num' = defi_num + 1
  /\ wanted' = [wanted EXCEPT ![position] = v]
  /\ Told /\ UNCHANGED <<sql, given, binds, meant>>

-----------------------------------------------------------------------------
(* KCIStmtExecute *)

(* checkBinds *)
checkBinds(n) ==
  \A i \in DOMAIN binds :
    /\ IsSet(binds[i])
    /\ ~(binds[i].at_exec /\ ~binds[i].dynamic /\ n > 1)

(* checkDefines takes the list for an array: from the second define on it  *)
(* reads memory that is no KCIDefine, and may refuse.                      *)
MayRefuseDefines == defi_num > 1

Refuse(n) ==
  /\ sql \in Bound \union {NoText}
  /\ sql = NoText \/ ~checkBinds(n) \/ MayRefuseDefines
  /\ told' = "refused" /\ sent' = <<>>
  /\ UNCHANGED <<sql, given, binds, defines, defi_num, meant, wanted>>

(* getBindPtr.  Values are read with the strides of the bind, wrong ones   *)
(* when its rows now lie otherwise.  The indicator is read with the stride *)
(* 2 after ArrayOfStruct, whatever that was told, and else with ind_skip,  *)
(* which then nobody has set, 0: always the first.                         *)
JUNK == "junk"
ValueRead(b, r) ==
  IF r = 1 \/ (b.skips = "plain") = (b.rows = "plain") THEN <<b.var, r>> ELSE <<JUNK>>

NullRead(b, r) ==
  IF r = 1 \/ b.skips = "plain" THEN {1 \in b.nulls}
  ELSE IF b.rows = "interleaved" THEN BOOLEAN ELSE {r \in b.nulls}

(* A parameter of a row in sendQryParams: NULL, a value, or the mark that  *)
(* the value will be sent as a stream.                                     *)
Param(b, r, null) ==
  [name |-> b.name,
   value |-> IF b.at_exec THEN <<"stream">> ELSE IF null THEN <<NULLED>> ELSE ValueRead(b, r)]

(* A query sends its parameters once, any other statement once for each    *)
(* row.                                                                    *)
RowsSent(n) == IF IsSelect(sql) THEN 1 ELSE n

KCIStmtExecute(n) ==
  /\ sql \in Bound /\ checkBinds(n)
  /\ \E null \in [1 .. RowsSent(n) -> [DOMAIN binds -> BOOLEAN]] :
       /\ \A r \in 1 .. RowsSent(n), i \in DOMAIN binds : null[r][i] \in NullRead(binds[i], r)
       /\ sent' = [r \in 1 .. RowsSent(n) |->
                     [i \in DOMAIN binds |-> Param(binds[i], r, null[r][i])]]
  /\ told' = "executed"
  /\ UNCHANGED <<sql, given, binds, defines, defi_num, meant, wanted>>

(* A network error in KCIStmtExecute frees sql_str and the memory of the   *)
(* binds; bind_num and binds stay as they were.  The application prepares  *)
(* the statement again before it binds.                                    *)
NetError ==
  /\ sql \in Bound /\ checkBinds(1)
  /\ sql' = NoText /\ sent' = <<>> /\ told' = "error"
  /\ UNCHANGED <<given, binds, defines, defi_num, meant, wanted>>

Next ==
  \/ \E s \in IF given = NoText THEN Texts ELSE Bound : KCIStmtPrepare(s)
  \/ \E v \in Vars, nulls \in Nulls, at_exec \in BOOLEAN :
       \/ \E p \in DOMAIN binds : KCIBindByPos(p, v, nulls, at_exec)
       \/ \E i \in DOMAIN binds : KCIBindByName(binds[i].name, v, nulls, at_exec)
  \/ \E i \in DOMAIN binds : KCIBindDynamic(i)
  \/ \E i \in DOMAIN binds, layout \in Layouts \ {"plain"} : KCIBindArrayOfStruct(i, layout)
  \/ \E c \in 1 .. Columns, v \in Vars : KCIDefineByPos(c, v)
  \/ \E n \in 1 .. Rows : Refuse(n) \/ KCIStmtExecute(n)
  \/ NetError

Spec == Init /\ [][Next]_vars

-----------------------------------------------------------------------------
(* Types; the binds are those of the text that is prepared.                *)
TypeOK ==
  /\ sql \in Texts \union {NoText}
  /\ \A i \in DOMAIN binds :
       /\ binds[i].var \in Vars \union {0} /\ binds[i].nulls \subseteq 1 .. Rows
       /\ {binds[i].skips, binds[i].rows} \subseteq Layouts \union {"plain"}
  /\ Len(meant) = Len(binds)
  /\ Len(defines) <= defi_num /\ defi_num <= MaxDefines
  /\ told \in {"nothing", "prepared", "not prepared", "ok", "error", "refused", "executed"}
  /\ sent # <<>> => told = "executed"

(* parseSQL finds the placeholders the text has by a scan that never       *)
(* jumps, and refuses exactly the unfinished texts and the long names.     *)
PlaceholdersExact ==
  told \in {"prepared", "not prepared"} =>
    /\ ScanIsExact(given)
    /\ told = "prepared" => Len(binds) = Cardinality(Starts(given))

(* What the application bound to a placeholder, by its position or its     *)
(* exact name and since the text was prepared, is what the server gets     *)
(* for it.  The indicator of each row counts where the code can find it.   *)
Wish(b, r) ==
  [name |-> b.name,
   value |-> IF b.at_exec THEN <<"stream">> ELSE IF r \in b.nulls THEN <<NULLED>> ELSE <<b.var, r>>]

SentAsBound ==
  told = "executed" =>
    \A r \in DOMAIN sent :
      /\ Len(sent[r]) = Len(meant)
      /\ \A i \in DOMAIN meant :
           /\ IsSet(meant[i])
           /\ (r = 1 \/ meant[i].rows = "packed") => sent[r][i] = Wish(meant[i], r)

(* Columns defined in ascending order, some again: a fetch finds one node  *)
(* for each, with the variable it was last given.                          *)
DefinesReachColumns ==
  \A c \in 1 .. Columns : wanted[c] # 0 =>
    {n \in DOMAIN defines : defines[n].col_index = c - 1} # {} /\
    \A n \in DOMAIN defines : defines[n].col_index = c - 1 => defines[n].var = wanted[c]

(* What a prepare leaves behind is the binds of the text it scanned.        *)
PreparedAsScanned == TypeOK /\ PlaceholdersExact
=============================================================================
