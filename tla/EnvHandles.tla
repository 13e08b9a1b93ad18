----------------------------- MODULE EnvHandles -----------------------------
(***************************************************************************)
(* Handles and descriptors of an environment: KCIHandleAlloc and            *)
(* KCIHandleFree of kci_env.cpp by several threads, the free of the         *)
(* environment itself, the list macros of kci_types.h, the pointer probe    *)
(* IsBadWritePtr of utl_others.cpp and KCIThreadJoin.                       *)
(*                                                                         *)
(* env->hdl_list is a ring of pointers through its head.  Threads write it  *)
(* under op_lock, one pointer at a step; the free of the environment takes  *)
(* handles off it without the lock.  env->mem has a lock of its own, so an  *)
(* allocation from it is one step.  A handle is a name that is used once:   *)
(* memory is never given out again, which makes a stale pointer visible.    *)
(* The signal actions IsBadWritePtr sets and restores are left out.         *)
(***************************************************************************)
EXTENDS Integers, FiniteSets

CONSTANTS
    Workers, MAIN,   \* threads of the application; MAIN made the environment
    Handles,         \* the handles they may allocate
    HEAD, NULL,      \* the head of the list, in the environment; no pointer
    NOBODY,
    OwnJoin          \* MAIN waits for the workers by means of its own

ASSUME OwnJoinAssumption == OwnJoin \in BOOLEAN
ASSUME ThreadsAssumption == MAIN \notin Workers /\ NOBODY \notin Workers \cup {MAIN}
ASSUME FiniteAssumption == IsFiniteSet(Handles)
ASSUME NodesAssumption == HEAD \notin Handles /\ NULL \notin Handles \cup {HEAD}

VARIABLES
    pc, arg,      \* where each thread is, and the handle it works on
    owned,        \* the handles each worker has in hand
    mem,          \* of each handle: unused, filled or freed
    next, prev,   \* hdl_link of each handle, and hdl_list
    op_lock,
    wild          \* a thread has used memory that was freed

vars == <<pc, arg, owned, mem, next, prev, op_lock, wild>>

Threads == Workers \cup {MAIN}
Nodes == Handles \cup {HEAD}

\* The environment is never freed; memory of handles is.
Wild(nodes) == \E h \in nodes : h # HEAD /\ (h = NULL \/ mem[h] # "filled")
Touch(nodes) == wild' = (wild \/ Wild(nodes))

Goto(t, label) == pc' = [pc EXCEPT ![t] = label]

Init ==
    /\ pc = [t \in Threads |-> "idle"] /\ arg = [t \in Threads |-> NULL]
    /\ owned = [t \in Workers |-> {}]
    /\ mem = [h \in Handles |-> "unused"]
    /\ next = [n \in Nodes |-> IF n = HEAD THEN HEAD ELSE NULL] /\ prev = next
    /\ op_lock = NOBODY
    /\ wild = FALSE

-----------------------------------------------------------------------------
(* KCIHandleAlloc, KCIDescriptorAlloc: memory, cleared, then ListAdd.      *)

AllocNew(t, h) ==
    /\ pc[t] = "idle" /\ t \in Workers /\ mem[h] = "unused"
    /\ mem' = [mem EXCEPT ![h] = "filled"]
    /\ next' = [next EXCEPT ![h] = NULL] /\ prev' = [prev EXCEPT ![h] = NULL]
    /\ arg' = [arg EXCEPT ![t] = h] /\ Goto(t, "add")
    /\ UNCHANGED <<owned, op_lock, wild>>

\* The new handle looks at the head: its own two pointers.
MayAdd(t) == pc[t] = "add" /\ op_lock = NOBODY

AddOwn(t) ==
    /\ MayAdd(t)
    /\ op_lock' = t
    /\ next' = [next EXCEPT ![arg[t]] = HEAD] /\ prev' = [prev EXCEPT ![arg[t]] = prev[HEAD]]
    /\ Touch({arg[t]}) /\ Goto(t, "add last")
    /\ UNCHANGED <<arg, owned, mem>>

\* Mutant: the last handle of the list does not learn of the new one.
AddLastForgotten(t) ==
    /\ pc[t] = "add last" /\ Goto(t, "add head")
    /\ UNCHANGED <<arg, owned, mem, next, prev, op_lock, wild>>

AddLast(t) ==
    /\ pc[t] = "add last"
    /\ Touch({prev[HEAD]})
    /\ next' = IF prev[HEAD] = NULL THEN next ELSE [next EXCEPT ![prev[HEAD]] = arg[t]]
    /\ Goto(t, "add head")
    /\ UNCHANGED <<arg, owned, mem, prev, op_lock>>

AddHead(t) ==
    /\ pc[t] = "add head"
    /\ prev' = [prev EXCEPT ![HEAD] = arg[t]]
    /\ op_lock' = NOBODY
    /\ owned' = [owned EXCEPT ![t] = @ \cup {arg[t]}]
    /\ Goto(t, "idle")
    /\ UNCHANGED <<arg, mem, next, wild>>

-----------------------------------------------------------------------------
(* IsBadWritePtr reads and writes the memory it asks about.                *)

Probe(t) ==
    /\ pc[t] = "probe"
    /\ Touch({arg[t]})
    /\ Goto(t, IF arg[t] = HEAD THEN "loop" ELSE "remove")
    /\ UNCHANGED <<arg, owned, mem, next, prev, op_lock>>

-----------------------------------------------------------------------------
(* KCIHandleFree of a handle: off the list under the lock, then its memory. *)

FreeBegin(t, h) ==
    /\ pc[t] = "idle" /\ t \in Workers /\ h \in owned[t]
    /\ arg' = [arg EXCEPT ![t] = h] /\ Goto(t, "probe")
    /\ owned' = [owned EXCEPT ![t] = @ \ {h}]
    /\ UNCHANGED <<mem, next, prev, op_lock, wild>>

NeverInList(h) == FALSE                                      \* mutant: it stays in the list
InList(h) == next[h] # NULL

RemoveLock(t) ==
    /\ pc[t] = "remove" /\ op_lock = NOBODY
    /\ Touch({arg[t]})
    /\ IF InList(arg[t]) THEN op_lock' = t /\ Goto(t, "unlink next")
                         ELSE op_lock' = op_lock /\ Goto(t, "free")
    /\ UNCHANGED <<arg, owned, mem, next, prev>>

\* ListRmv, under the lock ("unlink") or in RmvFirst without it ("take").
UnlinkNext(t) ==
    /\ pc[t] \in {"unlink next", "take next"}
    /\ Touch({arg[t], prev[arg[t]]})
    /\ next' = IF prev[arg[t]] = NULL THEN next ELSE [next EXCEPT ![prev[arg[t]]] = next[arg[t]]]
    /\ Goto(t, IF pc[t] = "unlink next" THEN "unlink prev" ELSE "take prev")
    /\ UNCHANGED <<arg, owned, mem, prev, op_lock>>

\* Mutant: the handle behind keeps its pointer to the one taken off.
UnlinkNextOnly(t) ==
    /\ pc[t] \in {"unlink prev", "take prev"}
    /\ Goto(t, IF pc[t] = "unlink prev" THEN "unlink own" ELSE "take own")
    /\ UNCHANGED <<arg, owned, mem, next, prev, op_lock, wild>>

UnlinkPrev(t) ==
    /\ pc[t] \in {"unlink prev", "take prev"}
    /\ Touch({arg[t], next[arg[t]]})
    /\ prev' = IF next[arg[t]] = NULL THEN prev ELSE [prev EXCEPT ![next[arg[t]]] = prev[arg[t]]]
    /\ Goto(t, IF pc[t] = "unlink prev" THEN "unlink own" ELSE "take own")
    /\ UNCHANGED <<arg, owned, mem, next, op_lock>>

\* Mutant: no free_mutex.
UnlinkLocked(t) ==
    /\ pc[t] \in {"unlink own", "take own"}
    /\ next' = [next EXCEPT ![arg[t]] = NULL] /\ prev' = [prev EXCEPT ![arg[t]] = NULL]
    /\ Goto(t, IF pc[t] = "unlink own" THEN "free" ELSE "probe")
    /\ UNCHANGED <<arg, owned, mem, op_lock, wild>>

UnlinkOwn(t) ==
    /\ pc[t] \in {"unlink own", "take own"}
    /\ Touch({arg[t]})
    /\ next' = [next EXCEPT ![arg[t]] = NULL] /\ prev' = [prev EXCEPT ![arg[t]] = NULL]
    /\ op_lock' = IF pc[t] = "unlink own" THEN NOBODY ELSE op_lock
    /\ Goto(t, IF pc[t] = "unlink own" THEN "free" ELSE "probe")
    /\ UNCHANGED <<arg, owned, mem>>

FreeMem(t) ==
    /\ pc[t] = "free"
    /\ Touch({arg[t]})
    /\ mem' = [mem EXCEPT ![arg[t]] = "freed"]
    /\ Goto(t, IF t = MAIN THEN "loop" ELSE "idle")
    /\ UNCHANGED <<arg, owned, next, prev, op_lock>>

-----------------------------------------------------------------------------
(* The threads of the application, and the free of the environment.        *)

Finish(t) ==
    /\ t \in Workers /\ pc[t] = "idle"
    /\ Goto(t, "done")
    /\ UNCHANGED <<arg, owned, mem, next, prev, op_lock, wild>>

\* KCIThreadJoin returns at once, so that the wait must be the application's own.
Joined == OwnJoin => \A t \in Workers : pc[t] = "done"

EnvFreeBegin ==
    /\ pc[MAIN] = "idle" /\ Joined
    /\ arg' = [arg EXCEPT ![MAIN] = HEAD] /\ Goto(MAIN, "probe")
    /\ UNCHANGED <<owned, mem, next, prev, op_lock, wild>>

\* RmvFirst, and the KCIHandleFree of what it returned.
TakeFirst ==
    /\ pc[MAIN] = "loop" /\ next[HEAD] # HEAD
    /\ arg' = [arg EXCEPT ![MAIN] = next[HEAD]]
    /\ Touch({next[HEAD]})
    /\ Goto(MAIN, IF InList(next[HEAD]) THEN "take next" ELSE "probe")
    /\ UNCHANGED <<owned, mem, next, prev, op_lock>>

\* reset_mem(env->mem) takes back what is left.
ResetMem ==
    /\ pc[MAIN] = "loop" /\ next[HEAD] = HEAD
    /\ mem' = [h \in Handles |-> IF mem[h] = "filled" THEN "freed" ELSE mem[h]]
    /\ Goto(MAIN, "done")
    /\ UNCHANGED <<arg, owned, next, prev, op_lock, wild>>

Step(t) ==
    \/ AddOwn(t) \/ AddLast(t) \/ AddHead(t)
    \/ Probe(t) \/ RemoveLock(t) \/ UnlinkNext(t) \/ UnlinkPrev(t) \/ UnlinkOwn(t) \/ FreeMem(t)

Next ==
    \/ \E t \in Threads : Step(t) \/ Finish(t)
    \/ \E t \in Workers, h \in Handles : AllocNew(t, h) \/ FreeBegin(t, h)
    \/ EnvFreeBegin \/ TakeFirst \/ ResetMem

\* A call that has begun goes on; a thread that waits for the lock gets it some day.
Fairness ==
    /\ \A t \in Threads : SF_vars(Step(t))
    /\ WF_vars(TakeFirst \/ ResetMem)

Spec == Init /\ [][Next]_vars /\ Fairness

-----------------------------------------------------------------------------
(* Properties.                                                             *)

Labels == { "idle", "done", "add", "add last", "add head", "probe", "remove", "unlink next",
            "unlink prev", "unlink own", "free", "loop", "take next", "take prev", "take own" }

UnderLock == {"add last", "add head", "unlink next", "unlink prev", "unlink own"}

\* The types, and who holds op_lock.
TypeOK ==
    /\ pc \in [Threads -> Labels] /\ arg \in [Threads -> Nodes \cup {NULL}]
    /\ owned \in [Workers -> SUBSET Handles]
    /\ mem \in [Handles -> {"unused", "filled", "freed"}]
    /\ next \in [Nodes -> Nodes \cup {NULL}] /\ prev \in [Nodes -> Nodes \cup {NULL}]
    /\ op_lock \in Threads \cup {NOBODY} /\ wild \in BOOLEAN
    /\ \A t \in Threads : op_lock = t <=> pc[t] \in UnderLock

\* The first n nodes of the list from its head, along next or along prev.
Along(link, n) ==
    LET walk[i \in 0..n] == IF i = 0 THEN HEAD ELSE
                                IF walk[i - 1] = NULL THEN NULL ELSE link[walk[i - 1]]
    IN  {walk[i] : i \in 0..n}

\* Whenever nobody holds op_lock or frees the environment, the list runs in both
\* directions through exactly the handles that are owned or about to be taken off it: no
\* interleaving of ListAdd and ListRmv loses a handle, or keeps one that was freed.
ListSound ==
    (op_lock = NOBODY /\ pc[MAIN] = "idle") =>
        LET listed == (UNION {owned[t] : t \in Workers})
                        \cup {arg[t] : t \in {w \in Workers : pc[w] \in {"probe", "remove"}}}
        IN  /\ Along(next, Cardinality(Handles) + 1) = listed \cup {HEAD}
            /\ Along(prev, Cardinality(Handles) + 1) = listed \cup {HEAD}

\* No thread reads or writes a handle whose memory was freed, as long as the workers are
\* done when the environment is freed.
NoWildAccess == ~wild

\* When the environment is freed, every handle that was not freed before is freed by its
\* own function, and none is left for reset_mem.
EnvFreesAll == [][ResetMem => \A h \in Handles : mem[h] # "filled"]_vars

\* Every call returns, also those that wait for op_lock.
CallsReturn == \A t \in Threads : pc[t] \notin {"idle", "done"} ~> pc[t] \in {"idle", "done"}

\* The handle list is sound, and op_lock is held by the thread that is changing it.
HandlesSound == TypeOK /\ ListSound
=============================================================================
