--------------------------- MODULE EnvHandlesProofs ---------------------------
(***************************************************************************)
(* Proofs about EnvHandles, for any numbers of threads and handles.        *)
(*                                                                         *)
(* The pointers in memory are compared with a ring that changes in one     *)
(* step, when ListAdd or ListRmv is done: N and P are its links, L the     *)
(* handles in it.  Links says how far the pointers are ahead of it, by the *)
(* place of the one thread that is at work on them.                        *)
(***************************************************************************)
EXTENDS EnvHandles, FiniteSetTheorems, WellFoundedInduction, TLAPS

(* Until the environment is freed, or if it is freed when the workers are  *)
(* done.                                                                   *)
Calm == OwnJoin \/ pc[MAIN] = "idle"

Taking == {"take next", "take prev", "take own"}
Moving == UnderLock \cup Taking

Roles ==
    /\ pc[MAIN] \in {"idle", "done", "probe", "loop", "remove", "free"} \cup Taking
    /\ \A t \in Workers : pc[t] \notin {"loop"} \cup Taking
    /\ pc[MAIN] # "idle" => \A t \in Workers : pc[t] = "done"

Busy(t) == pc[t] \notin {"idle", "done"}

(* Each handle that is in use is in one pair of hands. *)
Held(h) == \E t \in Workers : h \in owned[t] \/ (Busy(t) /\ arg[t] = h)

Hands ==
    /\ \A t \in Workers : Busy(t) => arg[t] \in Handles /\ mem[arg[t]] = "filled"
    /\ \A t, u \in Workers : Busy(t) /\ Busy(u) /\ arg[t] = arg[u] => t = u
    /\ pc[MAIN] \in {"remove", "free"} \cup Taking =>
          arg[MAIN] \in Handles /\ mem[arg[MAIN]] = "filled"
    /\ pc[MAIN] = "probe" =>
          arg[MAIN] = HEAD \/ (arg[MAIN] \in Handles /\ mem[arg[MAIN]] = "filled")

Owners ==
    pc[MAIN] = "idle" =>
        /\ \A t \in Workers : \A h \in owned[t] : mem[h] = "filled"
        /\ \A t, u \in Workers : Busy(u) => arg[u] \notin owned[t]
        /\ \A t, u \in Workers : \A h \in owned[t] : h \in owned[u] => t = u
        /\ \A h \in Handles : mem[h] = "filled" => Held(h)

(* The thread works on a handle that is not in the list, or not yet.       *)
Off(t) ==
    \/ pc[t] \in {"add", "add last", "add head", "free"}
    \/ t = MAIN /\ pc[t] \in {"probe", "remove"}

Listed == {h \in Handles : mem[h] = "filled" /\ \A t \in Threads : Off(t) => arg[t] # h}

Ring(L, N, P, r) ==
    /\ L \subseteq Handles
    /\ N \in [Nodes -> Nodes \cup {NULL}] /\ P \in [Nodes -> Nodes \cup {NULL}]
    /\ r \in [Nodes -> Nat]
    /\ \A n \in L \cup {HEAD} : N[n] \in L \cup {HEAD} /\ P[N[n]] = n
    /\ \A n \in L \cup {HEAD} : P[n] \in L \cup {HEAD} /\ N[P[n]] = n
    /\ \A h \in Handles \ L : N[h] = NULL /\ P[h] = NULL
    /\ \A h \in L : r[P[h]] < r[h]

(* The pointers while a thread at label works on handle a.                 *)
LinksAt(label, a, N, P) ==
    /\ label = "add last" =>
          next = [N EXCEPT ![a] = HEAD] /\ prev = [P EXCEPT ![a] = P[HEAD]]
    /\ label = "add head" =>
          /\ next = [N EXCEPT ![a] = HEAD, ![P[HEAD]] = a]
          /\ prev = [P EXCEPT ![a] = P[HEAD]]
    /\ label \in {"unlink next", "take next"} => next = N /\ prev = P
    /\ label \in {"unlink prev", "take prev"} => next = [N EXCEPT ![P[a]] = N[a]] /\ prev = P
    /\ label \in {"unlink own", "take own"} =>
          next = [N EXCEPT ![P[a]] = N[a]] /\ prev = [P EXCEPT ![N[a]] = P[a]]

Links(N, P) ==
    /\ (\A t \in Threads : pc[t] \notin Moving) => next = N /\ prev = P
    /\ \A t \in Threads : pc[t] \in Moving => LinksAt(pc[t], arg[t], N, P)

Ringed == \E N, P, r : Ring(Listed, N, P, r) /\ Links(N, P)

Core == TypeOK /\ Roles /\ Hands /\ Owners /\ Ringed /\ ~wild

(* MAIN does not go back to where it was before the free of the            *)
(* environment.                                                            *)
Main == pc \in [Threads -> Labels] /\ pc[MAIN] \notin {"add", "add last", "add head"}

EnvInv == Main /\ (Calm => Core)

-----------------------------------------------------------------------------
(* The ring. *)

LEMMA ConstantFacts ==
  /\ HEAD \in Nodes /\ HEAD \notin Handles /\ NULL \notin Handles /\ NULL # HEAD
  /\ MAIN \in Threads /\ MAIN \notin Workers /\ NOBODY \notin Threads
  /\ \A n \in Nodes : n # HEAD => n \in Handles
  /\ \A t \in Threads : t # MAIN => t \in Workers
BY NodesAssumption, ThreadsAssumption DEF Nodes, Threads

(* ListAdd puts a handle at the end, between the last one and the head.    *)
LEMMA RingAdd ==
  ASSUME NEW L, NEW N, NEW P, NEW r, Ring(L, N, P, r), NEW h \in Handles, h \notin L
  PROVE  Ring(L \cup {h}, [N EXCEPT ![h] = HEAD, ![P[HEAD]] = h],
              [P EXCEPT ![h] = P[HEAD], ![HEAD] = h], [r EXCEPT ![h] = r[P[HEAD]] + 1])
<1> DEFINE last == P[HEAD]
           N1 == [N EXCEPT ![h] = HEAD, ![last] = h]
           P1 == [P EXCEPT ![h] = last, ![HEAD] = h]
           r1 == [r EXCEPT ![h] = r[last] + 1]
<1>1. /\ L \subseteq Handles /\ last \in L \cup {HEAD} /\ last # h /\ h # HEAD
      /\ last \in Nodes /\ h \in Nodes /\ HEAD \in Nodes /\ N[last] = HEAD
      /\ r \in [Nodes -> Nat]
  BY ConstantFacts DEF Ring, Nodes
<1>2. /\ N1[h] = HEAD /\ N1[last] = h
      /\ \A n \in Nodes : n # h /\ n # last => N1[n] = N[n]
      /\ N1 \in [Nodes -> Nodes \cup {NULL}]
  BY <1>1 DEF Ring
<1>3. /\ P1[h] = last /\ P1[HEAD] = h
      /\ \A n \in Nodes : n # h /\ n # HEAD => P1[n] = P[n]
      /\ P1 \in [Nodes -> Nodes \cup {NULL}]
  BY <1>1 DEF Ring
<1>4. /\ r1[h] = r[last] + 1
      /\ \A n \in Nodes : n # h => r1[n] = r[n]
      /\ r1 \in [Nodes -> Nat]
  BY <1>1
<1> HIDE DEF N1, P1, r1
<1>5. \A n \in L \cup {h} \cup {HEAD} : N1[n] \in L \cup {h} \cup {HEAD} /\ P1[N1[n]] = n
  <2> SUFFICES ASSUME NEW n \in L \cup {h} \cup {HEAD}
               PROVE  N1[n] \in L \cup {h} \cup {HEAD} /\ P1[N1[n]] = n
    OBVIOUS
  <2>1. CASE n = h \/ n = last
    BY <1>1, <1>2, <1>3, <2>1
  <2>2. CASE n # h /\ n # last
    <3>1. n \in L \cup {HEAD} /\ n \in Nodes
      BY <1>1, <2>2 DEF Nodes
    <3>2. N1[n] = N[n] /\ N[n] \in L \cup {HEAD} /\ P[N[n]] = n
      BY <1>2, <2>2, <3>1 DEF Ring
    <3>3. N[n] # HEAD /\ N[n] # h /\ N[n] \in Nodes
      BY <1>1, <2>2, <3>2 DEF Nodes
    <3> QED
      BY <1>3, <3>2, <3>3
  <2> QED
    BY <2>1, <2>2
<1>6. \A n \in L \cup {h} \cup {HEAD} : P1[n] \in L \cup {h} \cup {HEAD} /\ N1[P1[n]] = n
  <2> SUFFICES ASSUME NEW n \in L \cup {h} \cup {HEAD}
               PROVE  P1[n] \in L \cup {h} \cup {HEAD} /\ N1[P1[n]] = n
    OBVIOUS
  <2>1. CASE n = h \/ n = HEAD
    BY <1>1, <1>2, <1>3, <2>1
  <2>2. CASE n # h /\ n # HEAD
    <3>1. n \in L \cup {HEAD} /\ n \in Nodes
      BY <1>1, <2>2 DEF Nodes
    <3>2. P1[n] = P[n] /\ P[n] \in L \cup {HEAD} /\ N[P[n]] = n
      BY <1>3, <2>2, <3>1 DEF Ring
    <3>3. P[n] # last /\ P[n] # h /\ P[n] \in Nodes
      BY <1>1, <2>2, <3>2 DEF Nodes
    <3> QED
      BY <1>2, <3>2, <3>3
  <2> QED
    BY <2>1, <2>2
<1>7. \A n \in Handles \ (L \cup {h}) : N1[n] = NULL /\ P1[n] = NULL
  BY <1>1, <1>2, <1>3, ConstantFacts DEF Ring, Nodes
<1>8. \A n \in L \cup {h} : r1[P1[n]] < r1[n]
  <2> SUFFICES ASSUME NEW n \in L \cup {h} PROVE r1[P1[n]] < r1[n]
    OBVIOUS
  <2>1. CASE n = h
    <3>1. r1[last] = r[last] /\ r[last] \in Nat
      BY <1>1, <1>4
    <3> QED
      BY <1>3, <1>4, <2>1, <3>1
  <2>2. CASE n # h
    <3>1. n \in L /\ n # HEAD /\ n \in Nodes /\ P[n] # h /\ P[n] \in Nodes
      BY <1>1, <2>2, ConstantFacts DEF Ring, Nodes
    <3>2. r[P[n]] < r[n]
      BY <3>1 DEF Ring
    <3> QED
      BY <1>3, <1>4, <2>2, <3>1, <3>2
  <2> QED
    BY <2>1, <2>2
<1>9. L \cup {h} \subseteq Handles
  BY <1>1
<1>10. Ring(L \cup {h}, N1, P1, r1)
  BY <1>2, <1>3, <1>4, <1>5, <1>6, <1>7, <1>8, <1>9 DEF Ring
<1> QED
  BY <1>10 DEF N1, P1, r1

(* ListRmv joins the neighbours of the handle it takes off.                *)
LEMMA RingRemove ==
  ASSUME NEW L, NEW N, NEW P, NEW r, Ring(L, N, P, r), NEW h \in L
  PROVE  Ring(L \ {h}, [N EXCEPT ![P[h]] = N[h], ![h] = NULL],
              [P EXCEPT ![N[h]] = P[h], ![h] = NULL], r)
<1> DEFINE N1 == [N EXCEPT ![P[h]] = N[h], ![h] = NULL]
           P1 == [P EXCEPT ![N[h]] = P[h], ![h] = NULL]
<1>1. /\ L \subseteq Handles /\ h \in Handles /\ h # HEAD /\ h \in Nodes
      /\ P[h] \in L \cup {HEAD} /\ N[h] \in L \cup {HEAD} /\ N[P[h]] = h /\ P[N[h]] = h
      /\ P[h] \in Nodes /\ N[h] \in Nodes /\ r \in [Nodes -> Nat]
      /\ r[P[h]] < r[h]
  BY ConstantFacts DEF Ring, Nodes
<1>2. P[h] # h /\ N[h] # h
  BY <1>1
<1>3. /\ N1[P[h]] = N[h] /\ N1[h] = NULL
      /\ \A n \in Nodes : n # h /\ n # P[h] => N1[n] = N[n]
      /\ N1 \in [Nodes -> Nodes \cup {NULL}]
  BY <1>1, <1>2 DEF Ring
<1>4. /\ P1[N[h]] = P[h] /\ P1[h] = NULL
      /\ \A n \in Nodes : n # h /\ n # N[h] => P1[n] = P[n]
      /\ P1 \in [Nodes -> Nodes \cup {NULL}]
  BY <1>1, <1>2 DEF Ring
<1> HIDE DEF N1, P1
<1>5. \A n \in (L \ {h}) \cup {HEAD} : N1[n] \in (L \ {h}) \cup {HEAD} /\ P1[N1[n]] = n
  <2> SUFFICES ASSUME NEW n \in (L \ {h}) \cup {HEAD}
               PROVE  N1[n] \in (L \ {h}) \cup {HEAD} /\ P1[N1[n]] = n
    OBVIOUS
  <2>1. CASE n = P[h]
    BY <1>1, <1>2, <1>3, <1>4, <2>1
  <2>2. CASE n # P[h]
    <3>1. n \in L \cup {HEAD} /\ n \in Nodes /\ n # h
      BY <1>1 DEF Nodes
    <3>2. N1[n] = N[n] /\ N[n] \in L \cup {HEAD} /\ P[N[n]] = n
      BY <1>3, <2>2, <3>1 DEF Ring
    <3>3. N[n] # h /\ N[n] # N[h] /\ N[n] \in Nodes
      BY <1>1, <2>2, <3>1, <3>2 DEF Nodes
    <3> QED
      BY <1>4, <3>2, <3>3
  <2> QED
    BY <2>1, <2>2
<1>6. \A n \in (L \ {h}) \cup {HEAD} : P1[n] \in (L \ {h}) \cup {HEAD} /\ N1[P1[n]] = n
  <2> SUFFICES ASSUME NEW n \in (L \ {h}) \cup {HEAD}
               PROVE  P1[n] \in (L \ {h}) \cup {HEAD} /\ N1[P1[n]] = n
    OBVIOUS
  <2>1. CASE n = N[h]
    BY <1>1, <1>2, <1>3, <1>4, <2>1
  <2>2. CASE n # N[h]
    <3>1. n \in L \cup {HEAD} /\ n \in Nodes /\ n # h
      BY <1>1 DEF Nodes
    <3>2. P1[n] = P[n] /\ P[n] \in L \cup {HEAD} /\ N[P[n]] = n
      BY <1>4, <2>2, <3>1 DEF Ring
    <3>3. P[n] # h /\ P[n] # P[h] /\ P[n] \in Nodes
      BY <1>1, <2>2, <3>1, <3>2 DEF Nodes
    <3> QED
      BY <1>3, <3>2, <3>3
  <2> QED
    BY <2>1, <2>2
<1>7. \A n \in Handles \ (L \ {h}) : N1[n] = NULL /\ P1[n] = NULL
  <2> SUFFICES ASSUME NEW n \in Handles, n \notin L \ {h} PROVE N1[n] = NULL /\ P1[n] = NULL
    OBVIOUS
  <2>1. CASE n = h
    BY <1>3, <1>4, <2>1
  <2>2. CASE n # h
    <3>1. n \notin L /\ n \in Nodes /\ n # HEAD /\ n # P[h] /\ n # N[h]
      BY <1>1, <2>2, ConstantFacts DEF Nodes
    <3> QED
      BY <1>3, <1>4, <2>2, <3>1 DEF Ring
  <2> QED
    BY <2>1, <2>2
<1>8. \A n \in L \ {h} : r[P1[n]] < r[n]
  <2> SUFFICES ASSUME NEW n \in L, n # h PROVE r[P1[n]] < r[n]
    OBVIOUS
  <2>1. n \in Nodes /\ r[P[n]] < r[n] /\ r[n] \in Nat /\ r[h] \in Nat /\ r[P[h]] \in Nat
    BY <1>1 DEF Nodes, Ring
  <2>2. CASE n = N[h]
    BY <1>1, <1>4, <2>1, <2>2
  <2>3. CASE n # N[h]
    BY <1>4, <2>1, <2>3
  <2> QED
    BY <2>2, <2>3
<1>9. L \ {h} \subseteq Handles /\ r \in [Nodes -> Nat]
  BY <1>1
<1>10. Ring(L \ {h}, N1, P1, r)
  BY <1>3, <1>4, <1>5, <1>6, <1>7, <1>8, <1>9 DEF Ring
<1> QED
  BY <1>10 DEF N1, P1

(* Nothing but the head is left when the head is its own successor.        *)
LEMMA RingEmpty ==
  ASSUME NEW L, NEW N, NEW P, NEW r, Ring(L, N, P, r), N[HEAD] = HEAD
  PROVE  L = {}
<1> SUFFICES ASSUME L # {} PROVE FALSE
  OBVIOUS
<1> DEFINE ranks == {r[n] : n \in L}
<1>1. L \subseteq Handles /\ r \in [Nodes -> Nat] /\ L \subseteq Nodes
  BY DEF Ring, Nodes
<1>2. ranks \subseteq Nat /\ ranks # {}
  BY <1>1
<1>3. PICK m \in ranks : \A k \in ranks : <<k, m>> \notin OpToRel(<, Nat)
  BY <1>2, NatLessThanWellFounded, WFMin
<1>4. PICK n \in L : m = r[n]
  OBVIOUS
<1>5. /\ P[n] \in L \cup {HEAD} /\ N[P[n]] = n /\ r[P[n]] < r[n] /\ n # HEAD
      /\ r[n] \in Nat
  BY <1>1, ConstantFacts DEF Ring
<1>6. P[n] \in L
  BY <1>5
<1>7. r[P[n]] \in ranks /\ r[P[n]] \in Nat
  BY <1>1, <1>6
<1>8. <<r[P[n]], m>> \in OpToRel(<, Nat)
  BY <1>4, <1>5, <1>7 DEF OpToRel
<1> QED
  BY <1>3, <1>7, <1>8
-----------------------------------------------------------------------------
(* Where the threads may be. *)

LEMMA Places ==
  ASSUME Core
  PROVE  /\ \A t \in Threads : pc[t] \in UnderLock => op_lock = t /\ t \in Workers
         /\ \A t \in Threads : pc[t] \in Taking => t = MAIN
         /\ \A t, u \in Threads : pc[t] \in Moving /\ pc[u] \in Moving => t = u
         /\ \A t \in Threads : pc[t] \notin {"idle", "done", "loop", "probe"} =>
               arg[t] \in Handles /\ mem[arg[t]] = "filled"
         /\ \A t \in Threads : pc[t] = "probe" =>
               arg[t] = HEAD \/ (arg[t] \in Handles /\ mem[arg[t]] = "filled")
         /\ \A t \in Workers : pc[t] # "done" => pc[MAIN] = "idle"
<1>1. \A t \in Threads : pc[t] \in UnderLock => op_lock = t /\ t \in Workers
  BY ConstantFacts DEF Core, TypeOK, Roles, UnderLock, Taking
<1>2. \A t \in Threads : pc[t] \in Taking => t = MAIN
  BY ConstantFacts DEF Core, Roles
<1>3. \A t \in Workers : pc[t] # "done" => pc[MAIN] = "idle"
  BY DEF Core, Roles
<1>4. \A t, u \in Threads : pc[t] \in Moving /\ pc[u] \in Moving => t = u
  <2> SUFFICES ASSUME NEW t \in Threads, NEW u \in Threads,
                      pc[t] \in Moving, pc[u] \in Moving
               PROVE  t = u
    OBVIOUS
  <2>1. CASE pc[t] \in UnderLock /\ pc[u] \in UnderLock
    BY <1>1, <2>1
  <2>2. CASE pc[t] \in Taking /\ pc[u] \in Taking
    BY <1>2, <2>2
  <2>3. CASE pc[t] \in UnderLock /\ pc[u] \in Taking
    <3>1. t \in Workers /\ pc[t] # "done" /\ u = MAIN /\ pc[MAIN] # "idle"
      BY <1>1, <1>2, <2>3 DEF UnderLock, Taking
    <3> QED
      BY <1>3, <3>1
  <2>4. CASE pc[t] \in Taking /\ pc[u] \in UnderLock
    <3>1. u \in Workers /\ pc[u] # "done" /\ t = MAIN /\ pc[MAIN] # "idle"
      BY <1>1, <1>2, <2>4 DEF UnderLock, Taking
    <3> QED
      BY <1>3, <3>1
  <2> QED
    BY <2>1, <2>2, <2>3, <2>4 DEF Moving
<1>5. \A t \in Threads : pc[t] \notin {"idle", "done", "loop", "probe"} =>
        arg[t] \in Handles /\ mem[arg[t]] = "filled"
  BY ConstantFacts DEF Core, Roles, Hands, Busy
<1>6. \A t \in Threads : pc[t] = "probe" =>
        arg[t] = HEAD \/ (arg[t] \in Handles /\ mem[arg[t]] = "filled")
  BY ConstantFacts DEF Core, Hands, Busy
<1> QED
  BY <1>1, <1>2, <1>3, <1>4, <1>5, <1>6

(* A handle that is taken off the list is in it. *)
LEMMA OnList ==
  ASSUME Core, NEW t \in Threads,
         \/ t \in Workers /\ pc[t] \in {"probe", "remove", "unlink next", "unlink prev", "unlink own"}
         \/ pc[t] \in Taking
  PROVE  arg[t] \in Listed
<1>1. CASE t \in Workers
  <2>1. pc[t] \notin {"idle", "done"} /\ pc[MAIN] = "idle" /\ ~Off(t) /\ t # MAIN
    BY <1>1, ConstantFacts DEF Core, Roles, Off, Taking
  <2>2. arg[t] \in Handles /\ mem[arg[t]] = "filled"
    BY <1>1, <2>1 DEF Core, Hands, Busy
  <2>3. \A u \in Threads : Off(u) => arg[u] # arg[t]
    <3> SUFFICES ASSUME NEW u \in Threads, Off(u), arg[u] = arg[t] PROVE FALSE
      OBVIOUS
    <3>1. u \in Workers /\ Busy(u) /\ Busy(t)
      BY <2>1, ConstantFacts DEF Off, Busy
    <3>2. u = t
      BY <1>1, <3>1 DEF Core, Hands
    <3> QED
      BY <2>1, <3>2
  <2> QED
    BY <2>2, <2>3 DEF Listed
<1>2. CASE pc[t] \in Taking
  <2>1. t = MAIN /\ \A u \in Workers : pc[u] = "done"
    BY <1>2, Places DEF Core, Roles, Taking
  <2>2. arg[t] \in Handles /\ mem[arg[t]] = "filled"
    BY <1>2, Places DEF Taking
  <2>3. \A u \in Threads : ~Off(u)
    BY <1>2, <2>1, ConstantFacts DEF Off, Taking
  <2> QED
    BY <2>2, <2>3 DEF Listed
<1> QED
  BY <1>1, <1>2

(* A handle off the list is no neighbour of one in it.                     *)
LEMMA Unlinked ==
  ASSUME Core, NEW h \in Handles, h \notin Listed,
         \A t \in Threads : pc[t] \in Moving => arg[t] # h
  PROVE  next[h] = NULL /\ prev[h] = NULL
<1>1. PICK N, P, r : Ring(Listed, N, P, r) /\ Links(N, P)
  BY DEF Core, Ringed
<1>2. /\ N[h] = NULL /\ P[h] = NULL /\ P[HEAD] # h /\ h \in Nodes
      /\ \A n \in Listed : P[n] # h /\ N[n] # h
      /\ N \in [Nodes -> Nodes \cup {NULL}] /\ P \in [Nodes -> Nodes \cup {NULL}]
  BY <1>1, ConstantFacts DEF Ring, Nodes
<1>3. CASE \A t \in Threads : pc[t] \notin Moving
  BY <1>1, <1>2, <1>3 DEF Links
<1>4. CASE \E t \in Threads : pc[t] \in Moving
  <2>1. PICK t \in Threads : pc[t] \in Moving
    BY <1>4
  <2>2. LinksAt(pc[t], arg[t], N, P) /\ arg[t] # h
    BY <1>1, <2>1 DEF Links
  <2>3. CASE pc[t] \in {"add last", "add head"}
    BY <1>2, <2>2, <2>3 DEF LinksAt
  <2>4. CASE pc[t] \notin {"add last", "add head"}
    <3>1. arg[t] \in Listed
      <4>1. pc[t] \in {"unlink next", "unlink prev", "unlink own"} \/ pc[t] \in Taking
        BY <2>1, <2>4 DEF Moving, UnderLock
      <4>2. pc[t] \in UnderLock => t \in Workers
        BY Places
      <4> QED
        BY <4>1, <4>2, OnList DEF UnderLock
    <3>2. pc[t] \in {"unlink next", "unlink prev", "unlink own", "take next", "take prev", "take own"}
      BY <2>1, <2>4 DEF Moving, UnderLock, Taking
    <3>3. P[arg[t]] # h /\ N[arg[t]] # h
      BY <1>2, <3>1
    <3> QED
      BY <1>2, <2>2, <3>2, <3>3 DEF LinksAt
  <2> QED
    BY <2>3, <2>4
<1> QED
  BY <1>3, <1>4

-----------------------------------------------------------------------------
(* What becomes of the ring. *)

LEMMA RingedStays ==
  ASSUME Core, Listed' = Listed, next' = next, prev' = prev,
         \A u \in Threads : pc[u] \in Moving => pc'[u] = pc[u] /\ arg'[u] = arg[u],
         \A u \in Threads : pc'[u] \in Moving /\ pc[u] \notin Moving =>
            pc'[u] \in {"unlink next", "take next"} /\ \A t \in Threads : pc[t] \notin Moving
  PROVE  Ringed'
<1>1. PICK N, P, r : Ring(Listed, N, P, r) /\ Links(N, P)
  BY DEF Core, Ringed
<1>2. Ring(Listed', N, P, r)
  BY <1>1
<1>3. ASSUME \A t \in Threads : pc'[t] \notin Moving PROVE next' = N /\ prev' = P
  BY <1>1, <1>3 DEF Links
<1>4. ASSUME NEW t \in Threads, pc'[t] \in Moving PROVE LinksAt(pc[t], arg[t], N, P)'
  <2>1. CASE pc[t] \in Moving
    <3>1. LinksAt(pc[t], arg[t], N, P) /\ pc'[t] = pc[t] /\ arg'[t] = arg[t]
      BY <1>1, <2>1 DEF Links
    <3> QED
      BY <3>1 DEF LinksAt
  <2>2. CASE pc[t] \notin Moving
    <3>1. pc'[t] \in {"unlink next", "take next"} /\ next = N /\ prev = P
      BY <1>1, <1>4, <2>2 DEF Links
    <3> QED
      BY <3>1 DEF LinksAt
  <2> QED
    BY <2>1, <2>2
<1>5. Links(N, P)'
  BY <1>3, <1>4 DEF Links
<1>6. Ring(Listed, N, P, r)'
  BY <1>2 DEF Ring
<1> QED
  BY <1>5, <1>6 DEF Ringed

LEMMA RingedMoves ==
  ASSUME Core, NEW t \in Threads, NEW label \in Moving,
         \A u \in Threads : u # t => pc[u] \notin Moving,
         pc' = [pc EXCEPT ![t] = label], arg' = arg, Listed' = Listed,
         NEW N, NEW P, NEW r, Ring(Listed, N, P, r), LinksAt(label, arg[t], N, P)'
  PROVE  Ringed'
<1>1. pc'[t] = label /\ \A u \in Threads : u # t => pc'[u] \notin Moving
  BY DEF Core, TypeOK
<1>2. Links(N, P)'
  <2>1. ASSUME NEW u \in Threads, pc'[u] \in Moving PROVE LinksAt(pc[u], arg[u], N, P)'
    BY <1>1, <2>1
  <2>2. ~ \A u \in Threads : pc'[u] \notin Moving
    BY <1>1
  <2> QED
    BY <2>1, <2>2 DEF Links
<1>3. Ring(Listed, N, P, r)'
  BY DEF Ring
<1> QED
  BY <1>2, <1>3 DEF Ringed

LEMMA RingedEnds ==
  ASSUME Core, NEW t \in Threads, NEW label, label \notin Moving,
         \A u \in Threads : u # t => pc[u] \notin Moving,
         pc' = [pc EXCEPT ![t] = label],
         NEW N, NEW P, NEW r, Ring(Listed', N, P, r), next' = N, prev' = P
  PROVE  Ringed'
<1>1. \A u \in Threads : pc'[u] \notin Moving
  BY DEF Core, TypeOK
<1>2. Links(N, P)'
  BY <1>1 DEF Links
<1>3. Ring(Listed, N, P, r)'
  BY DEF Ring
<1> QED
  BY <1>2, <1>3 DEF Ringed

(* A worker at work keeps its role. *)
LEMMA RolesKept ==
  ASSUME Core, NEW t \in Workers, pc[t] # "done", NEW label, label \notin {"loop"} \cup Taking,
         pc' = [pc EXCEPT ![t] = label]
  PROVE  Roles'
<1>1. pc[MAIN] = "idle" /\ t # MAIN /\ t \in Threads
  BY Places, ConstantFacts DEF Threads
<1>2. pc'[MAIN] = "idle" /\ pc'[t] = label /\ \A u \in Workers : u # t => pc'[u] = pc[u]
  BY <1>1, ConstantFacts DEF Core, TypeOK, Threads
<1>3. \A u \in Workers : pc[u] \notin {"loop"} \cup Taking
  BY DEF Core, Roles
<1>4. \A u \in Workers : pc'[u] \notin {"loop"} \cup Taking
  BY <1>2, <1>3
<1> QED
  BY <1>2, <1>4 DEF Roles

(* So do the hands, if what it takes up is in no others.                   *)
LEMMA HandsKept ==
  ASSUME Core, NEW t \in Workers, pc[t] # "done", NEW label, label \notin {"loop"} \cup Taking,
         pc' = [pc EXCEPT ![t] = label],
         NEW h \in Handles, arg' = [arg EXCEPT ![t] = h], mem'[h] = "filled" \/ label = "idle",
         \A u \in Workers : u # t /\ Busy(u) => arg[u] # h /\ mem'[arg[u]] = "filled"
  PROVE  Hands'
<1>1. t \in Threads /\ \A u \in Workers : u \in Threads
  BY DEF Threads
<1>2. /\ pc'[t] = label /\ arg'[t] = h
      /\ \A u \in Workers : u # t => pc'[u] = pc[u] /\ arg'[u] = arg[u]
  BY <1>1 DEF Core, TypeOK
<1>3. pc'[MAIN] = "idle"
  BY Places, ConstantFacts DEF Core, TypeOK
<1>4. \A u \in Workers : Busy(u)' => arg'[u] \in Handles /\ mem'[arg'[u]] = "filled"
  BY <1>2 DEF Core, Hands, Busy
<1>5. \A u, v \in Workers : Busy(u)' /\ Busy(v)' /\ arg'[u] = arg'[v] => u = v
  <2> SUFFICES ASSUME NEW u \in Workers, NEW v \in Workers,
                      Busy(u)', Busy(v)', arg'[u] = arg'[v], u # v
               PROVE  FALSE
    OBVIOUS
  <2>1. CASE u = t
    BY <1>2, <2>1 DEF Busy
  <2>2. CASE v = t
    BY <1>2, <2>2 DEF Busy
  <2>3. CASE u # t /\ v # t
    BY <1>2, <2>3 DEF Core, Hands, Busy
  <2> QED
    BY <2>1, <2>2, <2>3
<1> QED
  BY <1>3, <1>4, <1>5 DEF Hands, Taking

-----------------------------------------------------------------------------
(* The steps of a worker that leave the list alone. *)

LEMMA InitCore == Init => Core
<1> SUFFICES ASSUME Init PROVE Core
  OBVIOUS
<1>1. TypeOK
  BY ConstantFacts DEF Init, TypeOK, Labels, UnderLock
<1>2. Roles /\ Hands /\ Owners /\ ~wild
  <2>1. /\ \A t \in Threads : pc[t] = "idle"
        /\ \A t \in Workers : t \in Threads /\ owned[t] = {}
        /\ \A h \in Handles : mem[h] = "unused"
    BY ConstantFacts DEF Init, Threads
  <2>2. Roles
    BY <2>1, ConstantFacts DEF Roles, Taking
  <2>3. Hands /\ Owners
    BY <2>1, ConstantFacts DEF Hands, Owners, Busy, Taking
  <2> QED
    BY <2>2, <2>3 DEF Init
<1>3. Ringed
  <2> DEFINE r == [n \in Nodes |-> 0]
  <2>1. Listed = {}
    BY DEF Init, Listed
  <2>2. /\ next = [n \in Nodes |-> IF n = HEAD THEN HEAD ELSE NULL] /\ prev = next
        /\ r \in [Nodes -> Nat]
    BY DEF Init
  <2> HIDE DEF r
  <2>3. Ring(Listed, next, prev, r)
    BY <2>1, <2>2, ConstantFacts DEF Ring, Nodes
  <2>4. \A t \in Threads : pc[t] \notin Moving
    BY DEF Init, Moving, UnderLock, Taking
  <2>5. Links(next, prev)
    BY <2>4 DEF Links
  <2> QED
    BY <2>3, <2>5 DEF Ringed
<1> QED
  BY <1>1, <1>2, <1>3 DEF Core

LEMMA AllocNewStep ==
  ASSUME Core, NEW t \in Workers, NEW h \in Handles, AllocNew(t, h)
  PROVE  Core'
<1>1. /\ pc[t] = "idle" /\ mem[h] = "unused" /\ t \in Threads /\ t # MAIN
      /\ h \in Nodes /\ pc' = [pc EXCEPT ![t] = "add"] /\ arg' = [arg EXCEPT ![t] = h]
      /\ mem' = [mem EXCEPT ![h] = "filled"]
      /\ UNCHANGED <<owned, op_lock, wild>>
      /\ next' = [next EXCEPT ![h] = NULL] /\ prev' = [prev EXCEPT ![h] = NULL]
  BY ConstantFacts DEF AllocNew, Goto, Nodes, Threads
<1>2. pc[MAIN] = "idle"
  BY <1>1, Places
<1>3. h \notin Listed /\ \A u \in Threads : pc[u] \in Moving => arg[u] # h
  BY <1>1, Places DEF Listed, Moving, UnderLock, Taking
<1>4. next' = next /\ prev' = prev
  BY <1>1, <1>3, Unlinked DEF Core, TypeOK
<1>5. TypeOK'
  BY <1>1, <1>4 DEF Core, TypeOK, Labels, UnderLock, Nodes
<1>6. Roles'
  BY <1>1, RolesKept DEF Taking
<1>7. Hands'
  <2>1. mem'[h] = "filled"
    BY <1>1 DEF Core, TypeOK
  <2>2. \A u \in Workers : u # t /\ Busy(u) => arg[u] # h /\ mem'[arg[u]] = "filled"
    BY <1>1 DEF Core, TypeOK, Hands
  <2> QED
    BY <1>1, <2>1, <2>2, HandsKept DEF Taking
<1>8. Owners'
  <2>1. \A x \in Handles : mem'[x] = "filled" => Held(x)'
    BY <1>1, <1>2 DEF Core, TypeOK, Owners, Held, Busy
  <2>2. \A u \in Workers : \A x \in owned'[u] : mem'[x] = "filled"
    BY <1>1, <1>2 DEF Core, TypeOK, Owners
  <2>3. \A u, v \in Workers : Busy(v)' => arg'[v] \notin owned'[u]
    BY <1>1, <1>2 DEF Core, TypeOK, Owners, Busy
  <2> QED
    BY <1>1, <1>2, <2>1, <2>2, <2>3 DEF Core, Owners
<1>9. Listed' = Listed
  BY <1>1 DEF Core, TypeOK, Listed, Off
<1>10. Ringed'
  <2>1. \A u \in Threads : pc[u] \in Moving => pc'[u] = pc[u] /\ arg'[u] = arg[u]
    BY <1>1 DEF Core, TypeOK, Moving, UnderLock, Taking
  <2>2. \A u \in Threads : pc'[u] \in Moving => pc[u] \in Moving
    BY <1>1 DEF Core, TypeOK, Moving, UnderLock, Taking
  <2> QED
    BY <1>4, <1>9, <2>1, <2>2, RingedStays
<1> QED
  BY <1>1, <1>5, <1>6, <1>7, <1>8, <1>10 DEF Core

LEMMA FreeBeginStep ==
  ASSUME Core, NEW t \in Workers, NEW h \in Handles, FreeBegin(t, h)
  PROVE  Core'
<1>1. /\ pc[t] = "idle" /\ h \in owned[t] /\ t \in Threads /\ t # MAIN
      /\ pc' = [pc EXCEPT ![t] = "probe"] /\ arg' = [arg EXCEPT ![t] = h]
      /\ owned' = [owned EXCEPT ![t] = @ \ {h}]
      /\ UNCHANGED <<mem, next, prev, op_lock, wild>>
  BY ConstantFacts DEF FreeBegin, Goto, Threads
<1>2. pc[MAIN] = "idle"
  BY <1>1, Places
<1>3. mem[h] = "filled" /\ \A u \in Workers : Busy(u) => arg[u] # h
  BY <1>1, <1>2 DEF Core, Owners
<1>4. owned'[t] = owned[t] \ {h} /\ \A u \in Workers : u # t => owned'[u] = owned[u]
  BY <1>1 DEF Core, TypeOK
<1>5. TypeOK'
  BY <1>1 DEF Core, TypeOK, Labels, UnderLock, Nodes
<1>6. Roles'
  BY <1>1, RolesKept DEF Taking
<1>7. Hands'
  <2>1. mem'[h] = "filled"
    BY <1>1, <1>3 DEF Core, TypeOK
  <2>2. \A u \in Workers : u # t /\ Busy(u) => arg[u] # h /\ mem'[arg[u]] = "filled"
    BY <1>1, <1>3 DEF Core, TypeOK, Hands
  <2> QED
    BY <1>1, <2>1, <2>2, HandsKept DEF Taking
<1>8. Owners'
  <2>1. \A x \in Handles : mem'[x] = "filled" => Held(x)'
    BY <1>1, <1>2, <1>4 DEF Core, TypeOK, Owners, Held, Busy
  <2>2. \A u \in Workers : \A x \in owned'[u] : mem'[x] = "filled"
    BY <1>1, <1>2, <1>4 DEF Core, TypeOK, Owners
  <2>3. \A u, v \in Workers : Busy(v)' => arg'[v] \notin owned'[u]
    BY <1>1, <1>2, <1>4 DEF Core, TypeOK, Owners, Busy
  <2>4. \A u, v \in Workers : \A x \in owned'[u] : x \in owned'[v] => u = v
    BY <1>1, <1>2, <1>4 DEF Core, Owners
  <2> QED
    BY <2>1, <2>2, <2>3, <2>4 DEF Owners
<1>9. Listed' = Listed
  <2>1. \A u \in Threads : Off(u)' <=> Off(u)
    BY <1>1 DEF Core, TypeOK, Off
  <2>2. \A u \in Threads : Off(u) => arg'[u] = arg[u]
    BY <1>1 DEF Core, TypeOK, Off
  <2> QED
    BY <1>1, <2>1, <2>2 DEF Listed
<1>10. Ringed'
  <2>1. \A u \in Threads : pc[u] \in Moving => pc'[u] = pc[u] /\ arg'[u] = arg[u]
    BY <1>1 DEF Core, TypeOK, Moving, UnderLock, Taking
  <2>2. \A u \in Threads : pc'[u] \in Moving => pc[u] \in Moving
    BY <1>1 DEF Core, TypeOK, Moving, UnderLock, Taking
  <2> QED
    BY <1>1, <1>9, <2>1, <2>2, RingedStays
<1> QED
  BY <1>1, <1>5, <1>6, <1>7, <1>8, <1>10 DEF Core

LEMMA FinishStep ==
  ASSUME Core, NEW t \in Threads, Finish(t)
  PROVE  Core'
<1>1. /\ pc[t] = "idle" /\ t \in Workers /\ t # MAIN
      /\ pc' = [pc EXCEPT ![t] = "done"]
      /\ UNCHANGED <<arg, owned, mem, next, prev, op_lock, wild>>
  BY ConstantFacts DEF Finish, Goto
<1>2. pc[MAIN] = "idle" /\ pc'[MAIN] = "idle"
  BY <1>1, Places, ConstantFacts DEF Core, TypeOK
<1>3. TypeOK'
  BY <1>1 DEF Core, TypeOK, Labels, UnderLock, Nodes
<1>4. Roles'
  BY <1>1, RolesKept DEF Taking
<1>5. \A u \in Threads : (Busy(u)' <=> Busy(u)) /\ (Off(u)' <=> Off(u))
  BY <1>1 DEF Core, TypeOK, Busy, Off
<1>6. Hands'
  BY <1>1, <1>2, <1>5 DEF Core, Hands, Threads, Taking
<1>7. Owners'
  BY <1>1, <1>2, <1>5 DEF Core, Owners, Held, Threads
<1>8. Listed' = Listed
  BY <1>1, <1>5 DEF Listed
<1>9. Ringed'
  <2>1. \A u \in Threads : pc[u] \in Moving => pc'[u] = pc[u] /\ arg'[u] = arg[u]
    BY <1>1 DEF Core, TypeOK, Moving, UnderLock, Taking
  <2>2. \A u \in Threads : pc'[u] \in Moving => pc[u] \in Moving
    BY <1>1 DEF Core, TypeOK, Moving, UnderLock, Taking
  <2> QED
    BY <1>1, <1>8, <2>1, <2>2, RingedStays
<1> QED
  BY <1>1, <1>3, <1>4, <1>6, <1>7, <1>9 DEF Core

LEMMA ProbeStep ==
  ASSUME Core, NEW t \in Threads, Probe(t)
  PROVE  Core'
<1>1. /\ pc[t] = "probe"
      /\ pc' = [pc EXCEPT ![t] = IF arg[t] = HEAD THEN "loop" ELSE "remove"]
      /\ wild' = (wild \/ Wild({arg[t]}))
      /\ UNCHANGED <<arg, owned, mem, next, prev, op_lock>>
  BY DEF Probe, Goto, Touch
<1>2. arg[t] = HEAD \/ (arg[t] \in Handles /\ mem[arg[t]] = "filled")
  BY <1>1, Places
<1>3. ~wild'
  BY <1>1, <1>2, ConstantFacts DEF Core, Wild
<1>4. t # MAIN => t \in Workers /\ arg[t] \in Handles /\ arg[t] # HEAD
  BY <1>1, ConstantFacts DEF Core, Hands, Busy
<1>5. TypeOK'
  BY <1>1 DEF Core, TypeOK, Labels, UnderLock, Nodes
<1>6. Roles'
  <2>1. \A u \in Threads : u # t => pc'[u] = pc[u]
    BY <1>1 DEF Core, TypeOK
  <2>2. pc'[t] \in {"loop", "remove"} /\ (t # MAIN => pc'[t] = "remove")
    BY <1>1, <1>4 DEF Core, TypeOK
  <2>3. \A u \in Workers : u \in Threads
    BY DEF Threads
  <2>4. t \in Workers => pc[MAIN] = "idle"
    BY <1>1, Places
  <2> QED
    BY <1>1, <1>4, <2>1, <2>2, <2>3, <2>4, ConstantFacts DEF Core, Roles, Taking
<1>7. \A u \in Threads : (Busy(u)' <=> Busy(u))
  BY <1>1 DEF Core, TypeOK, Busy
<1>8. Hands'
  BY <1>1, <1>2, <1>7, ConstantFacts DEF Core, TypeOK, Hands, Threads, Taking
<1>9. Owners'
  BY <1>1, <1>7, ConstantFacts DEF Core, TypeOK, Owners, Held, Threads
<1>10. Listed' = Listed
  <2>1. \A u \in Threads : \A h \in Handles : Off(u)' /\ arg'[u] = h <=> Off(u) /\ arg[u] = h
    BY <1>1, <1>4, ConstantFacts DEF Core, TypeOK, Off
  <2> QED
    BY <1>1, <2>1 DEF Listed
<1>11. Ringed'
  <2>1. \A u \in Threads : pc[u] \in Moving => pc'[u] = pc[u] /\ arg'[u] = arg[u]
    BY <1>1 DEF Core, TypeOK, Moving, UnderLock, Taking
  <2>2. \A u \in Threads : pc'[u] \in Moving => pc[u] \in Moving
    BY <1>1 DEF Core, TypeOK, Moving, UnderLock, Taking
  <2> QED
    BY <1>1, <1>10, <2>1, <2>2, RingedStays
<1> QED
  BY <1>3, <1>5, <1>6, <1>8, <1>9, <1>11 DEF Core

-----------------------------------------------------------------------------
(* ListAdd and ListRmv. *)

LEMMA WorkGoesOn ==
  ASSUME Core, NEW t \in Workers, Busy(t),
         NEW label, label \notin {"idle", "done", "loop"} \cup Taking,
         pc' = [pc EXCEPT ![t] = label], arg' = arg, mem' = mem, owned' = owned
  PROVE  Roles' /\ Hands' /\ Owners'
<1>1. /\ pc[t] # "done" /\ t \in Threads /\ arg[t] \in Handles /\ mem[arg[t]] = "filled"
      /\ pc[MAIN] = "idle"
  BY Places DEF Core, Hands, Busy, Threads
<1>2. \A u \in Workers : Busy(u)' <=> Busy(u)
  BY <1>1 DEF Core, TypeOK, Busy, Threads
<1>3. Roles'
  BY <1>1, RolesKept
<1>4. Hands'
  <2>1. arg' = [arg EXCEPT ![t] = arg[t]]
    BY <1>1 DEF Core, TypeOK
  <2>2. \A u \in Workers : u # t /\ Busy(u) => arg[u] # arg[t] /\ mem'[arg[u]] = "filled"
    BY DEF Core, Hands
  <2>3. mem'[arg[t]] = "filled" /\ label \notin {"loop"} \cup Taking
    BY <1>1
  <2> QED
    BY <1>1, <2>1, <2>2, <2>3, HandsKept, ZenonT(60)
<1>5. Owners'
  <2>1. \A h \in Handles : Held(h) => Held(h)'
    BY <1>2 DEF Held
  <2>2. \A u, v \in Workers : Busy(v)' => arg[v] \notin owned[u]
    BY <1>1, <1>2 DEF Core, Owners
  <2> QED
    BY <1>1, <2>1, <2>2 DEF Core, Owners
<1> QED
  BY <1>3, <1>4, <1>5

LEMMA FreeGoesOn ==
  ASSUME Core, pc[MAIN] # "idle",
         NEW label \in {"done", "probe", "loop", "remove", "free"} \cup Taking,
         pc' = [pc EXCEPT ![MAIN] = label],
         label \in {"probe", "remove", "free"} \cup Taking =>
            arg'[MAIN] \in Handles /\ mem'[arg'[MAIN]] = "filled"
  PROVE  Roles' /\ Hands' /\ Owners'
<1>1. pc'[MAIN] = label /\ \A u \in Workers : pc'[u] = "done"
  BY ConstantFacts DEF Core, TypeOK, Roles, Threads
<1>2. label # "idle"
  BY DEF Taking
<1>3. Roles'
  BY <1>1, <1>2 DEF Roles, Taking
<1>4. \A u \in Workers : ~Busy(u)'
  BY <1>1 DEF Busy
<1>5. Hands' /\ Owners'
  BY <1>1, <1>2, <1>4 DEF Hands, Owners
<1> QED
  BY <1>3, <1>5

LEMMA AddOwnStep ==
  ASSUME Core, NEW t \in Threads, AddOwn(t)
  PROVE  Core'
<1> DEFINE a == arg[t]
<1>1. /\ pc[t] = "add" /\ op_lock = NOBODY /\ op_lock' = t
      /\ next' = [next EXCEPT ![a] = HEAD] /\ prev' = [prev EXCEPT ![a] = prev[HEAD]]
      /\ wild' = (wild \/ Wild({a})) /\ pc' = [pc EXCEPT ![t] = "add last"]
      /\ UNCHANGED <<arg, owned, mem>>
  BY DEF AddOwn, MayAdd, Touch, Goto
<1>2. /\ t \in Workers /\ t # MAIN /\ Busy(t) /\ pc[MAIN] = "idle"
      /\ a \in Handles /\ mem[a] = "filled" /\ a \in Nodes
  <2>1. t \in Workers /\ t # MAIN
    BY <1>1, ConstantFacts DEF Core, Roles, Taking
  <2> QED
    BY <1>1, <2>1, Places DEF Busy, Nodes
<1>3. \A u \in Threads : pc[u] \notin Moving
  <2>1. \A u \in Threads : pc[u] \notin UnderLock
    BY <1>1, Places, ConstantFacts
  <2>2. pc[MAIN] \notin Taking
    BY <1>2 DEF Taking
  <2> QED
    BY <2>1, <2>2, Places DEF Moving
<1>4. TypeOK'
  <2>1. \A u \in Threads : op_lock' = u <=> pc'[u] \in UnderLock
    BY <1>1, <1>3 DEF Core, TypeOK, Moving, UnderLock
  <2> QED
    BY <1>1, <2>1, ConstantFacts DEF Core, TypeOK, Labels
<1>5. Roles' /\ Hands' /\ Owners'
  BY <1>1, <1>2, WorkGoesOn DEF Taking
<1>6. ~wild'
  BY <1>1, <1>2, ConstantFacts DEF Core, Wild
<1>7. Listed' = Listed /\ a \notin Listed
  <2>1. \A u \in Threads : Off(u)' <=> Off(u)
    BY <1>1 DEF Core, TypeOK, Off
  <2>2. Off(t)
    BY <1>1 DEF Off
  <2> QED
    BY <1>1, <2>1, <2>2 DEF Listed
<1>8. PICK N, P, r : Ring(Listed, N, P, r) /\ Links(N, P)
  BY DEF Core, Ringed
<1>9. LinksAt("add last", a, N, P)'
  BY <1>1, <1>3, <1>8 DEF Links, LinksAt
<1>10. Ringed'
  <2>1. "add last" \in Moving
    BY DEF Moving, UnderLock
  <2>2. LinksAt("add last", arg[t], N, P)'
    BY <1>1, <1>9 DEF LinksAt
  <2> QED
    BY <1>1, <1>3, <1>7, <1>8, <2>1, <2>2, RingedMoves
<1> QED
  BY <1>4, <1>5, <1>6, <1>10 DEF Core

(* What a thread that is at work on the list finds.                        *)
LEMMA AtWork ==
  ASSUME Core, NEW t \in Threads, pc[t] \in Moving
  PROVE  /\ \A u \in Threads : u # t => pc[u] \notin Moving
         /\ arg[t] \in Handles /\ arg[t] \in Nodes /\ mem[arg[t]] = "filled"
         /\ \E N, P, r : Ring(Listed, N, P, r) /\ LinksAt(pc[t], arg[t], N, P)
<1>1. pc[t] \notin {"idle", "done", "loop", "probe"}
  BY DEF Moving, UnderLock, Taking
<1>2. arg[t] \in Handles /\ arg[t] \in Nodes /\ mem[arg[t]] = "filled"
  BY <1>1, Places DEF Nodes
<1>3. \A u \in Threads : u # t => pc[u] \notin Moving
  BY Places
<1>4. PICK N, P, r : Ring(Listed, N, P, r) /\ Links(N, P)
  BY DEF Core, Ringed
<1>5. LinksAt(pc[t], arg[t], N, P)
  BY <1>4 DEF Links
<1> QED
  BY <1>2, <1>3, <1>4, <1>5

LEMMA AddLastStep ==
  ASSUME Core, NEW t \in Threads, AddLast(t)
  PROVE  Core'
<1> DEFINE a == arg[t]
<1>1. /\ pc[t] = "add last" /\ pc[t] \in Moving /\ pc[t] \in UnderLock
      /\ wild' = (wild \/ Wild({prev[HEAD]})) /\ pc' = [pc EXCEPT ![t] = "add head"]
      /\ next' = IF prev[HEAD] = NULL THEN next ELSE [next EXCEPT ![prev[HEAD]] = a]
      /\ UNCHANGED <<arg, owned, mem, prev, op_lock>>
  BY DEF AddLast, Touch, Goto, Moving, UnderLock
<1>2. /\ t \in Workers /\ Busy(t)
      /\ a \in Handles /\ mem[a] = "filled" /\ a \in Nodes /\ a # HEAD
      /\ \A u \in Threads : u # t => pc[u] \notin Moving
  BY <1>1, Places, AtWork, ConstantFacts DEF Busy
<1>3. PICK N, P, r : Ring(Listed, N, P, r) /\ LinksAt("add last", a, N, P)
  BY <1>1, AtWork
<1>4. /\ next = [N EXCEPT ![a] = HEAD] /\ prev = [P EXCEPT ![a] = P[HEAD]]
      /\ P[HEAD] \in Listed \cup {HEAD} /\ HEAD \in Nodes
      /\ N \in [Nodes -> Nodes \cup {NULL}] /\ P \in [Nodes -> Nodes \cup {NULL}]
  BY <1>3, ConstantFacts DEF LinksAt, Ring
<1>5. prev[HEAD] = P[HEAD] /\ P[HEAD] # NULL /\ P[HEAD] \in Nodes
  BY <1>2, <1>4, ConstantFacts DEF Listed, Nodes
<1>6. next' = [N EXCEPT ![a] = HEAD, ![P[HEAD]] = a] /\ prev' = prev
  BY <1>1, <1>4, <1>5
<1>7. TypeOK'
  <2>1. \A u \in Threads : op_lock' = u <=> pc'[u] \in UnderLock
    BY <1>1 DEF Core, TypeOK, UnderLock
  <2>2. next' \in [Nodes -> Nodes \cup {NULL}]
    BY <1>2, <1>4, <1>6
  <2> QED
    BY <1>1, <2>1, <2>2 DEF Core, TypeOK, Labels
<1>8. Roles' /\ Hands' /\ Owners'
  BY <1>1, <1>2, WorkGoesOn DEF Taking
<1>9. ~wild'
  BY <1>1, <1>4, <1>5 DEF Core, Wild, Listed
<1>10. Listed' = Listed
  <2>1. \A u \in Threads : Off(u)' <=> Off(u)
    BY <1>1 DEF Core, TypeOK, Off
  <2> QED
    BY <1>1, <2>1 DEF Listed
<1>11. Ringed'
  <2>1. "add head" \in Moving
    BY DEF Moving, UnderLock
  <2>2. LinksAt("add head", arg[t], N, P)'
    BY <1>1, <1>4, <1>6 DEF LinksAt
  <2> QED
    BY <1>1, <1>2, <1>3, <1>10, <2>1, <2>2, RingedMoves
<1> QED
  BY <1>7, <1>8, <1>9, <1>11 DEF Core

LEMMA AddHeadStep ==
  ASSUME Core, NEW t \in Threads, AddHead(t)
  PROVE  Core'
<1> DEFINE a == arg[t]
<1>1. /\ pc[t] = "add head" /\ pc[t] \in Moving /\ pc[t] \in UnderLock
      /\ pc' = [pc EXCEPT ![t] = "idle"] /\ prev' = [prev EXCEPT ![HEAD] = a]
      /\ op_lock' = NOBODY /\ owned' = [owned EXCEPT ![t] = @ \cup {a}]
      /\ UNCHANGED <<arg, mem, next, wild>>
  BY DEF AddHead, Goto, Moving, UnderLock
<1>2. /\ t \in Workers /\ Busy(t) /\ t # MAIN /\ pc[t] # "done"
      /\ a \in Handles /\ mem[a] = "filled" /\ a \in Nodes /\ a # HEAD
      /\ \A u \in Threads : u # t => pc[u] \notin Moving
  BY <1>1, Places, AtWork, ConstantFacts DEF Busy
<1>3. pc[MAIN] = "idle" /\ op_lock = t
  BY <1>1, <1>2, Places
<1>4. PICK N, P, r : Ring(Listed, N, P, r) /\ LinksAt("add head", a, N, P)
  BY <1>1, AtWork
<1>5. a \notin Listed
  BY <1>1 DEF Listed, Off
<1>6. /\ next' = [N EXCEPT ![a] = HEAD, ![P[HEAD]] = a]
      /\ prev' = [P EXCEPT ![a] = P[HEAD], ![HEAD] = a]
  <2>1. next = [N EXCEPT ![a] = HEAD, ![P[HEAD]] = a] /\ prev = [P EXCEPT ![a] = P[HEAD]]
    BY <1>4 DEF LinksAt
  <2> QED
    BY <1>1, <1>2, <2>1
<1>7. TypeOK'
  <2>1. \A u \in Threads : op_lock' = u <=> pc'[u] \in UnderLock
    BY <1>1, <1>2, ConstantFacts DEF Core, TypeOK, Moving, UnderLock
  <2>2. prev' \in [Nodes -> Nodes \cup {NULL}]
    BY <1>1, <1>2 DEF Core, TypeOK
  <2> QED
    BY <1>1, <1>2, <2>1, <2>2 DEF Core, TypeOK, Labels
<1>8. Roles'
  BY <1>1, <1>2, RolesKept DEF Taking
<1>9. Hands'
  <2>1. arg' = [arg EXCEPT ![t] = a]
    BY <1>1 DEF Core, TypeOK
  <2>2. \A u \in Workers : u # t /\ Busy(u) => arg[u] # a /\ mem'[arg[u]] = "filled"
    BY <1>1, <1>2 DEF Core, Hands
  <2>3. mem'[a] = "filled" /\ "idle" \notin {"loop"} \cup Taking
    BY <1>1, <1>2 DEF Taking
  <2> HIDE DEF a
  <2> QED
    BY <1>1, <1>2, <2>1, <2>2, <2>3, HandsKept
<1>10. Owners'
  <2>1. /\ \A u \in Threads : u # t => (Busy(u)' <=> Busy(u))
        /\ ~Busy(t)' /\ \A u \in Workers : u \in Threads
        /\ owned'[t] = owned[t] \cup {a} /\ \A u \in Workers : u # t => owned'[u] = owned[u]
    BY <1>1, <1>2 DEF Core, TypeOK, Busy, Threads
  <2>2. \A u \in Workers : a \notin owned[u] /\ (u # t /\ Busy(u) => arg[u] # a)
    BY <1>2, <1>3 DEF Core, Owners, Hands
  <2>3. \A x \in Handles : mem'[x] = "filled" => Held(x)'
    BY <1>1, <1>2, <1>3, <2>1, ZenonT(60) DEF Core, Owners, Held
  <2>4. \A u \in Workers : \A x \in owned'[u] : mem'[x] = "filled"
    BY <1>1, <1>2, <1>3, <2>1 DEF Core, Owners
  <2>5. \A u, v \in Workers : Busy(v)' => arg'[v] \notin owned'[u]
    BY <1>1, <1>2, <1>3, <2>1, <2>2, ZenonT(60) DEF Core, Owners
  <2>6. \A u, v \in Workers : \A x \in owned'[u] : x \in owned'[v] => u = v
    <3> SUFFICES ASSUME NEW u \in Workers, NEW v \in Workers, NEW x \in owned'[u],
                        x \in owned'[v], u # v
                 PROVE  FALSE
      OBVIOUS
    <3>1. x # a
      BY <2>1, <2>2
    <3>2. x \in owned[u] /\ x \in owned[v]
      BY <2>1, <3>1
    <3> QED
      BY <1>3, <3>2 DEF Core, Owners
  <2> QED
    BY <2>3, <2>4, <2>5, <2>6 DEF Owners
<1>11. Listed' = Listed \cup {a}
  <2>1. \A u \in Threads : u # t => (Off(u)' <=> Off(u))
    BY <1>1 DEF Core, TypeOK, Off
  <2>2. ~Off(t)'
    BY <1>1, <1>2 DEF Core, TypeOK, Off
  <2>3. \A u \in Threads : u # t /\ Off(u) => arg[u] # a
    BY <1>1, <1>2, <1>3, ConstantFacts DEF Core, Hands, Busy, Off
  <2>4. \A h \in Handles : h \in Listed' <=> h \in Listed \cup {a}
    BY <1>1, <1>2, <2>1, <2>2, <2>3 DEF Listed
  <2> QED
    BY <1>2, <2>4 DEF Listed
<1>12. Ringed'
  <2> DEFINE N1 == [N EXCEPT ![a] = HEAD, ![P[HEAD]] = a]
             P1 == [P EXCEPT ![a] = P[HEAD], ![HEAD] = a]
             r1 == [r EXCEPT ![a] = r[P[HEAD]] + 1]
  <2>1. Ring(Listed \cup {a}, N1, P1, r1)
    BY <1>2, <1>4, <1>5, RingAdd
  <2>2. Ring(Listed', N1, P1, r1) /\ next' = N1 /\ prev' = P1
    BY <1>6, <1>11, <2>1
  <2>3. "idle" \notin Moving
    BY DEF Moving, UnderLock, Taking
  <2> HIDE DEF N1, P1, r1, a
  <2> QED
    BY <1>1, <1>2, <2>2, <2>3, RingedEnds
<1> QED
  BY <1>1, <1>7, <1>8, <1>9, <1>10, <1>12 DEF Core

Unlinking == {"unlink next", "unlink prev", "unlink own"}

(* Taking a handle off the list goes on, with or without the lock.         *)
LEMMA UnlinkGoesOn ==
  ASSUME Core, NEW t \in Threads, NEW label,
         \/ pc[t] \in Unlinking /\ label \in Unlinking
         \/ pc[t] \in Taking /\ label \in Taking,
         pc' = [pc EXCEPT ![t] = label],
         UNCHANGED <<arg, owned, mem, op_lock>>,
         next' \in [Nodes -> Nodes \cup {NULL}], prev' \in [Nodes -> Nodes \cup {NULL}],
         wild' \in BOOLEAN
  PROVE  TypeOK' /\ Roles' /\ Hands' /\ Owners' /\ Listed' = Listed
<1>1. pc[t] \in Moving /\ label \in Moving /\ label \in Labels
  BY DEF Moving, UnderLock, Unlinking, Taking, Labels
<1>2. TypeOK'
  <2>1. \A u \in Threads : op_lock' = u <=> pc'[u] \in UnderLock
    BY DEF Core, TypeOK, UnderLock, Unlinking, Taking
  <2> QED
    BY <1>1, <2>1 DEF Core, TypeOK
<1>3. Roles' /\ Hands' /\ Owners'
  <2>1. CASE pc[t] \in Unlinking
    <3>1. t \in Workers /\ Busy(t) /\ label \notin {"idle", "done", "loop"} \cup Taking
      BY <2>1, Places DEF Unlinking, UnderLock, Taking, Busy
    <3> QED
      BY <3>1, WorkGoesOn
  <2>2. CASE pc[t] \in Taking
    <3>1. t = MAIN /\ pc[MAIN] # "idle" /\ label \in Taking
      BY <2>2, Places DEF Taking, Unlinking
    <3>2. arg'[MAIN] \in Handles /\ mem'[arg'[MAIN]] = "filled"
      BY <1>1, <3>1, AtWork
    <3> QED
      BY <3>1, <3>2, FreeGoesOn
  <2> QED
    BY <2>1, <2>2
<1>4. Listed' = Listed
  <2>1. \A u \in Threads : Off(u)' <=> Off(u)
    BY DEF Core, TypeOK, Off, Unlinking, Taking
  <2> QED
    BY <2>1 DEF Listed
<1> QED
  BY <1>2, <1>3, <1>4

(* The neighbours a handle has in the ring. *)
LEMMA Neighbours ==
  ASSUME Core, NEW t \in Threads, pc[t] \in Unlinking \cup Taking,
         NEW N, NEW P, NEW r, Ring(Listed, N, P, r)
  PROVE  /\ arg[t] \in Listed /\ arg[t] \in Handles /\ arg[t] \in Nodes /\ arg[t] # HEAD
         /\ P[arg[t]] \in Listed \cup {HEAD} /\ N[arg[t]] \in Listed \cup {HEAD}
         /\ P[arg[t]] \in Nodes /\ N[arg[t]] \in Nodes
         /\ P[arg[t]] # NULL /\ N[arg[t]] # NULL
         /\ P[arg[t]] # arg[t] /\ N[arg[t]] # arg[t]
         /\ N \in [Nodes -> Nodes \cup {NULL}] /\ P \in [Nodes -> Nodes \cup {NULL}]
         /\ ~Wild({arg[t], P[arg[t]]}) /\ ~Wild({arg[t], N[arg[t]]}) /\ ~Wild({arg[t]})
<1>1. arg[t] \in Listed
  <2>1. pc[t] \in Unlinking => t \in Workers
    BY Places DEF Unlinking, UnderLock
  <2> QED
    BY <2>1, OnList DEF Unlinking
<1>2. /\ Listed \subseteq Handles /\ \A h \in Listed : mem[h] = "filled"
  BY DEF Listed
<1>3. /\ P[arg[t]] \in Listed \cup {HEAD} /\ N[arg[t]] \in Listed \cup {HEAD}
      /\ N \in [Nodes -> Nodes \cup {NULL}] /\ P \in [Nodes -> Nodes \cup {NULL}]
      /\ P[N[arg[t]]] = arg[t] /\ r[P[arg[t]]] < r[arg[t]] /\ r \in [Nodes -> Nat]
  BY <1>1 DEF Ring
<1>4. /\ arg[t] \in Handles /\ arg[t] \in Nodes /\ arg[t] # HEAD
      /\ P[arg[t]] \in Nodes /\ N[arg[t]] \in Nodes
      /\ P[arg[t]] # NULL /\ N[arg[t]] # NULL
  BY <1>1, <1>2, <1>3, ConstantFacts DEF Nodes
<1>5. P[arg[t]] # arg[t] /\ N[arg[t]] # arg[t]
  <2>1. P[arg[t]] # arg[t]
    BY <1>3, <1>4
  <2> QED
    BY <1>3, <2>1
<1>6. ~Wild({arg[t], P[arg[t]]}) /\ ~Wild({arg[t], N[arg[t]]}) /\ ~Wild({arg[t]})
  <2>1. \A n \in Listed \cup {HEAD} : n # HEAD => n # NULL /\ mem[n] = "filled"
    BY <1>2, ConstantFacts
  <2> QED
    BY <1>1, <1>3, <2>1 DEF Wild
<1> QED
  BY <1>1, <1>3, <1>4, <1>5, <1>6

LEMMA UnlinkNextStep ==
  ASSUME Core, NEW t \in Threads, UnlinkNext(t)
  PROVE  Core'
<1> DEFINE a == arg[t]
<1> PICK label : label = IF pc[t] = "unlink next" THEN "unlink prev" ELSE "take prev"
  OBVIOUS
<1>1. /\ pc[t] \in {"unlink next", "take next"}
      /\ wild' = (wild \/ Wild({a, prev[a]})) /\ pc' = [pc EXCEPT ![t] = label]
      /\ next' = IF prev[a] = NULL THEN next ELSE [next EXCEPT ![prev[a]] = next[a]]
      /\ UNCHANGED <<arg, owned, mem, prev, op_lock>>
  BY DEF UnlinkNext, Touch, Goto
<1>2. /\ pc[t] \in Unlinking \cup Taking /\ pc[t] \in Moving /\ label \in Moving
      /\ (pc[t] \in Unlinking /\ label \in Unlinking) \/ (pc[t] \in Taking /\ label \in Taking)
      /\ label \in {"unlink prev", "take prev"}
  BY <1>1 DEF Unlinking, Taking, Moving, UnderLock
<1>3. PICK N, P, r : Ring(Listed, N, P, r) /\ LinksAt(pc[t], a, N, P)
  BY <1>2, AtWork
<1>4. /\ P[a] \in Nodes /\ P[a] # NULL /\ N[a] \in Nodes
      /\ N \in [Nodes -> Nodes \cup {NULL}] /\ P \in [Nodes -> Nodes \cup {NULL}]
      /\ ~Wild({a, P[a]})
  BY <1>2, <1>3, Neighbours
<1>5. next = N /\ prev = P
  BY <1>1, <1>3 DEF LinksAt
<1>6. next' = [N EXCEPT ![P[a]] = N[a]] /\ prev' = P /\ ~wild'
  BY <1>1, <1>4, <1>5 DEF Core
<1>7. /\ next' \in [Nodes -> Nodes \cup {NULL}] /\ prev' \in [Nodes -> Nodes \cup {NULL}]
      /\ wild' \in BOOLEAN
  <2>1. next' \in [Nodes -> Nodes \cup {NULL}] /\ prev' \in [Nodes -> Nodes \cup {NULL}]
    BY <1>4, <1>6
  <2>2. wild' \in BOOLEAN
    BY <1>1
  <2> QED
    BY <2>1, <2>2
<1>8. TypeOK' /\ Roles' /\ Hands' /\ Owners' /\ Listed' = Listed
  BY <1>1, <1>2, <1>7, UnlinkGoesOn
<1>9. LinksAt(label, arg[t], N, P)'
  <2>1. arg'[t] = a
    BY <1>1
  <2>2. next' = [N EXCEPT ![P[a]] = N[a]] /\ prev' = P
    BY <1>6
  <2> QED
    BY <1>2, <2>1, <2>2 DEF LinksAt
<1>10. Ringed'
  <2>1. \A u \in Threads : u # t => pc[u] \notin Moving
    BY <1>2, AtWork
  <2> HIDE DEF a
  <2> QED
    BY <1>1, <1>2, <1>3, <1>8, <1>9, <2>1, RingedMoves
<1> QED
  BY <1>6, <1>8, <1>10 DEF Core

LEMMA UnlinkPrevStep ==
  ASSUME Core, NEW t \in Threads, UnlinkPrev(t)
  PROVE  Core'
<1> DEFINE a == arg[t]
<1> PICK label : label = IF pc[t] = "unlink prev" THEN "unlink own" ELSE "take own"
  OBVIOUS
<1>1. /\ pc[t] \in {"unlink prev", "take prev"}
      /\ wild' = (wild \/ Wild({a, next[a]})) /\ pc' = [pc EXCEPT ![t] = label]
      /\ prev' = IF next[a] = NULL THEN prev ELSE [prev EXCEPT ![next[a]] = prev[a]]
      /\ UNCHANGED <<arg, owned, mem, next, op_lock>>
  BY DEF UnlinkPrev, Touch, Goto
<1>2. /\ pc[t] \in Unlinking \cup Taking /\ pc[t] \in Moving /\ label \in Moving
      /\ (pc[t] \in Unlinking /\ label \in Unlinking) \/ (pc[t] \in Taking /\ label \in Taking)
      /\ label \in {"unlink own", "take own"}
  BY <1>1 DEF Unlinking, Taking, Moving, UnderLock
<1>3. PICK N, P, r : Ring(Listed, N, P, r) /\ LinksAt(pc[t], a, N, P)
  BY <1>2, AtWork
<1>4. /\ P[a] \in Nodes /\ N[a] \in Nodes /\ N[a] # NULL /\ P[a] # a /\ a \in Nodes
      /\ N \in [Nodes -> Nodes \cup {NULL}] /\ P \in [Nodes -> Nodes \cup {NULL}]
      /\ ~Wild({a, N[a]})
  BY <1>2, <1>3, Neighbours
<1>5. next = [N EXCEPT ![P[a]] = N[a]] /\ prev = P /\ next[a] = N[a]
  <2>1. next = [N EXCEPT ![P[a]] = N[a]] /\ prev = P
    BY <1>1, <1>3 DEF LinksAt
  <2> QED
    BY <1>4, <2>1
<1>6. /\ next' = [N EXCEPT ![P[a]] = N[a]] /\ prev' = [P EXCEPT ![N[a]] = P[a]]
      /\ ~wild'
  BY <1>1, <1>4, <1>5 DEF Core
<1>7. /\ next' \in [Nodes -> Nodes \cup {NULL}] /\ prev' \in [Nodes -> Nodes \cup {NULL}]
      /\ wild' \in BOOLEAN
  <2>1. next' \in [Nodes -> Nodes \cup {NULL}] /\ prev' \in [Nodes -> Nodes \cup {NULL}]
    BY <1>4, <1>6
  <2>2. wild' \in BOOLEAN
    BY <1>1
  <2> QED
    BY <2>1, <2>2
<1>8. TypeOK' /\ Roles' /\ Hands' /\ Owners' /\ Listed' = Listed
  BY <1>1, <1>2, <1>7, UnlinkGoesOn
<1>9. LinksAt(label, arg[t], N, P)'
  <2>1. arg'[t] = a
    BY <1>1
  <2>2. next' = [N EXCEPT ![P[a]] = N[a]] /\ prev' = [P EXCEPT ![N[a]] = P[a]]
    BY <1>6
  <2> QED
    BY <1>2, <2>1, <2>2 DEF LinksAt
<1>10. Ringed'
  <2>1. \A u \in Threads : u # t => pc[u] \notin Moving
    BY <1>2, AtWork
  <2> HIDE DEF a
  <2> QED
    BY <1>1, <1>2, <1>3, <1>8, <1>9, <2>1, RingedMoves
<1> QED
  BY <1>6, <1>8, <1>10 DEF Core

LEMMA UnlinkOwnStep ==
  ASSUME Core, NEW t \in Threads, UnlinkOwn(t)
  PROVE  Core'
<1> DEFINE a == arg[t]
<1> PICK label : label = IF pc[t] = "unlink own" THEN "free" ELSE "probe"
  OBVIOUS
<1>1. /\ pc[t] \in {"unlink own", "take own"}
      /\ wild' = (wild \/ Wild({a})) /\ pc' = [pc EXCEPT ![t] = label]
      /\ next' = [next EXCEPT ![a] = NULL] /\ prev' = [prev EXCEPT ![a] = NULL]
      /\ op_lock' = IF pc[t] = "unlink own" THEN NOBODY ELSE op_lock
      /\ UNCHANGED <<arg, owned, mem>>
  BY DEF UnlinkOwn, Touch, Goto
<1>2. /\ pc[t] \in Unlinking \cup Taking /\ pc[t] \in Moving /\ label \notin Moving
      /\ pc[t] = "unlink own" => pc[t] \in UnderLock /\ pc[t] \notin Taking
      /\ pc[t] = "take own" => pc[t] \in Taking
      /\ label \in {"free", "probe"}
  BY <1>1 DEF Unlinking, Taking, Moving, UnderLock
<1>3. PICK N, P, r : Ring(Listed, N, P, r) /\ LinksAt(pc[t], a, N, P)
  BY <1>2, AtWork
<1>4. /\ P[a] \in Nodes /\ N[a] \in Nodes /\ P[a] # a /\ N[a] # a /\ a \in Nodes
      /\ N \in [Nodes -> Nodes \cup {NULL}] /\ P \in [Nodes -> Nodes \cup {NULL}]
      /\ ~Wild({a}) /\ a \in Listed
  BY <1>2, <1>3, Neighbours
<1>5. next = [N EXCEPT ![P[a]] = N[a]] /\ prev = [P EXCEPT ![N[a]] = P[a]]
  BY <1>1, <1>3 DEF LinksAt
<1>6. /\ next' = [N EXCEPT ![P[a]] = N[a], ![a] = NULL]
      /\ prev' = [P EXCEPT ![N[a]] = P[a], ![a] = NULL]
      /\ ~wild'
  BY <1>1, <1>4, <1>5 DEF Core
<1>7. \A u \in Threads : u # t => pc[u] \notin Moving
  BY <1>2, AtWork
<1>8. TypeOK'
  <2>1. next' \in [Nodes -> Nodes \cup {NULL}] /\ prev' \in [Nodes -> Nodes \cup {NULL}]
    BY <1>1, <1>4 DEF Core, TypeOK
  <2>2. wild' \in BOOLEAN
    BY <1>1
  <2>3. \A u \in Threads : op_lock' = u <=> pc'[u] \in UnderLock
    <3>1. pc'[t] \notin UnderLock /\ \A u \in Threads : u # t => pc'[u] = pc[u]
      BY <1>1, <1>2 DEF Core, TypeOK, Moving
    <3>2. \A u \in Threads : pc'[u] \notin UnderLock
      BY <1>7, <3>1 DEF Moving
    <3>3. \A u \in Threads : op_lock' # u
      <4>1. CASE pc[t] = "unlink own"
        BY <1>1, <4>1, ConstantFacts
      <4>2. CASE pc[t] = "take own"
        <5>1. \A u \in Threads : pc[u] \notin UnderLock
          BY <1>7, <4>2 DEF Moving, UnderLock
        <5> QED
          BY <1>1, <4>2, <5>1 DEF Core, TypeOK
      <4> QED
        BY <1>1, <4>1, <4>2
    <3> QED
      BY <3>2, <3>3
  <2>4. pc' \in [Threads -> Labels]
    BY <1>1, <1>2 DEF Core, TypeOK, Labels
  <2>5. op_lock' \in Threads \cup {NOBODY}
    BY <1>1 DEF Core, TypeOK
  <2> QED
    BY <1>1, <2>1, <2>2, <2>3, <2>4, <2>5 DEF Core, TypeOK
<1>9. Roles' /\ Hands' /\ Owners'
  <2>1. CASE pc[t] = "unlink own"
    <3>1. t \in Workers /\ Busy(t) /\ label \notin {"idle", "done", "loop"} \cup Taking
      BY <1>2, <2>1, Places DEF Taking, Busy
    <3> QED
      BY <1>1, <3>1, WorkGoesOn
  <2>2. CASE pc[t] = "take own"
    <3>1. t = MAIN /\ pc[MAIN] # "idle" /\ label = "probe"
      BY <1>2, <2>2, Places DEF Taking
    <3>2. arg'[MAIN] \in Handles /\ mem'[arg'[MAIN]] = "filled"
      BY <1>1, <1>2, <3>1, AtWork
    <3> QED
      BY <1>1, <3>1, <3>2, FreeGoesOn
  <2> QED
    BY <1>1, <2>1, <2>2
<1>10. Listed' = Listed \ {a}
  <2>1. \A u \in Threads : u # t => (Off(u)' <=> Off(u))
    BY <1>1 DEF Core, TypeOK, Off
  <2>2. ~Off(t) /\ Off(t)'
    <3>1. pc[t] = "take own" => t = MAIN
      BY <1>2, Places
    <3> QED
      BY <1>1, <3>1 DEF Core, TypeOK, Off
  <2>3. \A h \in Handles : h \in Listed' <=> h \in Listed /\ h # a
    BY <1>1, <2>1, <2>2 DEF Listed
  <2> QED
    BY <2>3, ZenonT(60) DEF Listed
<1>11. Ringed'
  <2> DEFINE N1 == [N EXCEPT ![P[a]] = N[a], ![a] = NULL]
             P1 == [P EXCEPT ![N[a]] = P[a], ![a] = NULL]
  <2>1. Ring(Listed \ {a}, N1, P1, r)
    BY <1>3, <1>4, RingRemove
  <2>2. Ring(Listed', N1, P1, r) /\ next' = N1 /\ prev' = P1
    BY <1>6, <1>10, <2>1
  <2> HIDE DEF N1, P1, a
  <2> QED
    BY <1>1, <1>2, <1>7, <2>2, RingedEnds
<1> QED
  BY <1>6, <1>8, <1>9, <1>11 DEF Core

-----------------------------------------------------------------------------
(* KCIHandleFree around the list, and the free of the environment.         *)

LEMMA RemoveLockStep ==
  ASSUME Core, NEW t \in Threads, RemoveLock(t)
  PROVE  Core'
<1> DEFINE a == arg[t]
<1>1. /\ pc[t] = "remove" /\ op_lock = NOBODY /\ wild' = (wild \/ Wild({a}))
      /\ IF next[a] # NULL THEN op_lock' = t /\ pc' = [pc EXCEPT ![t] = "unlink next"]
                           ELSE op_lock' = op_lock /\ pc' = [pc EXCEPT ![t] = "free"]
      /\ UNCHANGED <<arg, owned, mem, next, prev>>
  BY DEF RemoveLock, Touch, Goto, InList
<1>2. a \in Handles /\ mem[a] = "filled" /\ a # HEAD
  BY <1>1, Places, ConstantFacts
<1>3. \A u \in Threads : pc[u] \notin Moving
  <2>1. \A u \in Threads : pc[u] \notin UnderLock
    BY <1>1, Places, ConstantFacts
  <2>2. pc[MAIN] \notin Taking
    <3>1. CASE t = MAIN
      BY <1>1, <3>1 DEF Taking
    <3>2. CASE t # MAIN
      BY <1>1, <3>2, Places, ConstantFacts DEF Taking
    <3> QED
      BY <3>1, <3>2
  <2> QED
    BY <2>1, <2>2, Places DEF Moving
<1>4. /\ t # MAIN => /\ t \in Workers /\ Busy(t) /\ op_lock' = t
                     /\ pc' = [pc EXCEPT ![t] = "unlink next"]
      /\ t = MAIN => op_lock' = NOBODY /\ pc' = [pc EXCEPT ![t] = "free"]
  <2>1. CASE t # MAIN
    <3>1. t \in Workers /\ Busy(t) /\ a \in Listed
      BY <1>1, <2>1, OnList, ConstantFacts DEF Busy
    <3>2. PICK N, P, r : Ring(Listed, N, P, r) /\ Links(N, P)
      BY DEF Core, Ringed
    <3>3. next = N /\ N[a] \in Listed \cup {HEAD}
      BY <1>3, <3>1, <3>2 DEF Links, Ring
    <3>4. next[a] # NULL
      BY <3>3, ConstantFacts DEF Listed
    <3> QED
      BY <1>1, <2>1, <3>1, <3>4
  <2>2. CASE t = MAIN
    <3>1. a \notin Listed
      BY <1>1, <2>2 DEF Listed, Off
    <3>2. next[a] = NULL
      BY <1>2, <1>3, <3>1, Unlinked
    <3> QED
      BY <1>1, <2>2, <3>2
  <2> QED
    BY <2>1, <2>2
<1>5. ~wild'
  BY <1>1, <1>2, ConstantFacts DEF Core, Wild
<1>6. TypeOK'
  <2>1. wild' \in BOOLEAN
    BY <1>1
  <2>2. \A u \in Threads : op_lock' = u <=> pc'[u] \in UnderLock
    BY <1>3, <1>4, ConstantFacts, ZenonT(60) DEF Core, TypeOK, Moving, UnderLock
  <2> QED
    BY <1>1, <1>4, <2>1, <2>2 DEF Core, TypeOK, Labels
<1>7. Roles' /\ Hands' /\ Owners'
  <2>1. CASE t # MAIN
    BY <1>1, <1>4, <2>1, WorkGoesOn DEF Taking
  <2>2. CASE t = MAIN
    <3>1. arg'[MAIN] \in Handles /\ mem'[arg'[MAIN]] = "filled" /\ pc[MAIN] # "idle"
      BY <1>1, <1>2, <2>2
    <3> QED
      BY <1>4, <2>2, <3>1, FreeGoesOn
  <2> QED
    BY <2>1, <2>2
<1>8. Listed' = Listed
  <2>1. \A u \in Threads : Off(u)' <=> Off(u)
    BY <1>1, <1>4 DEF Core, TypeOK, Off
  <2> QED
    BY <1>1, <2>1 DEF Listed
<1>9. Ringed'
  <2>1. \A u \in Threads : pc'[u] \in Moving => pc'[u] \in {"unlink next", "take next"}
    BY <1>3, <1>4 DEF Core, TypeOK, Moving, UnderLock, Taking
  <2> QED
    BY <1>1, <1>3, <1>8, <2>1, RingedStays
<1> QED
  BY <1>5, <1>6, <1>7, <1>9 DEF Core

LEMMA FreeMemStep ==
  ASSUME Core, NEW t \in Threads, FreeMem(t)
  PROVE  Core'
<1> DEFINE a == arg[t]
<1> PICK label : label = IF t = MAIN THEN "loop" ELSE "idle"
  OBVIOUS
<1>1. /\ pc[t] = "free" /\ wild' = (wild \/ Wild({a})) /\ pc' = [pc EXCEPT ![t] = label]
      /\ mem' = [mem EXCEPT ![a] = "freed"]
      /\ UNCHANGED <<arg, owned, next, prev, op_lock>>
  BY DEF FreeMem, Touch, Goto
<1>2. a \in Handles /\ mem[a] = "filled" /\ a # HEAD
  BY <1>1, Places, ConstantFacts
<1>3. ~wild'
  BY <1>1, <1>2, ConstantFacts DEF Core, Wild
<1>4. TypeOK'
  <2>1. wild' \in BOOLEAN
    BY <1>1
  <2>2. \A u \in Threads : op_lock' = u <=> pc'[u] \in UnderLock
    BY <1>1, ConstantFacts DEF Core, TypeOK, UnderLock
  <2> QED
    BY <1>1, <2>1, <2>2 DEF Core, TypeOK, Labels
<1>5. mem'[a] = "freed" /\ \A h \in Handles : h # a => mem'[h] = mem[h]
  BY <1>1, <1>2 DEF Core, TypeOK
<1>6. Roles' /\ Hands' /\ Owners'
  <2>1. CASE t # MAIN
    <3>1. t \in Workers /\ Busy(t) /\ pc[t] # "done" /\ pc[MAIN] = "idle" /\ label = "idle"
      BY <1>1, <2>1, Places, ConstantFacts DEF Busy
    <3>2. Roles'
      BY <1>1, <3>1, RolesKept DEF Taking
    <3>3. \A u \in Workers : u # t /\ Busy(u) => arg[u] # a /\ mem'[arg[u]] = "filled"
      BY <1>5, <3>1 DEF Core, Hands
    <3>4. Hands'
      <4>1. arg' = [arg EXCEPT ![t] = a] /\ label \notin {"loop"} \cup Taking
        BY <1>1, <3>1 DEF Core, TypeOK, Taking
      <4> HIDE DEF a
      <4> QED
        BY <1>1, <1>2, <3>1, <3>3, <4>1, HandsKept
    <3>5. Owners'
      <4>1. /\ \A u \in Threads : u # t => (Busy(u)' <=> Busy(u))
            /\ ~Busy(t)' /\ \A u \in Workers : u \in Threads
        BY <1>1, <3>1 DEF Core, TypeOK, Busy, Threads
      <4>2. \A u \in Workers : a \notin owned[u]
        BY <3>1 DEF Core, Owners
      <4>3. \A x \in Handles : mem'[x] = "filled" => Held(x)'
        <5> SUFFICES ASSUME NEW x \in Handles, mem'[x] = "filled" PROVE Held(x)'
          OBVIOUS
        <5>1. x # a /\ mem[x] = "filled"
          BY <1>5
        <5>2. PICK u \in Workers : x \in owned[u] \/ (Busy(u) /\ arg[u] = x)
          BY <3>1, <5>1 DEF Core, Owners, Held
        <5>3. x \in owned'[u] \/ (Busy(u)' /\ arg'[u] = x)
          BY <1>1, <4>1, <5>1, <5>2
        <5> QED
          BY <5>3 DEF Held
      <4>4. \A u \in Workers : \A x \in owned'[u] : mem'[x] = "filled"
        BY <1>1, <1>5, <3>1, <4>2 DEF Core, TypeOK, Owners
      <4>5. \A u, v \in Workers : Busy(v)' => arg'[v] \notin owned'[u]
        BY <1>1, <3>1, <4>1 DEF Core, Owners
      <4> QED
        BY <1>1, <3>1, <4>3, <4>4, <4>5 DEF Core, Owners
    <3> QED
      BY <3>2, <3>4, <3>5
  <2>2. CASE t = MAIN
    <3>1. pc[MAIN] # "idle" /\ label = "loop"
      BY <1>1, <2>2
    <3> QED
      BY <1>1, <2>2, <3>1, FreeGoesOn DEF Taking
  <2> QED
    BY <2>1, <2>2
<1>7. Listed' = Listed
  <2>1. \A u \in Threads : u # t => (Off(u)' <=> Off(u))
    BY <1>1 DEF Core, TypeOK, Off
  <2>2. Off(t) /\ ~Off(t)'
    BY <1>1, ConstantFacts DEF Core, TypeOK, Off
  <2>3. \A h \in Handles : h \in Listed' <=> h \in Listed
    BY <1>1, <1>5, <2>1, <2>2 DEF Listed
  <2> QED
    BY <2>3 DEF Listed
<1>8. Ringed'
  <2>1. \A u \in Threads : pc[u] \in Moving => pc'[u] = pc[u] /\ arg'[u] = arg[u]
    BY <1>1 DEF Core, TypeOK, Moving, UnderLock, Taking
  <2>2. \A u \in Threads : pc'[u] \in Moving => pc[u] \in Moving
    BY <1>1 DEF Core, TypeOK, Moving, UnderLock, Taking
  <2> QED
    BY <1>1, <1>7, <2>1, <2>2, RingedStays
<1> QED
  BY <1>3, <1>4, <1>6, <1>8 DEF Core

LEMMA EnvFreeBeginStep ==
  ASSUME Core, Calm', EnvFreeBegin
  PROVE  Core'
<1>1. /\ pc[MAIN] = "idle" /\ pc' = [pc EXCEPT ![MAIN] = "probe"]
      /\ arg' = [arg EXCEPT ![MAIN] = HEAD]
      /\ UNCHANGED <<owned, mem, next, prev, op_lock, wild>>
  BY DEF EnvFreeBegin, Goto
<1>2. pc'[MAIN] = "probe" /\ arg'[MAIN] = HEAD
  BY <1>1, ConstantFacts DEF Core, TypeOK
<1>3. \A u \in Workers : pc[u] = "done" /\ pc'[u] = "done"
  <2>1. OwnJoin
    BY <1>2 DEF Calm
  <2>2. \A u \in Workers : pc[u] = "done"
    BY <2>1 DEF EnvFreeBegin, Joined
  <2> QED
    BY <1>1, <2>2, ConstantFacts DEF Core, TypeOK, Threads
<1>4. TypeOK'
  BY <1>1, ConstantFacts DEF Core, TypeOK, Labels, UnderLock
<1>5. Roles' /\ Hands' /\ Owners'
  BY <1>2, <1>3 DEF Roles, Hands, Owners, Busy, Taking
<1>6. Listed' = Listed
  <2>1. \A u \in Threads : \A h \in Handles : Off(u)' /\ arg'[u] = h <=> Off(u) /\ arg[u] = h
    BY <1>1, <1>2, <1>3, ConstantFacts DEF Core, TypeOK, Off
  <2> QED
    BY <1>1, <2>1 DEF Listed
<1>7. Ringed'
  <2>1. \A u \in Threads : pc[u] \in Moving => pc'[u] = pc[u] /\ arg'[u] = arg[u]
    BY <1>1 DEF Core, TypeOK, Moving, UnderLock, Taking
  <2>2. \A u \in Threads : pc'[u] \in Moving => pc[u] \in Moving
    BY <1>1 DEF Core, TypeOK, Moving, UnderLock, Taking
  <2> QED
    BY <1>1, <1>6, <2>1, <2>2, RingedStays
<1> QED
  BY <1>1, <1>4, <1>5, <1>7 DEF Core

(* While MAIN looks for the next handle, the pointers are the ring.        *)
LEMMA AtLoop ==
  ASSUME Core, pc[MAIN] = "loop"
  PROVE  /\ \A u \in Workers : pc[u] = "done"
         /\ \A u \in Threads : pc[u] \notin Moving /\ ~Off(u)
         /\ \E r : Ring(Listed, next, prev, r)
         /\ Listed = {h \in Handles : mem[h] = "filled"}
<1>1. \A u \in Workers : pc[u] = "done"
  BY DEF Core, Roles
<1>2. \A u \in Threads : pc[u] \notin Moving /\ ~Off(u)
  BY <1>1, ConstantFacts DEF Moving, UnderLock, Taking, Off
<1>3. \E r : Ring(Listed, next, prev, r)
  <2>1. PICK N, P, r : Ring(Listed, N, P, r) /\ Links(N, P)
    BY DEF Core, Ringed
  <2>2. next = N /\ prev = P
    BY <1>2, <2>1 DEF Links
  <2> QED
    BY <2>1, <2>2
<1>4. Listed = {h \in Handles : mem[h] = "filled"}
  BY <1>2 DEF Listed
<1> QED
  BY <1>1, <1>2, <1>3, <1>4

LEMMA TakeFirstStep ==
  ASSUME Core, TakeFirst
  PROVE  Core'
<1> DEFINE a == next[HEAD]
<1>1. /\ pc[MAIN] = "loop" /\ a # HEAD /\ wild' = (wild \/ Wild({a}))
      /\ arg' = [arg EXCEPT ![MAIN] = a]
      /\ pc' = [pc EXCEPT ![MAIN] = IF next[a] # NULL THEN "take next" ELSE "probe"]
      /\ UNCHANGED <<owned, mem, next, prev, op_lock>>
  BY DEF TakeFirst, Touch, Goto, InList
<1>2. /\ a \in Listed /\ a \in Handles /\ a \in Nodes /\ mem[a] = "filled" /\ next[a] # NULL
  <2>1. PICK r : Ring(Listed, next, prev, r)
    BY <1>1, AtLoop
  <2>2. a \in Listed
    BY <1>1, <2>1 DEF Ring
  <2>3. next[a] \in Listed \cup {HEAD} /\ Listed \subseteq Handles
    BY <2>1, <2>2 DEF Ring
  <2> QED
    BY <2>2, <2>3, ConstantFacts DEF Listed, Nodes
<1>3. pc' = [pc EXCEPT ![MAIN] = "take next"]
  BY <1>1, <1>2
<1>4. pc'[MAIN] = "take next" /\ arg'[MAIN] = a
  BY <1>1, <1>3, ConstantFacts DEF Core, TypeOK
<1>5. ~wild'
  BY <1>1, <1>2, ConstantFacts DEF Core, Wild
<1>6. TypeOK'
  <2>1. wild' \in BOOLEAN
    BY <1>1
  <2>2. \A u \in Threads : op_lock' = u <=> pc'[u] \in UnderLock
    BY <1>1, <1>3, ConstantFacts DEF Core, TypeOK, UnderLock
  <2>3. arg' \in [Threads -> Nodes \cup {NULL}]
    BY <1>1, <1>2 DEF Core, TypeOK
  <2> QED
    BY <1>1, <1>3, <2>1, <2>2, <2>3 DEF Core, TypeOK, Labels
<1>7. Roles' /\ Hands' /\ Owners'
  <2>1. "take next" \in Taking /\ pc[MAIN] # "idle"
    BY <1>1 DEF Taking
  <2>2. arg'[MAIN] \in Handles /\ mem'[arg'[MAIN]] = "filled"
    BY <1>1, <1>2, <1>4
  <2> QED
    BY <1>3, <2>1, <2>2, FreeGoesOn
<1>8. Listed' = Listed
  <2>1. \A u \in Threads : ~Off(u) /\ ~Off(u)'
    BY <1>1, <1>3, AtLoop, ConstantFacts DEF Core, TypeOK, Off
  <2> QED
    BY <1>1, <2>1 DEF Listed
<1>9. Ringed'
  <2>1. \A u \in Threads : pc[u] \notin Moving
    BY <1>1, AtLoop
  <2>2. \A u \in Threads : pc'[u] \in Moving => pc'[u] \in {"unlink next", "take next"}
    BY <1>3, <2>1, ConstantFacts DEF Core, TypeOK
  <2> QED
    BY <1>1, <1>8, <2>1, <2>2, RingedStays
<1> QED
  BY <1>5, <1>6, <1>7, <1>9 DEF Core

(* When RmvFirst finds nothing, there is nothing. *)
LEMMA NothingLeft ==
  ASSUME Core, ResetMem
  PROVE  \A h \in Handles : mem[h] # "filled"
<1>1. pc[MAIN] = "loop" /\ next[HEAD] = HEAD
  BY DEF ResetMem
<1>2. PICK r : Ring(Listed, next, prev, r)
  BY <1>1, AtLoop
<1>3. Listed = {}
  BY <1>1, <1>2, RingEmpty
<1> QED
  BY <1>1, <1>3, AtLoop

LEMMA ResetMemStep ==
  ASSUME Core, ResetMem
  PROVE  Core'
<1>1. /\ pc[MAIN] = "loop" /\ pc' = [pc EXCEPT ![MAIN] = "done"]
      /\ mem' = [h \in Handles |-> IF mem[h] = "filled" THEN "freed" ELSE mem[h]]
      /\ UNCHANGED <<arg, owned, next, prev, op_lock, wild>>
  BY DEF ResetMem, Goto
<1>2. mem' = mem
  BY <1>1, NothingLeft DEF Core, TypeOK
<1>3. TypeOK'
  BY <1>1, <1>2, ConstantFacts DEF Core, TypeOK, Labels, UnderLock
<1>4. Roles' /\ Hands' /\ Owners'
  BY <1>1, FreeGoesOn DEF Taking
<1>5. Listed' = Listed
  <2>1. \A u \in Threads : ~Off(u) /\ ~Off(u)'
    BY <1>1, AtLoop, ConstantFacts DEF Core, TypeOK, Off
  <2> QED
    BY <1>2, <2>1 DEF Listed
<1>6. Ringed'
  <2>1. \A u \in Threads : pc[u] \notin Moving /\ pc'[u] \notin Moving
    BY <1>1, AtLoop, ConstantFacts DEF Core, TypeOK, Moving, UnderLock, Taking
  <2> QED
    BY <1>1, <1>5, <2>1, RingedStays
<1> QED
  BY <1>1, <1>3, <1>4, <1>6 DEF Core

-----------------------------------------------------------------------------
LEMMA NextCore ==
  ASSUME Core, Calm', [Next]_vars
  PROVE  Core'
<1>1. ASSUME NEW t \in Threads, Step(t) PROVE Core'
  BY <1>1, AddOwnStep, AddLastStep, AddHeadStep, ProbeStep, RemoveLockStep, UnlinkNextStep,
     UnlinkPrevStep, UnlinkOwnStep, FreeMemStep DEF Step
<1>2. ASSUME NEW t \in Threads, Finish(t) PROVE Core'
  BY <1>2, FinishStep
<1>3. ASSUME NEW t \in Workers, NEW h \in Handles, AllocNew(t, h) \/ FreeBegin(t, h)
      PROVE  Core'
  BY <1>3, AllocNewStep, FreeBeginStep
<1>4. CASE EnvFreeBegin \/ TakeFirst \/ ResetMem
  BY <1>4, EnvFreeBeginStep, TakeFirstStep, ResetMemStep
<1>5. CASE UNCHANGED vars
  <2> USE <1>5 DEF vars
  <2>1. TypeOK' /\ Roles' /\ ~wild'
    BY DEF Core, TypeOK, Roles
  <2>2. Hands'
    BY DEF Core, Hands, Busy
  <2>3. Owners'
    BY DEF Core, Owners, Held, Busy
  <2>4. Listed' = Listed
    BY DEF Listed, Off
  <2>5. Ringed'
    BY <2>4, RingedStays
  <2> QED
    BY <2>1, <2>2, <2>3, <2>5 DEF Core
<1> QED
  BY <1>1, <1>2, <1>3, <1>4, <1>5 DEF Next

LEMMA NextMain ==
  ASSUME Main, [Next]_vars
  PROVE  Main' /\ (Calm' => Calm)
<1> DEFINE Kept == Main' /\ (pc'[MAIN] = "idle" => pc[MAIN] = "idle")
<1> SUFFICES Kept
  BY DEF Calm
<1>1. ASSUME NEW t \in Threads, NEW label \in Labels, pc' = [pc EXCEPT ![t] = label],
             t = MAIN => label \notin {"idle", "add", "add last", "add head"}
      PROVE  Kept
  BY <1>1, ConstantFacts DEF Main
<1>2. ASSUME NEW t \in Threads, Step(t) PROVE Kept
  <2>1. CASE AddOwn(t) \/ AddLast(t) \/ AddHead(t)
    <3>1. t # MAIN
      BY <2>1 DEF AddOwn, MayAdd, AddLast, AddHead, Main
    <3>2. \E label \in {"add last", "add head", "idle"} : pc' = [pc EXCEPT ![t] = label]
      BY <2>1 DEF AddOwn, AddLast, AddHead, Goto
    <3> QED
      BY <1>1, <3>1, <3>2 DEF Labels
  <2>2. CASE Probe(t)
    <3>1. \E label \in {"loop", "remove"} : pc' = [pc EXCEPT ![t] = label]
      BY <2>2 DEF Probe, Goto
    <3> QED
      BY <1>1, <3>1 DEF Labels
  <2>3. CASE RemoveLock(t)
    <3>1. \E label \in {"unlink next", "free"} : pc' = [pc EXCEPT ![t] = label]
      BY <2>3 DEF RemoveLock, Goto
    <3> QED
      BY <1>1, <3>1 DEF Labels
  <2>4. CASE UnlinkNext(t) \/ UnlinkPrev(t) \/ UnlinkOwn(t)
    <3>1. \E label \in {"unlink prev", "take prev", "unlink own", "take own", "free", "probe"} :
             pc' = [pc EXCEPT ![t] = label]
      BY <2>4 DEF UnlinkNext, UnlinkPrev, UnlinkOwn, Goto
    <3> QED
      BY <1>1, <3>1 DEF Labels
  <2>5. CASE FreeMem(t)
    <3>1. pc' = [pc EXCEPT ![t] = IF t = MAIN THEN "loop" ELSE "idle"]
      BY <2>5 DEF FreeMem, Goto
    <3> QED
      BY <1>1, <3>1 DEF Labels
  <2> QED
    BY <1>2, <2>1, <2>2, <2>3, <2>4, <2>5 DEF Step
<1>3. ASSUME NEW t \in Threads, Finish(t) PROVE Kept
  BY <1>1, <1>3, ConstantFacts DEF Finish, Goto, Labels
<1>4. ASSUME NEW t \in Workers, NEW h \in Handles, AllocNew(t, h) \/ FreeBegin(t, h)
      PROVE  Kept
  <2>1. t \in Threads /\ t # MAIN
    BY ConstantFacts DEF Threads
  <2>2. \E label \in {"add", "probe"} : pc' = [pc EXCEPT ![t] = label]
    BY <1>4 DEF AllocNew, FreeBegin, Goto
  <2> QED
    BY <1>1, <2>1, <2>2 DEF Labels
<1>5. CASE EnvFreeBegin \/ TakeFirst \/ ResetMem
  <2>1. \E label \in {"probe", "take next", "done"} : pc' = [pc EXCEPT ![MAIN] = label]
    BY <1>5 DEF EnvFreeBegin, TakeFirst, ResetMem, Goto
  <2> QED
    BY <1>1, <2>1, ConstantFacts DEF Labels
<1>6. CASE UNCHANGED vars
  BY <1>6 DEF vars, Main
<1> QED
  BY <1>2, <1>3, <1>4, <1>5, <1>6 DEF Next

(* As long as the application waits for its threads, or has not begun to   *)
(* free the environment: the pointers of the list are those of a ring, but *)
(* for what the one thread inside ListAdd or ListRmv has still to write,   *)
(* each handle is in one pair of hands, and no freed memory is touched.    *)
THEOREM EnvSafety == Spec => []EnvInv
<1>1. Init => EnvInv
  BY InitCore, ConstantFacts DEF Init, EnvInv, Main, Labels
<1>2. EnvInv /\ [Next]_vars => EnvInv'
  BY NextCore, NextMain DEF EnvInv
<1> QED
  BY <1>1, <1>2, PTL DEF Spec

(* No thread uses a handle that was freed, if the application waits for    *)
(* its threads before it frees the environment.                            *)
THEOREM FreedIsForgotten ==
  ASSUME OwnJoin
  PROVE  Spec => []NoWildAccess
<1>1. EnvInv => NoWildAccess
  BY DEF EnvInv, Calm, Core, NoWildAccess
<1> QED
  BY <1>1, EnvSafety, PTL

(* KCIHandleFree of the environment frees each handle that is left with    *)
(* its own function, under the same condition: reset_mem finds none.       *)
THEOREM NoneLeftBehind ==
  ASSUME OwnJoin
  PROVE  Spec => EnvFreesAll
<1>1. EnvInv /\ [Next]_vars => [ResetMem => \A h \in Handles : mem[h] # "filled"]_vars
  BY NothingLeft DEF EnvInv, Calm
<1> QED
  BY <1>1, EnvSafety, PTL DEF Spec, EnvFreesAll

-----------------------------------------------------------------------------
(* Walking along the pointers. *)

(* The least element of a set of numbers does for induction.               *)
LEMMA AllNumbers ==
  ASSUME NEW D, 0 \in D, \A m \in Nat : m \in D => m + 1 \in D
  PROVE  Nat \subseteq D
<1> SUFFICES ASSUME Nat \ D # {} PROVE FALSE
  OBVIOUS
<1>1. PICK m \in Nat \ D : \A k \in Nat \ D : <<k, m>> \notin OpToRel(<, Nat)
  <2>1. Nat \ D \subseteq Nat
    OBVIOUS
  <2> QED
    BY <2>1, NatLessThanWellFounded, WFMin
<1>2. m \in Nat /\ m \notin D /\ m # 0
  BY <1>1
<1>3. m - 1 \in Nat /\ m - 1 < m /\ (m - 1) + 1 = m
  BY <1>2
<1>4. m - 1 \notin D
  BY <1>2, <1>3
<1>5. <<m - 1, m>> \in OpToRel(<, Nat)
  BY <1>2, <1>3 DEF OpToRel
<1> QED
  BY <1>1, <1>3, <1>4, <1>5

Onward(link, n) == IF n = NULL THEN NULL ELSE link[n]

IsWalk(w, link, n) == w = [i \in 0 .. n |-> IF i = 0 THEN HEAD ELSE Onward(link, w[i - 1])]

LEMMA WalkExists ==
  ASSUME NEW link, NEW n \in Nat
  PROVE  \E w : IsWalk(w, link, n)
<1> DEFINE D == {m \in Nat : \E w : IsWalk(w, link, m)}
<1>1. 0 \in D
  <2>1. IsWalk([i \in 0 .. 0 |-> HEAD], link, 0)
    BY DEF IsWalk
  <2> QED
    BY <2>1
<1>2. ASSUME NEW m \in Nat, m \in D PROVE m + 1 \in D
  <2>1. PICK w : IsWalk(w, link, m)
    BY <1>2
  <2> DEFINE v == [i \in 0 .. m + 1 |-> IF i = m + 1 THEN Onward(link, w[m]) ELSE w[i]]
  <2>2. \A i \in 0 .. m : v[i] = w[i]
    OBVIOUS
  <2>3. \A i \in 0 .. m : w[i] = IF i = 0 THEN HEAD ELSE Onward(link, w[i - 1])
    BY <2>1 DEF IsWalk
  <2>4. ASSUME NEW i \in 0 .. m + 1
        PROVE  v[i] = IF i = 0 THEN HEAD ELSE Onward(link, v[i - 1])
    <3>1. CASE i = m + 1
      <4>1. v[i] = Onward(link, w[m]) /\ v[i - 1] = w[m] /\ i # 0
        BY <3>1, <2>2
      <4> QED
        BY <4>1
    <3>2. CASE i # m + 1
      <4>1. i \in 0 .. m /\ (i # 0 => i - 1 \in 0 .. m)
        BY <3>2
      <4> HIDE DEF v
      <4> QED
        BY <2>2, <2>3, <4>1
    <3> QED
      BY <3>1, <3>2
  <2>5. v = [i \in 0 .. m + 1 |-> v[i]]
    OBVIOUS
  <2> HIDE DEF v
  <2>6. IsWalk(v, link, m + 1)
    BY <2>4, <2>5 DEF IsWalk
  <2> QED
    BY <2>6
<1> HIDE DEF D
<1>3. n \in D
  BY <1>1, <1>2, AllNumbers
<1> QED
  BY <1>3 DEF D

LEMMA AlongIsWalk ==
  ASSUME NEW link, NEW n \in Nat
  PROVE  \E w : IsWalk(w, link, n) /\ Along(link, n) = {w[i] : i \in 0 .. n}
<1> DEFINE w == CHOOSE x : x = [i \in 0 .. n |-> IF i = 0 THEN HEAD ELSE
                                  IF x[i - 1] = NULL THEN NULL ELSE link[x[i - 1]]]
<1>1. Along(link, n) = {w[i] : i \in 0 .. n}
  BY DEF Along
<1>2. IsWalk(w, link, n)
  <2>1. \E x : x = [i \in 0 .. n |-> IF i = 0 THEN HEAD ELSE
                                  IF x[i - 1] = NULL THEN NULL ELSE link[x[i - 1]]]
    BY WalkExists, ZenonT(60) DEF IsWalk, Onward
  <2> QED
    BY <2>1 DEF IsWalk, Onward
<1> QED
  BY <1>1, <1>2

(* A walk along links that run through a set of nodes one by one comes     *)
(* back to the head: as many steps as there are handles, and one more,     *)
(* reach all that there is to reach, in either direction.                  *)
LEMMA WalkReturns ==
  ASSUME NEW S, S \subseteq Nodes, HEAD \in S, NEW F, NEW G,
         \A n \in S : F[n] \in S /\ G[F[n]] = n
  PROVE  LET A == Along(F, Cardinality(Handles) + 1)
         IN  /\ A \subseteq S /\ HEAD \in A
             /\ \A n \in A : F[n] \in A
             /\ \A n \in A : G[n] \in A
<1> DEFINE k == Cardinality(Handles) + 1
<1>1. IsFiniteSet(Nodes) /\ Cardinality(Nodes) = k /\ k \in Nat /\ k > 0
  <2>1. Cardinality(Handles) \in Nat
    BY FiniteAssumption, FS_CardinalityType
  <2>2. IsFiniteSet(Handles \cup {HEAD}) /\ Cardinality(Handles \cup {HEAD}) = k
    BY FiniteAssumption, ConstantFacts, FS_AddElement
  <2> QED
    BY <2>1, <2>2 DEF Nodes
<1>2. IsFiniteSet(S) /\ Cardinality(S) \in Nat /\ Cardinality(S) <= k
  BY <1>1, FS_Subset, FS_CardinalityType
<1> HIDE DEF k
<1>3. PICK w : IsWalk(w, F, k) /\ Along(F, k) = {w[i] : i \in 0 .. k}
  BY <1>1, AlongIsWalk
<1>4. \A i \in 0 .. k : w[i] = IF i = 0 THEN HEAD ELSE Onward(F, w[i - 1])
  BY <1>3 DEF IsWalk
<1>5. \A n \in S : Onward(F, n) = F[n]
  BY ConstantFacts DEF Onward, Nodes
<1>6. \A i \in 0 .. k : w[i] \in S
  <2> DEFINE D == {i \in Nat : i <= k => w[i] \in S}
  <2>1. 0 \in D
    BY <1>1, <1>4
  <2>2. ASSUME NEW m \in Nat, m \in D PROVE m + 1 \in D
    <3> SUFFICES ASSUME m + 1 <= k PROVE w[m + 1] \in S
      OBVIOUS
    <3>1. w[m] \in S /\ m + 1 \in 0 .. k /\ (m + 1) - 1 = m /\ m + 1 # 0
      BY <1>1, <2>2
    <3>2. w[m + 1] = Onward(F, w[m])
      BY <1>4, <3>1
    <3> QED
      BY <1>5, <3>1, <3>2
  <2> HIDE DEF D
  <2>3. Nat \subseteq D
    BY <2>1, <2>2, AllNumbers
  <2> QED
    BY <1>1, <2>3 DEF D
<1>7. \A i \in 0 .. k : i # k => w[i + 1] = F[w[i]] /\ G[w[i + 1]] = w[i] /\ i + 1 \in 0 .. k
  <2> SUFFICES ASSUME NEW i \in 0 .. k, i # k
               PROVE  w[i + 1] = F[w[i]] /\ G[w[i + 1]] = w[i] /\ i + 1 \in 0 .. k
    OBVIOUS
  <2>1. i + 1 \in 0 .. k /\ i + 1 # 0 /\ (i + 1) - 1 = i
    BY <1>1
  <2>2. w[i + 1] = Onward(F, w[i]) /\ w[i] \in S
    BY <1>4, <1>6, <2>1
  <2> QED
    BY <1>5, <2>1, <2>2
<1>8. PICK p \in 1 .. k : w[p] = HEAD
  <2>1. w \in [0 .. k -> S]
    <3>1. w = [i \in 0 .. k |-> w[i]]
      BY <1>3 DEF IsWalk
    <3> QED
      BY <1>6, <3>1
  <2>2. IsFiniteSet(0 .. k) /\ Cardinality(0 .. k) = k + 1
    BY <1>1, FS_Interval
  <2>3. \E x, y \in 0 .. k : x # y /\ w[x] = w[y]
    BY <1>1, <1>2, <2>1, <2>2, FS_PigeonHole
  <2>4. PICK i \in 0 .. k, j \in 0 .. k : i < j /\ w[i] = w[j]
    BY <1>1, <2>3
  <2> DEFINE D == {d \in Nat : d <= i => w[i - d] = w[j - d]}
  <2>5. 0 \in D
    BY <1>1, <2>4
  <2>6. ASSUME NEW d \in Nat, d \in D PROVE d + 1 \in D
    <3> SUFFICES ASSUME d + 1 <= i PROVE w[i - (d + 1)] = w[j - (d + 1)]
      OBVIOUS
    <3>1. w[i - d] = w[j - d]
      BY <1>1, <2>6
    <3>2. /\ i - (d + 1) \in 0 .. k /\ i - (d + 1) # k /\ (i - (d + 1)) + 1 = i - d
          /\ j - (d + 1) \in 0 .. k /\ j - (d + 1) # k /\ (j - (d + 1)) + 1 = j - d
      BY <1>1, <2>4
    <3>3. w[i - (d + 1)] = G[w[i - d]] /\ w[j - (d + 1)] = G[w[j - d]]
      BY <1>7, <3>2
    <3> QED
      BY <3>1, <3>3
  <2> HIDE DEF D
  <2>7. Nat \subseteq D
    BY <2>5, <2>6, AllNumbers
  <2>8. w[i - i] = w[j - i]
    BY <1>1, <2>7 DEF D
  <2>9. i - i = 0 /\ j - i \in 1 .. k /\ w[0] = HEAD
    BY <1>1, <1>4, <2>4
  <2> QED
    BY <2>8, <2>9
<1>9. \A x \in 0 .. k : \E y \in 0 .. p - 1 : w[x] = w[y]
  <2> DEFINE D == {x \in Nat : x <= k => \E y \in 0 .. p - 1 : w[x] = w[y]}
  <2>1. 0 \in D
    BY <1>8
  <2>2. ASSUME NEW x \in Nat, x \in D PROVE x + 1 \in D
    <3> SUFFICES ASSUME x + 1 <= k PROVE \E y \in 0 .. p - 1 : w[x + 1] = w[y]
      OBVIOUS
    <3>1. PICK y \in 0 .. p - 1 : w[x] = w[y]
      BY <1>1, <2>2
    <3>2. x \in 0 .. k /\ x # k /\ y \in 0 .. k /\ y # k
      BY <1>1, <1>8
    <3>3. w[x + 1] = w[y + 1]
      BY <1>7, <3>1, <3>2
    <3>4. CASE y = p - 1
      <4>1. w[y + 1] = w[0] /\ 0 \in 0 .. p - 1
        BY <1>1, <1>4, <1>8, <3>4
      <4> QED
        BY <3>3, <4>1
    <3>5. CASE y # p - 1
      <4>1. y + 1 \in 0 .. p - 1
        BY <1>8, <3>5
      <4> QED
        BY <3>3, <4>1
    <3> QED
      BY <3>4, <3>5
  <2> HIDE DEF D
  <2>3. Nat \subseteq D
    BY <2>1, <2>2, AllNumbers
  <2> QED
    BY <1>1, <2>3 DEF D
<1> DEFINE A == Along(F, k)
<1>10. \A x \in 0 .. k : w[x] \in A
  BY <1>3
<1>11. A \subseteq S /\ HEAD \in A
  BY <1>1, <1>3, <1>4, <1>6, <1>10, SMTT(40)
<1>12. ASSUME NEW n \in A PROVE F[n] \in A /\ G[n] \in A
  <2>1. PICK y \in 0 .. p - 1 : n = w[y]
    BY <1>3, <1>9
  <2>2. y \in 0 .. k /\ y # k
    BY <1>1, <1>8
  <2>3. F[n] \in A
    BY <1>7, <1>10, <2>1, <2>2
  <2>4. CASE y = 0
    <3>1. p - 1 \in 0 .. k /\ p - 1 # k /\ (p - 1) + 1 = p
      BY <1>1, <1>8
    <3>2. G[w[p]] = w[p - 1] /\ n = w[p]
      BY <1>1, <1>4, <1>7, <1>8, <2>1, <2>4, <3>1
    <3> QED
      BY <1>10, <2>3, <3>1, <3>2
  <2>5. CASE y # 0
    <3>1. y - 1 \in 0 .. k /\ y - 1 # k /\ (y - 1) + 1 = y
      BY <1>1, <2>2, <2>5
    <3>2. G[w[y]] = w[y - 1]
      BY <1>7, <3>1
    <3> QED
      BY <1>10, <2>1, <2>3, <3>1, <3>2
  <2> QED
    BY <2>4, <2>5
<1> HIDE DEF A
<1>13. A \subseteq S /\ HEAD \in A /\ (\A n \in A : F[n] \in A) /\ (\A n \in A : G[n] \in A)
  BY <1>11, <1>12
<1> QED
  BY <1>13 DEF A, k

(* Both ways lead to each handle of a ring.                                *)
LEMMA RingWalks ==
  ASSUME NEW L, NEW N, NEW P, NEW r, Ring(L, N, P, r)
  PROVE  /\ Along(N, Cardinality(Handles) + 1) = L \cup {HEAD}
         /\ Along(P, Cardinality(Handles) + 1) = L \cup {HEAD}
<1> DEFINE S == L \cup {HEAD}
<1>1. /\ S \subseteq Nodes /\ HEAD \in S
      /\ \A n \in S : N[n] \in S /\ P[N[n]] = n
      /\ \A n \in S : P[n] \in S /\ N[P[n]] = n
      /\ r \in [Nodes -> Nat] /\ \A h \in L : r[P[h]] < r[h]
  BY DEF Ring, Nodes
<1>2. ASSUME NEW A, A \subseteq S, HEAD \in A, \A n \in A : N[n] \in A
      PROVE  A = S
  <2> SUFFICES ASSUME S \ A # {} PROVE FALSE
    BY <1>2
  <2> DEFINE ranks == {r[n] : n \in S \ A}
  <2>1. ranks \subseteq Nat /\ ranks # {}
    BY <1>1
  <2>2. PICK m \in ranks : \A k \in ranks : <<k, m>> \notin OpToRel(<, Nat)
    BY <2>1, NatLessThanWellFounded, WFMin
  <2>3. PICK n \in S \ A : m = r[n]
    OBVIOUS
  <2>4. n \in L /\ P[n] \in S /\ N[P[n]] = n /\ r[P[n]] < r[n]
    BY <1>1, <1>2
  <2>5. P[n] \in S \ A
    BY <1>2, <2>4
  <2>6. r[P[n]] \in ranks
    BY <2>5
  <2>7. <<r[P[n]], m>> \in OpToRel(<, Nat)
    BY <2>1, <2>3, <2>4, <2>6 DEF OpToRel
  <2> QED
    BY <2>2, <2>6, <2>7
<1> DEFINE k == Cardinality(Handles) + 1
<1> HIDE DEF S
<1>3. /\ Along(N, k) \subseteq S /\ HEAD \in Along(N, k)
      /\ \A n \in Along(N, k) : N[n] \in Along(N, k)
  BY <1>1, WalkReturns
<1>4. /\ Along(P, k) \subseteq S /\ HEAD \in Along(P, k)
      /\ \A n \in Along(P, k) : N[n] \in Along(P, k)
  BY <1>1, WalkReturns
<1>5. Along(N, k) = S /\ Along(P, k) = S
  BY <1>2, <1>3, <1>4
<1> QED
  BY <1>5 DEF S

-----------------------------------------------------------------------------
LEMMA ListIsSound == Core => ListSound
<1> SUFFICES ASSUME Core, op_lock = NOBODY, pc[MAIN] = "idle"
             PROVE  LET listed == (UNION {owned[t] : t \in Workers})
                            \cup {arg[t] : t \in {w \in Workers : pc[w] \in {"probe", "remove"}}}
                    IN  /\ Along(next, Cardinality(Handles) + 1) = listed \cup {HEAD}
                        /\ Along(prev, Cardinality(Handles) + 1) = listed \cup {HEAD}
  BY DEF ListSound
<1> DEFINE own == UNION {owned[t] : t \in Workers}
           hands == {arg[t] : t \in {w \in Workers : pc[w] \in {"probe", "remove"}}}
           listed == own \cup hands
<1>1. \A t \in Threads : pc[t] \notin Moving
  BY Places, ConstantFacts DEF Moving, Taking
<1>2. PICK r : Ring(Listed, next, prev, r)
  <2>1. PICK N, P, r : Ring(Listed, N, P, r) /\ Links(N, P)
    BY DEF Core, Ringed
  <2>2. next = N /\ prev = P
    BY <1>1, <2>1 DEF Links
  <2> QED
    BY <2>1, <2>2
<1>3. Listed \subseteq listed
  <2> SUFFICES ASSUME NEW h \in Listed PROVE h \in listed
    OBVIOUS
  <2>1. h \in Handles /\ mem[h] = "filled" /\ \A t \in Threads : Off(t) => arg[t] # h
    BY DEF Listed
  <2>2. PICK t \in Workers : h \in owned[t] \/ (Busy(t) /\ arg[t] = h)
    BY <2>1 DEF Core, Owners, Held
  <2>3. CASE h \in owned[t]
    <3>1. h \in own
      BY <2>3
    <3> QED
      BY <3>1
  <2>4. CASE Busy(t) /\ arg[t] = h
    <3>1. t \in Threads /\ ~Off(t) /\ pc[t] \in Labels
      BY <2>1, <2>4 DEF Threads, Core, TypeOK
    <3>2. pc[t] \in {"probe", "remove"}
      BY <1>1, <2>4, <3>1 DEF Core, Roles, Labels, Off, Busy, Moving, UnderLock, Taking
    <3>3. t \in {w \in Workers : pc[w] \in {"probe", "remove"}}
      BY <3>2
    <3>4. h \in hands
      BY <2>4, <3>3
    <3> HIDE DEF own, hands
    <3> QED
      BY <3>4
  <2> QED
    BY <2>2, <2>3, <2>4
<1>4. listed \subseteq Listed
  <2> SUFFICES ASSUME NEW h \in listed PROVE h \in Listed
    OBVIOUS
  <2>1. CASE \E t \in Workers : h \in owned[t]
    <3>1. PICK t \in Workers : h \in owned[t]
      BY <2>1
    <3>2. mem[h] = "filled" /\ h \in Handles
      BY <3>1 DEF Core, TypeOK, Owners
    <3>3. \A u \in Threads : Off(u) => arg[u] # h
      <4>1. \A u \in Threads : Off(u) => u \in Workers /\ Busy(u)
        BY ConstantFacts DEF Off, Busy
      <4> QED
        BY <3>1, <4>1 DEF Core, Owners
    <3> QED
      BY <3>2, <3>3 DEF Listed
  <2>2. CASE \E t \in Workers : pc[t] \in {"probe", "remove"} /\ arg[t] = h
    BY <2>2, OnList DEF Threads
  <2>3. h \in own => \E t \in Workers : h \in owned[t]
    OBVIOUS
  <2>4. h \in hands => \E t \in Workers : pc[t] \in {"probe", "remove"} /\ arg[t] = h
    OBVIOUS
  <2> HIDE DEF own, hands
  <2> QED
    BY <2>1, <2>2, <2>3, <2>4
<1>5. Listed = listed
  BY <1>3, <1>4
<1> HIDE DEF listed, own, hands
<1>6. /\ Along(next, Cardinality(Handles) + 1) = listed \cup {HEAD}
      /\ Along(prev, Cardinality(Handles) + 1) = listed \cup {HEAD}
  BY <1>2, <1>5, RingWalks
<1> QED
  BY <1>6 DEF listed, own, hands

(* Until the environment is freed, the list of handles is whole whenever   *)
(* nobody is at work on it, whether or not the application waits for its   *)
(* threads.                                                                *)
THEOREM ListIsWhole == Spec => []ListSound
<1>1. EnvInv => ListSound
  BY ListIsSound DEF EnvInv, Calm, ListSound
<1> QED
  BY <1>1, EnvSafety, PTL

(* With the types, and with op_lock in the hands of the one thread that    *)
(* changes the list, if the application waits.                             *)
THEOREM HandlesAreSound ==
  ASSUME OwnJoin
  PROVE  Spec => []HandlesSound
<1>1. EnvInv => HandlesSound
  BY ListIsSound DEF EnvInv, Calm, Core, HandlesSound
<1> QED
  BY <1>1, EnvSafety, PTL
=============================================================================
