--------------------------- MODULE RedisPoolProofs ---------------------------
(***************************************************************************)
(* Proofs about the Redis pool, for every number of callers, connections   *)
(* and rounds of the check thread.                                         *)
(***************************************************************************)
EXTENDS RedisPool, FiniteSetTheorems, SequenceTheorems, TLAPS

(* The next-state relation split into one case per operation. *)
LEMMA NextCases ==
    ASSUME [Next]_vars
    PROVE  \/ \E t \in Callers : Start(t)
           \/ \E t \in Callers : EvalPredicate(t)
           \/ \E t \in Callers : Sleep(t)
           \/ \E t \in Callers : SpuriousWake(t)
           \/ \E t \in Callers : Take(t)
           \/ \E t \in Callers : Command(t)
           \/ CheckerLoop \/ CheckerSleep \/ CheckerLock \/ CheckerIter \/ CheckerPing
           \/ Signal \/ Drained \/ CloseFlag \/ CloseNotify \/ CloseJoin
           \/ LateCommandCrashes
           \/ UNCHANGED vars
  BY DEF Next, CallerStep, CheckerStep, RedisStep, CloseStep

(* The queue the constructor leaves holds the connections it opened. *)
LEMMA InitialQueue ==
    ASSUME NEW n \in 0..PoolSize, connections_ = [i \in 1..n |-> i]
    PROVE  connections_ \in Seq(Conns) /\ Len(connections_) = n /\ InPool = 1..n
<1>1. connections_ \in [1..n -> Conns]
  BY PoolSizePositive DEF Conns
<1>2. connections_ \in Seq(Conns)
  BY <1>1, PoolSizePositive, IsASeq
<1>3. Len(connections_) = n
  BY <1>1, <1>2, PoolSizePositive, LenProperties
<1> QED
  BY <1>1, <1>2, <1>3 DEF InPool

-----------------------------------------------------------------------------
(* Types, and what the position of a caller or of the checker says of the  *)
(* connection it holds, of mutex_ and of the queue.  Budget, from which    *)
(* CommandsBounded follows, also bounds the checker's rounds.              *)
Types ==
    /\ host \in {"GateServer", "StatusServer"}
    /\ b_stop_ \in BOOLEAN
    /\ connections_ \in Seq(Conns)
    /\ mutex_ \in Callers \cup {Checker, Nobody}
    /\ counter_ \in 0..CheckPeriod
    /\ pc \in [Callers -> {"idle", "call", "pass", "block", "wait", "cmd"}]
    /\ conn \in [Callers -> Conns \cup {NoConn}]
    /\ leaked \subseteq Conns
    /\ done \in Nat
    /\ chk \in [at : {"loop", "sleep", "lock", "iter", "ping", "exited"},
                conn : Conns \cup {NoConn}, left : Nat]
    /\ server \in {"up", "exiting", "draining", "close", "notify", "join",
                   "closed", "aborted", "crashed"}
    /\ missed \subseteq Callers

HolderKnown ==
    /\ \A t \in Callers : conn[t] # NoConn <=> pc[t] = "cmd"
    /\ chk.conn # NoConn <=> chk.at = "ping"

MutexHeld ==
    /\ \A t \in Callers : pc[t] \in {"block", "pass"} => mutex_ = t
    /\ chk.at \in {"iter", "ping"} => mutex_ = Checker

QueueFilled ==
    /\ \A t \in Callers : pc[t] = "pass" /\ ~b_stop_ => connections_ # <<>>
    /\ chk.at \in {"iter", "ping"} => chk.left <= Len(connections_)

CounterReset == chk.at \in {"loop", "sleep"} => counter_ < CheckPeriod

Commands == {t \in Callers : pc[t] = "cmd"}
CheckerHas == IF chk.at = "ping" THEN 1 ELSE 0
Budget == done + Len(connections_) + Cardinality(Commands) + CheckerHas <= PoolSize

Typing == Types /\ HolderKnown /\ MutexHeld /\ QueueFilled /\ CounterReset

LEMMA Constants ==
    /\ NoConn \notin Conns
    /\ Nobody \notin Callers /\ Checker \notin Callers /\ Nobody # Checker
    /\ PoolSize \in Nat \ {0} /\ CheckPeriod \in Nat \ {0}
  BY CallersFinite, PoolSizePositive, CheckPeriodPositive
     DEF NoConn, Conns, Nobody, Checker

LEMMA TypingInit == Init => Typing
<1> SUFFICES ASSUME Init PROVE Typing
  OBVIOUS
<1>1. PICK n \in MinConnected..PoolSize : connections_ = [i \in 1..n |-> i]
                                          /\ leaked = (n + 1)..PoolSize
  BY DEF Init
<1>2. n \in 0..PoolSize
  BY MinConnectedInRange, PoolSizePositive
<1>3. connections_ \in Seq(Conns) /\ leaked \subseteq Conns
  BY <1>1, <1>2, InitialQueue, PoolSizePositive DEF Conns
<1>4. Types
  <2>1. counter_ \in 0..CheckPeriod /\ done \in Nat
    BY Constants DEF Init
  <2>2. chk \in [at : {"loop", "sleep", "lock", "iter", "ping", "exited"},
                 conn : Conns \cup {NoConn}, left : Nat]
    BY DEF Init
  <2> QED
    BY <1>3, <2>1, <2>2 DEF Init, Types
<1>5. HolderKnown /\ MutexHeld
  BY Constants DEF Init, HolderKnown, MutexHeld
<1>6. QueueFilled /\ CounterReset
  BY Constants DEF Init, QueueFilled, CounterReset
<1> QED
  BY <1>4, <1>5, <1>6 DEF Typing

(* A step of a caller that leaves the queue and the checker alone. *)
LEMMA CallerMoves ==
    ASSUME Typing, NEW t \in Callers, NEW to \in {"idle", "call", "wait"},
           pc[t] # "cmd", pc' = [pc EXCEPT ![t] = to],
           UNCHANGED <<host, b_stop_, connections_, counter_, conn, leaked, done, chk,
                       server, missed>>,
           mutex_' \in Callers \cup {Checker, Nobody},
           mutex_' = mutex_ \/ mutex_ = t
    PROVE  Typing'
<1> USE DEF Typing, Types
<1>1. Types'
  OBVIOUS
<1>2. HolderKnown'
  BY DEF HolderKnown
<1>3. MutexHeld'
  BY Constants DEF MutexHeld
<1>4. QueueFilled' /\ CounterReset'
  BY DEF QueueFilled, CounterReset
<1> QED
  BY <1>1, <1>2, <1>3, <1>4

(* A step of the process that wakes sleepers at most. *)
LEMMA ProcessMoves ==
    ASSUME Typing, ServerUnchanged, b_stop_' = b_stop_ \/ b_stop_' = TRUE,
           pc' = pc \/ pc' = [t \in Callers |-> IF t \in Waiting THEN "call" ELSE pc[t]],
           server' \in {"exiting", "draining", "close", "notify", "join", "closed",
                        "aborted", "crashed"},
           missed' \subseteq Callers
    PROVE  Typing'
<1> USE DEF Typing, ServerUnchanged
<1>1. Types'
  <2>1. pc' \in [Callers -> {"idle", "call", "pass", "block", "wait", "cmd"}]
    BY DEF Types
  <2>2. /\ b_stop_' \in BOOLEAN
        /\ chk' \in [at : {"loop", "sleep", "lock", "iter", "ping", "exited"},
                     conn : Conns \cup {NoConn}, left : Nat]
    BY DEF Types
  <2>3. connections_' \in Seq(Conns) /\ UNCHANGED <<host, mutex_, counter_, conn, leaked, done>>
    BY DEF Types
  <2> QED
    BY <2>1, <2>2, <2>3 DEF Types
<1>2. ASSUME NEW t \in Callers PROVE pc'[t] = pc[t] \/ (pc'[t] = "call" /\ pc[t] = "wait")
  <2>1. CASE pc' = pc
    BY <2>1
  <2>2. CASE pc' = [u \in Callers |-> IF u \in Waiting THEN "call" ELSE pc[u]]
    BY <2>2 DEF Waiting
  <2> QED
    BY <2>1, <2>2
<1>3. HolderKnown' /\ CounterReset'
  BY <1>2 DEF HolderKnown, CounterReset
<1>4. MutexHeld' /\ QueueFilled'
  BY <1>2 DEF MutexHeld, QueueFilled
<1> QED
  BY <1>1, <1>3, <1>4

(* The checker moves, with its hands empty and the queue as it was. *)
LEMMA CheckerMoves ==
    ASSUME Typing, CheckerUnchanged, UNCHANGED connections_,
           chk.at # "ping", chk'.at \in {"loop", "sleep", "lock", "iter", "exited"},
           chk'.conn = NoConn, chk'.left \in Nat,
           chk' = [at |-> chk'.at, conn |-> chk'.conn, left |-> chk'.left],
           counter_' \in 0..CheckPeriod,
           mutex_' \in Callers \cup {Checker, Nobody},
           mutex_' = mutex_ \/ mutex_ \in {Nobody, Checker},
           chk'.at = "iter" => mutex_' = Checker /\ chk'.left <= Len(connections_),
           CounterReset'
    PROVE  Typing'
<1> USE DEF Typing, CheckerUnchanged
<1>1. Types'
  BY DEF Types
<1>2. HolderKnown'
  BY DEF HolderKnown
<1>3. MutexHeld'
  BY Constants DEF MutexHeld
<1>4. QueueFilled'
  BY DEF QueueFilled
<1> QED
  BY <1>1, <1>2, <1>3, <1>4

LEMMA TypingStep == Typing /\ [Next]_vars => Typing'
<1> SUFFICES ASSUME Typing, [Next]_vars PROVE Typing'
  OBVIOUS
<1> USE DEF Typing
<1>t. Types
  OBVIOUS
<1>1. ASSUME NEW t \in Callers, Start(t) \/ SpuriousWake(t) PROVE Typing'
  BY <1>1, <1>t, CallerMoves DEF Start, SpuriousWake, Types
<1>2. ASSUME NEW t \in Callers, EvalPredicate(t) PROVE Typing'
  <2>1. /\ \A u \in Callers : pc[u] \notin {"block", "pass"}
        /\ chk.at \notin {"iter", "ping"}
    BY <1>2, Constants DEF EvalPredicate, MutexHeld
  <2>2. Types'
    BY <1>2, <1>t DEF EvalPredicate, Types
  <2>3. HolderKnown' /\ MutexHeld'
    BY <1>2, <1>t, <2>1 DEF EvalPredicate, Types, HolderKnown, MutexHeld
  <2>4. QueueFilled' /\ CounterReset'
    BY <1>2, <1>t, <2>1 DEF EvalPredicate, Types, QueueFilled, CounterReset
  <2> QED
    BY <2>2, <2>3, <2>4
<1>3. ASSUME NEW t \in Callers, Sleep(t) PROVE Typing'
  <2>1. mutex_ = t
    BY <1>3 DEF Sleep, MutexHeld
  <2> QED
    BY <1>3, <1>t, <2>1, CallerMoves DEF Sleep, Types
<1>4. ASSUME NEW t \in Callers, Take(t) PROVE Typing'
  <2>1. mutex_ = t /\ chk.at \notin {"iter", "ping"}
    BY <1>4, Constants DEF Take, MutexHeld
  <2>2. CASE b_stop_
    BY <1>4, <1>t, <2>1, <2>2, CallerMoves DEF Take, Types
  <2>3. CASE ~b_stop_
    <3>1. Head(connections_) \in Conns /\ Tail(connections_) \in Seq(Conns)
      BY <1>4, <1>t, <2>3 DEF Take, QueueFilled, Types
    <3>2. Types'
      BY <1>4, <1>t, <2>3, <3>1 DEF Take, Types
    <3>3. HolderKnown'
      BY <1>4, <1>t, <2>3, <3>1, Constants DEF Take, Types, HolderKnown
    <3>4. \A u \in Callers : u # t => pc[u] \notin {"block", "pass"}
      BY <2>1 DEF MutexHeld
    <3>5. MutexHeld' /\ QueueFilled' /\ CounterReset'
      BY <1>4, <1>t, <2>1, <2>3, <3>4
         DEF Take, Types, MutexHeld, QueueFilled, CounterReset
    <3> QED
      BY <3>2, <3>3, <3>5
  <2> QED
    BY <2>2, <2>3
<1>5. ASSUME NEW t \in Callers, Command(t) PROVE Typing'
  <2>1. conn[t] \in Conns
    BY <1>5, <1>t DEF Command, Types, HolderKnown
  <2>2. Types'
    BY <1>5, <1>t, <2>1 DEF Command, Types
  <2> QED
    BY <1>5, <1>t, <2>2 DEF Command, Types, HolderKnown, MutexHeld, QueueFilled, CounterReset
<1>6. CASE CheckerLoop
  <2>1. CASE b_stop_
    BY <1>6, <1>t, <2>1, CheckerMoves, Constants
       DEF CheckerLoop, Types, HolderKnown, CounterReset
  <2>2. CASE ~b_stop_
    <3>1. counter_' = counter_ + 1 /\ counter_ < CheckPeriod /\ counter_' \in 0..CheckPeriod
      BY <1>6, <1>t, <2>2, Constants DEF CheckerLoop, CounterReset, Types
    <3>2. chk' = [chk EXCEPT !.at = IF counter_ + 1 >= CheckPeriod THEN "lock" ELSE "sleep"]
      BY <1>6, <2>2 DEF CheckerLoop
    <3>3. CounterReset'
      BY <1>t, <3>1, <3>2, Constants DEF CounterReset, Types
    <3> QED
      BY <1>6, <1>t, <3>1, <3>2, <3>3, CheckerMoves, Constants
         DEF CheckerLoop, Types, HolderKnown
  <2> QED
    BY <2>1, <2>2
<1>7. CASE CheckerSleep
  BY <1>7, <1>t, CheckerMoves, Constants DEF CheckerSleep, Types, HolderKnown, CounterReset
<1>8. CASE CheckerLock
  <2>1. Len(connections_) \in Nat /\ mutex_ = Nobody /\ chk.conn = NoConn
    BY <1>8, <1>t DEF CheckerLock, Types, HolderKnown
  <2>2. /\ chk'.at = "iter" /\ chk'.conn = NoConn
        /\ chk'.left = IF b_stop_ THEN 0 ELSE Len(connections_)
        /\ chk' = [at |-> chk'.at, conn |-> chk'.conn, left |-> chk'.left]
    BY <1>8, <1>t, <2>1 DEF CheckerLock, Types
  <2>3. /\ mutex_' = Checker /\ UNCHANGED <<connections_, counter_>>
        /\ CheckerUnchanged /\ chk.at = "lock"
    BY <1>8 DEF CheckerLock
  <2>4. /\ chk'.left \in Nat /\ chk'.left <= Len(connections_)
        /\ counter_' \in 0..CheckPeriod /\ CounterReset'
    BY <1>t, <2>1, <2>2, <2>3 DEF CounterReset, Types
  <2> QED
    BY <2>1, <2>2, <2>3, <2>4, CheckerMoves
<1>9. CASE CheckerIter
  <2>1. mutex_ = Checker /\ \A t \in Callers : pc[t] \notin {"block", "pass"}
    BY <1>9, Constants DEF CheckerIter, MutexHeld
  <2>2. CASE chk.left > 0 /\ ~b_stop_
    <3>1. /\ chk' = [at |-> "ping", conn |-> Head(connections_), left |-> chk.left - 1]
          /\ connections_' = Tail(connections_)
          /\ UNCHANGED <<mutex_, counter_>> /\ CheckerUnchanged
      BY <1>9, <1>t, <2>2 DEF CheckerIter, Types
    <3>2. chk.left <= Len(connections_) /\ chk.left \in Nat /\ Len(connections_) \in Nat
      BY <1>9, <1>t DEF CheckerIter, QueueFilled, Types
    <3>3. connections_ # <<>>
      BY <1>t, <2>2, <3>2 DEF Types
    <3>4. /\ Head(connections_) \in Conns
          /\ Tail(connections_) \in Seq(Conns)
          /\ Len(Tail(connections_)) = Len(connections_) - 1
      BY <1>t, <3>3 DEF Types
    <3>5. Types'
      BY <1>t, <2>2, <3>1, <3>2, <3>4 DEF Types, CheckerUnchanged
    <3>6. HolderKnown' /\ MutexHeld' /\ CounterReset'
      BY <1>9, <2>1, <3>1, <3>4, Constants
         DEF HolderKnown, MutexHeld, CounterReset, CheckerUnchanged
    <3>7. QueueFilled'
      BY <2>1, <3>1, <3>2, <3>4 DEF QueueFilled, CheckerUnchanged
    <3> QED
      BY <3>5, <3>6, <3>7
  <2>3. CASE ~(chk.left > 0 /\ ~b_stop_)
    <3>1. /\ chk' = [at |-> "sleep", conn |-> NoConn, left |-> 0]
          /\ mutex_' = Nobody /\ counter_' = 0
          /\ UNCHANGED connections_ /\ CheckerUnchanged /\ chk.at = "iter"
      BY <1>9, <2>3 DEF CheckerIter
    <3> QED
      BY <2>1, <3>1, CheckerMoves, Constants DEF CounterReset
  <2> QED
    BY <2>2, <2>3
<1>10. CASE CheckerPing
  <2>1. mutex_ = Checker /\ \A t \in Callers : pc[t] \notin {"block", "pass"}
    BY <1>10, Constants DEF CheckerPing, MutexHeld
  <2>2. chk.conn \in Conns /\ chk.left <= Len(connections_)
    BY <1>10, <1>t DEF CheckerPing, HolderKnown, QueueFilled, Types
  <2>3. connections_' \in Seq(Conns) /\ Len(connections_') = Len(connections_) + 1
        /\ Len(connections_) \in Nat
    BY <1>10, <1>t, <2>2 DEF CheckerPing, Types
  <2>4. chk' = [chk EXCEPT !.at = "iter", !.conn = NoConn]
        /\ UNCHANGED <<mutex_, counter_>> /\ CheckerUnchanged
    BY <1>10 DEF CheckerPing
  <2>5. Types'
    BY <1>t, <2>3, <2>4 DEF Types, CheckerUnchanged
  <2>6. HolderKnown' /\ MutexHeld' /\ CounterReset'
    BY <1>10, <1>t, <2>1, <2>4 DEF HolderKnown, MutexHeld, CounterReset, CheckerUnchanged, Types
  <2>7. QueueFilled'
    BY <1>t, <2>1, <2>2, <2>3, <2>4 DEF QueueFilled, CheckerUnchanged, Types
  <2> QED
    BY <2>5, <2>6, <2>7
<1>11. CASE Signal \/ Drained \/ CloseFlag \/ CloseNotify \/ CloseJoin \/ LateCommandCrashes
  <2>1. /\ ServerUnchanged
        /\ b_stop_' = b_stop_ \/ b_stop_' = TRUE
        /\ pc' = pc \/ pc' = [t \in Callers |-> IF t \in Waiting THEN "call" ELSE pc[t]]
        /\ server' \in {"exiting", "draining", "close", "notify", "join", "closed",
                        "aborted", "crashed"}
        /\ missed' = missed \/ missed' = {t \in Callers : pc[t] = "block"}
    BY <1>11 DEF Signal, Drained, CloseFlag, CloseNotify, CloseJoin, LateCommandCrashes
  <2>2. missed' \subseteq Callers
    BY <1>t, <2>1 DEF Types
  <2> QED
    BY <2>1, <2>2, ProcessMoves, Zenon
<1>12. CASE UNCHANGED vars
  BY <1>12, <1>t DEF vars, Types, HolderKnown, MutexHeld, QueueFilled, CounterReset
<1> QED
  BY <1>1, <1>2, <1>3, <1>4, <1>5, <1>6, <1>7, <1>8, <1>9, <1>10, <1>11, <1>12, NextCases

-----------------------------------------------------------------------------
(* How many commands there can be.  A connection leaves the queue for a    *)
(* caller or for the checker; only the checker brings it back.             *)
BudgetInv == Typing /\ Budget /\ chk.left <= PoolSize

LEMMA CommandsCounted == IsFiniteSet(Commands) /\ Cardinality(Commands) \in Nat
  BY CallersFinite, FS_Subset, FS_CardinalityType DEF Commands

LEMMA BudgetInit == Init => BudgetInv
<1> SUFFICES ASSUME Init PROVE Budget /\ chk.left <= PoolSize
  BY TypingInit DEF BudgetInv
<1>1. PICK n \in MinConnected..PoolSize : connections_ = [i \in 1..n |-> i]
  BY DEF Init
<1>2. n \in 0..PoolSize
  BY MinConnectedInRange, PoolSizePositive
<1>3. Len(connections_) = n
  BY <1>1, <1>2, InitialQueue
<1>4. Commands = {} /\ Cardinality(Commands) = 0
  <2>1. Commands = {}
    BY DEF Init, Commands
  <2> QED
    BY <2>1, FS_EmptySet
<1>5. done = 0 /\ CheckerHas = 0 /\ chk.left = 0
  BY DEF Init, CheckerHas
<1> QED
  BY <1>2, <1>3, <1>4, <1>5, Constants DEF Budget

LEMMA BudgetStep == BudgetInv /\ [Next]_vars => BudgetInv'
<1> SUFFICES ASSUME BudgetInv, [Next]_vars PROVE Budget' /\ (chk.left <= PoolSize)'
  BY TypingStep DEF BudgetInv
<1>t. /\ Types /\ HolderKnown /\ MutexHeld /\ QueueFilled /\ Budget
      /\ Len(connections_) \in Nat /\ done \in Nat /\ chk.left \in Nat
      /\ chk.left <= PoolSize /\ PoolSize \in Nat
      /\ IsFiniteSet(Commands) /\ Cardinality(Commands) \in Nat
      /\ CheckerHas \in {0, 1}
  BY CommandsCounted, Constants DEF BudgetInv, Typing, Types, CheckerHas
<1>q. ASSUME UNCHANGED <<connections_, done, chk>>, Commands' = Commands
      PROVE  Budget' /\ (chk.left <= PoolSize)'
  BY <1>q, <1>t DEF Budget, CheckerHas
<1>1. ASSUME NEW t \in Callers, Start(t) \/ EvalPredicate(t) \/ Sleep(t) \/ SpuriousWake(t)
      PROVE  Budget' /\ (chk.left <= PoolSize)'
  <2>1. /\ UNCHANGED <<connections_, done, chk>>
        /\ pc[t] # "cmd"
        /\ \E to \in {"call", "pass", "block", "wait"} : pc' = [pc EXCEPT ![t] = to]
    BY <1>1 DEF Start, EvalPredicate, Sleep, SpuriousWake
  <2>2. Commands' = Commands
    BY <1>t, <2>1 DEF Commands, Types
  <2> QED
    BY <2>1, <2>2, <1>q
<1>2. ASSUME NEW t \in Callers, Take(t) PROVE Budget' /\ (chk.left <= PoolSize)'
  <2>1. CASE b_stop_
    <3>1. Commands' = Commands
      BY <1>2, <1>t, <2>1 DEF Take, Commands, Types
    <3> QED
      BY <1>2, <2>1, <3>1, <1>q DEF Take
  <2>2. CASE ~b_stop_
    <3>1. /\ connections_ # <<>> /\ connections_' = Tail(connections_)
          /\ pc' = [pc EXCEPT ![t] = "cmd"] /\ pc[t] = "pass"
          /\ UNCHANGED <<done, chk>>
      BY <1>2, <1>t, <2>2 DEF Take, QueueFilled
    <3>2. Len(connections_') = Len(connections_) - 1
      BY <1>t, <3>1 DEF Types
    <3>3. t \notin Commands /\ Commands' = Commands \cup {t}
      BY <1>t, <3>1 DEF Commands, Types
    <3>4. Cardinality(Commands') = Cardinality(Commands) + 1
      BY <1>t, <3>3, FS_AddElement
    <3> QED
      BY <1>t, <3>1, <3>2, <3>4 DEF Budget, CheckerHas
  <2> QED
    BY <2>1, <2>2
<1>3. ASSUME NEW t \in Callers, Command(t) PROVE Budget' /\ (chk.left <= PoolSize)'
  <2>1. /\ pc[t] = "cmd" /\ pc' = [pc EXCEPT ![t] = "idle"]
        /\ done' = done + 1 /\ UNCHANGED <<connections_, chk>>
    BY <1>3 DEF Command
  <2>2. t \in Commands /\ Commands' = Commands \ {t}
    BY <1>t, <2>1 DEF Commands, Types
  <2>3. Cardinality(Commands') = Cardinality(Commands) - 1
    BY <1>t, <2>2, FS_RemoveElement
  <2> QED
    BY <1>t, <2>1, <2>3 DEF Budget, CheckerHas
<1>4. CASE CheckerLoop \/ CheckerSleep \/ CheckerLock
  <2>1. /\ UNCHANGED <<connections_, done, pc>>
        /\ chk.at # "ping"
    BY <1>4 DEF CheckerLoop, CheckerSleep, CheckerLock, CheckerUnchanged
  <2>2. /\ chk'.at # "ping"
        /\ chk'.left \in {chk.left, 0, Len(connections_)}
    BY <1>4, <1>t DEF CheckerLoop, CheckerSleep, CheckerLock, Types
  <2>3. Commands' = Commands
    BY <2>1 DEF Commands
  <2>4. CheckerHas = 0 /\ CheckerHas' = 0
    BY <2>1, <2>2 DEF CheckerHas
  <2>5. Len(connections_) <= PoolSize
    BY <1>t, <2>4 DEF Budget
  <2> QED
    BY <1>t, <2>1, <2>2, <2>3, <2>4, <2>5 DEF Budget
<1>5. CASE CheckerIter
  <2>1. Commands' = Commands /\ done' = done /\ CheckerHas = 0
    BY <1>5 DEF CheckerIter, CheckerUnchanged, Commands, CheckerHas
  <2>2. CASE chk.left > 0 /\ ~b_stop_
    <3>1. chk' = [at |-> "ping", conn |-> Head(connections_), left |-> chk.left - 1]
          /\ connections_' = Tail(connections_)
      BY <1>5, <1>t, <2>2 DEF CheckerIter
    <3>2. connections_ # <<>>
      BY <1>5, <1>t, <2>2 DEF CheckerIter, QueueFilled, Types
    <3>3. Len(connections_') = Len(connections_) - 1
      BY <1>t, <3>1, <3>2 DEF Types
    <3>4. CheckerHas' = 1 /\ chk'.left <= PoolSize
      BY <1>t, <2>2, <3>1 DEF CheckerHas
    <3> QED
      BY <1>t, <2>1, <3>3, <3>4 DEF Budget
  <2>3. CASE ~(chk.left > 0 /\ ~b_stop_)
    <3>1. chk' = [at |-> "sleep", conn |-> NoConn, left |-> 0] /\ connections_' = connections_
      BY <1>5, <2>3 DEF CheckerIter
    <3>2. CheckerHas' = 0 /\ chk'.left <= PoolSize
      BY <1>t, <3>1 DEF CheckerHas
    <3> QED
      BY <1>t, <2>1, <3>1, <3>2 DEF Budget
  <2> QED
    BY <2>2, <2>3
<1>6. CASE CheckerPing
  <2>1. Commands' = Commands /\ done' = done /\ CheckerHas = 1
    BY <1>6 DEF CheckerPing, CheckerUnchanged, Commands, CheckerHas
  <2>2. chk'.at = "iter" /\ chk'.left = chk.left
    BY <1>6, <1>t DEF CheckerPing, Types
  <2>3. Len(connections_') = Len(connections_) + 1
    BY <1>6, <1>t DEF CheckerPing, Types, HolderKnown
  <2>4. CheckerHas' = 0
    BY <2>2 DEF CheckerHas
  <2> QED
    BY <1>t, <2>1, <2>2, <2>3, <2>4 DEF Budget
<1>7. CASE Signal \/ Drained \/ CloseFlag \/ CloseNotify \/ CloseJoin \/ LateCommandCrashes
  <2>1. /\ UNCHANGED <<connections_, done, chk>>
        /\ pc' = pc \/ pc' = [t \in Callers |-> IF t \in Waiting THEN "call" ELSE pc[t]]
    BY <1>7 DEF Signal, Drained, CloseFlag, CloseNotify, CloseJoin,
                    LateCommandCrashes, ServerUnchanged
  <2>2. Commands' = Commands
    BY <2>1 DEF Commands, Waiting
  <2> QED
    BY <2>1, <2>2, <1>q
<1>8. CASE UNCHANGED vars
  BY <1>8, <1>q DEF vars, Commands
<1> QED
  BY <1>1, <1>2, <1>3, <1>4, <1>5, <1>6, <1>7, <1>8, NextCases

(* Every operation of the pool, of the check thread and of Close() keeps   *)
(* the types of the state.                                                 *)
THEOREM TypeCorrect == SafeSpec => []TypeOK
<1>1. BudgetInv => TypeOK
  <2> SUFFICES ASSUME BudgetInv PROVE TypeOK
    OBVIOUS
  <2>1. Types /\ chk.left <= PoolSize
    BY DEF BudgetInv, Typing
  <2>2. chk \in [at : {"loop", "sleep", "lock", "iter", "ping", "exited"},
                 conn : Conns \cup {NoConn}, left : 0..PoolSize]
    BY <2>1, Constants DEF Types
  <2> QED
    BY <2>1, <2>2 DEF Types, TypeOK
<1> QED
  BY <1>1, BudgetInit, BudgetStep, PTL DEF SafeSpec

(* No RedisMgr command gives its connection back, so the process completes *)
(* at most as many commands as the constructor opened connections.         *)
THEOREM CommandsRunOut == SafeSpec => []CommandsBounded
<1>1. BudgetInv => CommandsBounded
  <2> SUFFICES ASSUME BudgetInv PROVE CommandsBounded
    OBVIOUS
  <2>1. /\ Budget /\ PoolSize \in Nat /\ Cardinality(Commands) \in Nat
        /\ Len(connections_) \in Nat /\ done \in Nat /\ CheckerHas \in {0, 1}
    BY CommandsCounted, Constants DEF BudgetInv, Typing, Types, CheckerHas
  <2> QED
    BY <2>1 DEF Budget, CommandsBounded, Commands
<1> QED
  BY <1>1, BudgetInit, BudgetStep, PTL DEF SafeSpec

-----------------------------------------------------------------------------
(* What popping and queueing do to the set of queued connections. *)
NoRepeats == \A i, j \in 1..Len(connections_) : connections_[i] = connections_[j] => i = j

LEMMA PopFront ==
    ASSUME Types, NoRepeats, connections_ # <<>>, connections_' = Tail(connections_)
    PROVE  /\ Head(connections_) \in InPool
           /\ InPool' = InPool \ {Head(connections_)}
           /\ NoRepeats'
<1> USE DEF NoRepeats, InPool
<1>t. connections_ \in Seq(Conns)
  BY DEF Types
<1>1. /\ Len(connections_) \in Nat \ {0}
      /\ Len(connections_') = Len(connections_) - 1
      /\ \A i \in 1..Len(connections_') : connections_'[i] = connections_[i + 1]
      /\ Head(connections_) = connections_[1]
  BY <1>t
<1>2. Head(connections_) \in InPool
  BY <1>1
<1>3. \A i \in 2..Len(connections_) : /\ i - 1 \in 1..Len(connections_')
                                     /\ connections_'[i - 1] = connections_[i]
  BY <1>1
<1>4. \A c : c \in InPool' <=> c \in InPool /\ c # Head(connections_)
  <2>1. ASSUME NEW i \in 1..Len(connections_')
        PROVE  connections_'[i] \in InPool /\ connections_'[i] # Head(connections_)
    BY <1>1
  <2>2. ASSUME NEW i \in 1..Len(connections_), connections_[i] # Head(connections_)
        PROVE  connections_[i] \in InPool'
    <3>1. i \in 2..Len(connections_)
      BY <1>1, <2>2
    <3> QED
      BY <1>3, <3>1
  <2> QED
    BY <2>1, <2>2
<1>5. ASSUME NEW i \in 1..Len(connections_'), NEW j \in 1..Len(connections_'),
             connections_'[i] = connections_'[j]
      PROVE  i = j
  BY <1>1, <1>5
<1> QED
  BY <1>2, <1>4, <1>5

LEMMA PushBack ==
    ASSUME Types, NoRepeats, NEW c \in Conns, c \notin InPool, connections_' = Append(connections_, c)
    PROVE  InPool' = InPool \cup {c} /\ NoRepeats'
<1> USE DEF NoRepeats, InPool
<1>t. connections_ \in Seq(Conns)
  BY DEF Types
<1>1. /\ Len(connections_) \in Nat
      /\ Len(connections_') = Len(connections_) + 1
      /\ \A i \in 1..Len(connections_) : connections_'[i] = connections_[i]
      /\ connections_'[Len(connections_) + 1] = c
  BY <1>t
<1>2. \A i \in 1..Len(connections_') : i \in 1..Len(connections_) \/ i = Len(connections_) + 1
  BY <1>1
<1> QED
  BY <1>1, <1>2

-----------------------------------------------------------------------------
(* Where the connections are: ConnOwnership with the types is inductive.   *)
OwnInv == Typing /\ ConnOwnership

LEMMA OwnInit == Init => OwnInv
<1> SUFFICES ASSUME Init PROVE ConnOwnership
  BY TypingInit DEF OwnInv
<1>1. PICK n \in MinConnected..PoolSize : connections_ = [i \in 1..n |-> i]
                                          /\ leaked = (n + 1)..PoolSize
  BY DEF Init
<1>2. n \in 0..PoolSize /\ PoolSize \in Nat
  BY MinConnectedInRange, PoolSizePositive
<1>3. InPool = 1..n /\ Len(connections_) = n
  BY <1>1, <1>2, InitialQueue
<1>4. \A i, j \in 1..Len(connections_) : connections_[i] = connections_[j] => i = j
  BY <1>1, <1>3
<1>5. NoConn \notin InPool \cup leaked /\ InPool \cap leaked = {} /\ Conns = InPool \cup leaked
  BY <1>1, <1>2, <1>3 DEF NoConn, Conns
<1>6. chk.conn = NoConn /\ \A t \in Callers : conn[t] = NoConn
  BY DEF Init
<1> QED
  BY <1>4, <1>5, <1>6 DEF ConnOwnership

LEMMA OwnStep == OwnInv /\ [Next]_vars => OwnInv'
<1> SUFFICES ASSUME OwnInv, [Next]_vars PROVE ConnOwnership'
  BY TypingStep DEF OwnInv
<1>t. /\ Types /\ HolderKnown /\ MutexHeld /\ QueueFilled /\ ConnOwnership /\ NoRepeats
      /\ NoConn \notin Conns /\ NoConn \notin InPool \cup leaked
  BY Constants DEF OwnInv, Typing, Types, ConnOwnership, NoRepeats, InPool
<1>q. ASSUME UNCHANGED <<connections_, conn, leaked>>, chk'.conn = chk.conn
      PROVE  ConnOwnership'
  BY <1>q, <1>t DEF ConnOwnership, InPool
<1>1. ASSUME NEW t \in Callers, Start(t) \/ EvalPredicate(t) \/ Sleep(t) \/ SpuriousWake(t)
      PROVE  ConnOwnership'
  BY <1>1, <1>q DEF Start, EvalPredicate, Sleep, SpuriousWake
<1>2. ASSUME NEW t \in Callers, Take(t) PROVE ConnOwnership'
  <2>1. CASE b_stop_
    BY <1>2, <2>1, <1>q DEF Take
  <2>2. CASE ~b_stop_
    <3> DEFINE c == Head(connections_)
    <3>1. connections_ # <<>> /\ connections_' = Tail(connections_)
      BY <1>2, <1>t, <2>2 DEF Take, QueueFilled
    <3>2. c \in InPool /\ InPool' = InPool \ {c} /\ NoRepeats'
      BY <1>t, <3>1, PopFront
    <3>3. conn' = [conn EXCEPT ![t] = c] /\ UNCHANGED <<leaked, chk>> /\ conn[t] = NoConn
      BY <1>2, <1>t, <2>2 DEF Take, HolderKnown
    <3> HIDE DEF c
    <3>4. \A u \in Callers : conn'[u] = IF u = t THEN c ELSE conn[u]
      BY <1>t, <3>3 DEF Types
    <3>5. \A u \in Callers : conn[u] # c
      BY <1>t, <3>2 DEF ConnOwnership
    <3>6. Conns \subseteq InPool' \cup leaked' \cup {chk'.conn} \cup {conn'[u] : u \in Callers}
      <4>1. ASSUME NEW x \in Conns, \E u \in Callers : conn[u] = x
            PROVE  \E u \in Callers : conn'[u] = x
        BY <1>t, <3>3, <3>4, <4>1
      <4> QED
        BY <1>t, <3>2, <3>3, <3>4, <4>1 DEF ConnOwnership
    <3> QED
      BY <1>t, <3>2, <3>3, <3>4, <3>5, <3>6 DEF ConnOwnership, NoRepeats
  <2> QED
    BY <2>1, <2>2
<1>3. ASSUME NEW t \in Callers, Command(t) PROVE ConnOwnership'
  <2>1. /\ conn' = [conn EXCEPT ![t] = NoConn] /\ leaked' = leaked \cup {conn[t]}
        /\ UNCHANGED <<connections_, chk>> /\ InPool' = InPool /\ conn[t] # NoConn
    BY <1>3, <1>t DEF Command, HolderKnown, InPool
  <2>2. \A u \in Callers : conn'[u] = IF u = t THEN NoConn ELSE conn[u]
    BY <1>t, <2>1 DEF Types
  <2>3. \A u \in Callers : u # t => conn[u] # conn[t]
    BY <1>t, <2>1 DEF ConnOwnership
  <2>4. chk.conn # conn[t] /\ conn[t] \notin InPool
    BY <1>t, <2>1 DEF ConnOwnership
  <2>5. Conns \subseteq InPool' \cup leaked' \cup {chk'.conn} \cup {conn'[u] : u \in Callers}
    <3>1. ASSUME NEW x \in Conns, \E u \in Callers : conn[u] = x
          PROVE  x \in leaked' \/ \E u \in Callers : conn'[u] = x
      BY <2>1, <2>2, <3>1
    <3> QED
      BY <1>t, <2>1, <2>2, <3>1 DEF ConnOwnership
  <2>6. NoRepeats'
    BY <1>t, <2>1 DEF NoRepeats
  <2> QED
    BY <1>t, <2>1, <2>2, <2>3, <2>4, <2>5, <2>6 DEF ConnOwnership, NoRepeats
<1>4. CASE CheckerLoop \/ CheckerSleep \/ CheckerLock
  <2>1. chk'.conn = chk.conn
    BY <1>4, <1>t DEF CheckerLoop, CheckerSleep, CheckerLock, Types
  <2> QED
    BY <1>4, <2>1, <1>q DEF CheckerLoop, CheckerSleep, CheckerLock, CheckerUnchanged
<1>5. CASE CheckerIter
  <2>1. chk.conn = NoConn
    BY <1>5, <1>t DEF CheckerIter, HolderKnown
  <2>2. CASE chk.left > 0 /\ ~b_stop_
    <3> DEFINE c == Head(connections_)
    <3>1. chk'.conn = c /\ connections_' = Tail(connections_) /\ UNCHANGED <<conn, leaked>>
      BY <1>5, <1>t, <2>2 DEF CheckerIter, CheckerUnchanged, Types
    <3>2. connections_ # <<>>
      BY <1>5, <1>t, <2>2 DEF CheckerIter, QueueFilled, Types
    <3>3. c \in InPool /\ InPool' = InPool \ {c} /\ NoRepeats'
      BY <1>t, <3>1, <3>2, PopFront
    <3> HIDE DEF c
    <3>4. c \notin leaked /\ \A t \in Callers : conn[t] # c
      BY <1>t, <3>3 DEF ConnOwnership
    <3>5. Conns \subseteq InPool' \cup leaked' \cup {chk'.conn} \cup {conn'[u] : u \in Callers}
      BY <1>t, <2>1, <3>1, <3>3 DEF ConnOwnership
    <3> QED
      BY <1>t, <3>1, <3>3, <3>4, <3>5 DEF ConnOwnership, NoRepeats
  <2>3. CASE ~(chk.left > 0 /\ ~b_stop_)
    BY <1>5, <1>q, <2>1, <2>3 DEF CheckerIter, CheckerUnchanged
  <2> QED
    BY <2>2, <2>3
<1>6. CASE CheckerPing
  <2>1. chk'.conn = NoConn /\ connections_' = Append(connections_, chk.conn)
        /\ UNCHANGED <<conn, leaked>>
    BY <1>6, <1>t DEF CheckerPing, CheckerUnchanged, Types
  <2>2. chk.conn \in Conns /\ chk.conn # NoConn /\ chk.conn \notin InPool
    BY <1>6, <1>t DEF CheckerPing, HolderKnown, Types, ConnOwnership
  <2>3. InPool' = InPool \cup {chk.conn} /\ NoRepeats'
    BY <1>t, <2>1, <2>2, PushBack
  <2>4. Conns \subseteq InPool' \cup leaked' \cup {chk'.conn} \cup {conn'[u] : u \in Callers}
    BY <1>t, <2>1, <2>3 DEF ConnOwnership
  <2> QED
    BY <1>t, <2>1, <2>2, <2>3, <2>4 DEF ConnOwnership, NoRepeats
<1>7. CASE Signal \/ Drained \/ CloseFlag \/ CloseNotify \/ CloseJoin \/ LateCommandCrashes
  BY <1>7, <1>q DEF Signal, Drained, CloseFlag, CloseNotify, CloseJoin,
                    LateCommandCrashes, ServerUnchanged
<1>8. CASE UNCHANGED vars
  BY <1>8, <1>q DEF vars
<1> QED
  BY <1>1, <1>2, <1>3, <1>4, <1>5, <1>6, <1>7, <1>8, NextCases

(* A connection is in one place: the checker never PINGs one that a        *)
(* command uses, whatever it rotates while callers wait.                   *)
THEOREM OwnershipHolds == SafeSpec => []ConnOwnership
<1>1. OwnInv => ConnOwnership
  BY DEF OwnInv
<1> QED
  BY <1>1, OwnInit, OwnStep, PTL DEF SafeSpec

-----------------------------------------------------------------------------
(* Close() against the waiters.  The blind window of a caller lies between *)
(* a predicate read before b_stop_ was set and its sleep, so once Close()  *)
(* has notified nobody new can enter it.                                   *)
FlagSet == server \in {"notify", "join", "closed", "aborted"} => b_stop_

Blind == server \in {"join", "closed", "aborted"} =>
            \A t \in Callers : pc[t] \in {"block", "wait"} => t \in missed

SleepInv == Typing /\ FlagSet /\ Blind

LEMMA SleepInit == Init => SleepInv
  BY TypingInit DEF SleepInv, Init, FlagSet, Blind

LEMMA SleepStep == SleepInv /\ [Next]_vars => SleepInv'
<1> SUFFICES ASSUME SleepInv, [Next]_vars PROVE FlagSet' /\ Blind'
  BY TypingStep DEF SleepInv
<1>t. Types /\ FlagSet /\ Blind
  BY DEF SleepInv, Typing
<1>1. ASSUME NEW t \in Callers, Start(t) \/ SpuriousWake(t) \/ Command(t) \/ Take(t)
      PROVE  FlagSet' /\ Blind'
  <2>1. /\ UNCHANGED <<b_stop_, server, missed>>
        /\ \E to \in {"call", "idle", "cmd"} : pc' = [pc EXCEPT ![t] = to]
    BY <1>1 DEF Start, SpuriousWake, Command, Take
  <2> QED
    BY <1>t, <2>1 DEF Types, FlagSet, Blind
<1>2. ASSUME NEW t \in Callers, EvalPredicate(t) PROVE FlagSet' /\ Blind'
  BY <1>2, <1>t DEF EvalPredicate, Types, FlagSet, Blind
<1>3. ASSUME NEW t \in Callers, Sleep(t) PROVE FlagSet' /\ Blind'
  BY <1>3, <1>t DEF Sleep, Types, FlagSet, Blind
<1>4. CASE CheckerStep \/ CheckerPing
  BY <1>4, <1>t DEF CheckerStep, CheckerLoop, CheckerSleep, CheckerLock, CheckerIter,
                    CheckerPing, CheckerUnchanged, FlagSet, Blind
<1>5. CASE Signal \/ Drained \/ CloseFlag \/ CloseJoin \/ LateCommandCrashes
  BY <1>5, <1>t DEF Signal, Drained, CloseFlag, CloseJoin, LateCommandCrashes, FlagSet, Blind
<1>6. CASE CloseNotify
  BY <1>6, <1>t DEF CloseNotify, ServerUnchanged, Waiting, Types, FlagSet, Blind
<1>7. CASE UNCHANGED vars
  BY <1>7, <1>t DEF vars, FlagSet, Blind
<1> QED
  BY <1>1, <1>2, <1>3, <1>4, <1>5, <1>6, <1>7, NextCases DEF CheckerStep

(* After notify_all only a caller that was in its blind window can sleep.  *)
THEOREM SleepersKnown == SafeSpec => []SleepersMissedNotify
<1>1. SleepInv => SleepersMissedNotify
  BY DEF SleepInv, Blind, SleepersMissedNotify, Waiting
<1> QED
  BY <1>1, SleepInit, SleepStep, PTL DEF SafeSpec

-----------------------------------------------------------------------------
(* Refinement: each operation is one step of the abstract pool or none.    *)
(* The checker is a user that acquires and releases.                       *)
AbstractOwner == [u \in Callers \cup {Checker} |-> IF u = Checker THEN chk.conn ELSE conn[u]]

LEMMA AbstractInit == Init => Abstract!Init
<1> SUFFICES ASSUME Init PROVE Abstract!Init
  OBVIOUS
<1>1. InPool \subseteq Conns
  BY TypingInit DEF Typing, Types, InPool
<1> QED
  BY <1>1 DEF Init, Abstract!Init

LEMMA AbstractStep == OwnInv /\ [Next]_vars => [Abstract!Next]_Abstract!apVars
<1> SUFFICES ASSUME OwnInv, [Next]_vars PROVE [Abstract!Next]_Abstract!apVars
  OBVIOUS
<1>t. /\ Types /\ HolderKnown /\ QueueFilled /\ NoRepeats /\ ConnOwnership
      /\ Checker \notin Callers
  BY Constants DEF OwnInv, Typing, ConnOwnership, NoRepeats
<1>q. ASSUME UNCHANGED <<connections_, conn, b_stop_>>, chk'.conn = chk.conn
      PROVE  [Abstract!Next]_Abstract!apVars
  <2>1. InPool' = InPool /\ AbstractOwner' = AbstractOwner
    BY <1>q DEF InPool, AbstractOwner
  <2> QED
    BY <1>q, <2>1 DEF Abstract!apVars, AbstractOwner
<1>1. ASSUME NEW t \in Callers, Take(t) PROVE [Abstract!Next]_Abstract!apVars
  <2>1. CASE b_stop_
    BY <1>1, <2>1, <1>q DEF Take
  <2>2. CASE ~b_stop_
    <3>1. connections_ # <<>> /\ connections_' = Tail(connections_)
      BY <1>1, <1>t, <2>2 DEF Take, QueueFilled
    <3>2. Head(connections_) \in InPool /\ InPool' = InPool \ {Head(connections_)}
      BY <1>t, <3>1, PopFront
    <3>3. conn[t] = NoConn /\ chk' = chk /\ b_stop_' = b_stop_
          /\ conn' = [conn EXCEPT ![t] = Head(connections_)]
      BY <1>1, <1>t, <2>2 DEF Take, HolderKnown
    <3>4. AbstractOwner' = [AbstractOwner EXCEPT ![t] = Head(connections_)]
          /\ AbstractOwner[t] = NoConn
      BY <1>t, <3>3 DEF AbstractOwner, Types
    <3>5. Abstract!Acquire(t)
      BY <2>2, <3>2, <3>3, <3>4 DEF Abstract!Acquire, AbstractOwner
    <3> QED
      BY <3>5 DEF Abstract!Next
  <2> QED
    BY <2>1, <2>2
<1>2. ASSUME NEW t \in Callers, Command(t) PROVE Abstract!Drop(t)
  <2>1. conn[t] # NoConn /\ chk' = chk /\ conn' = [conn EXCEPT ![t] = NoConn]
        /\ InPool' = InPool /\ b_stop_' = b_stop_
    BY <1>2, <1>t DEF Command, HolderKnown, InPool
  <2>2. AbstractOwner' = [AbstractOwner EXCEPT ![t] = NoConn] /\ AbstractOwner[t] # NoConn
    BY <1>t, <2>1 DEF AbstractOwner, Types
  <2> QED
    BY <2>1, <2>2 DEF Abstract!Drop, AbstractOwner
<1>3. CASE CheckerIter
  <2>1. chk.conn = NoConn
    BY <1>3, <1>t DEF CheckerIter, HolderKnown
  <2>2. CASE chk.left > 0 /\ ~b_stop_
    <3>1. chk'.conn = Head(connections_) /\ connections_' = Tail(connections_)
          /\ UNCHANGED <<conn, b_stop_>>
      BY <1>3, <1>t, <2>2 DEF CheckerIter, CheckerUnchanged, Types
    <3>2. connections_ # <<>>
      BY <1>3, <1>t, <2>2 DEF CheckerIter, QueueFilled, Types
    <3>3. Head(connections_) \in InPool /\ InPool' = InPool \ {Head(connections_)}
      BY <1>t, <3>1, <3>2, PopFront
    <3>4. AbstractOwner' = [AbstractOwner EXCEPT ![Checker] = Head(connections_)]
          /\ AbstractOwner[Checker] = NoConn
      BY <1>t, <2>1, <3>1 DEF AbstractOwner
    <3>5. Abstract!Acquire(Checker)
      BY <2>2, <3>1, <3>3, <3>4 DEF Abstract!Acquire, AbstractOwner
    <3> QED
      BY <3>5 DEF Abstract!Next
  <2>3. CASE ~(chk.left > 0 /\ ~b_stop_)
    BY <1>3, <1>q, <2>1, <2>3 DEF CheckerIter, CheckerUnchanged
  <2> QED
    BY <2>2, <2>3
<1>4. CASE CheckerPing
  <2>1. chk'.conn = NoConn /\ connections_' = Append(connections_, chk.conn)
        /\ UNCHANGED <<conn, b_stop_>>
    BY <1>4, <1>t DEF CheckerPing, CheckerUnchanged, Types
  <2>2. chk.conn \in Conns /\ chk.conn # NoConn /\ chk.conn \notin InPool
    BY <1>4, <1>t DEF CheckerPing, HolderKnown, Types, ConnOwnership
  <2>3. InPool' = InPool \cup {chk.conn}
    BY <1>t, <2>1, <2>2, PushBack
  <2>4. AbstractOwner' = [AbstractOwner EXCEPT ![Checker] = NoConn]
        /\ AbstractOwner[Checker] = chk.conn
    BY <1>t, <2>1 DEF AbstractOwner
  <2>5. Abstract!Release(Checker)
    BY <2>1, <2>2, <2>3, <2>4 DEF Abstract!Release, AbstractOwner
  <2> QED
    BY <2>5 DEF Abstract!Next
<1>5. CASE CloseFlag
  <2>1. InPool' = InPool /\ UNCHANGED <<conn, chk>> /\ b_stop_' = TRUE
    BY <1>5 DEF CloseFlag, ServerUnchanged, InPool
  <2>2. AbstractOwner' = AbstractOwner
    BY <2>1 DEF AbstractOwner
  <2> QED
    BY <2>1, <2>2 DEF Abstract!Next, Abstract!Stop, AbstractOwner
<1>6. ASSUME NEW t \in Callers, Start(t) \/ EvalPredicate(t) \/ Sleep(t) \/ SpuriousWake(t)
      PROVE  [Abstract!Next]_Abstract!apVars
  BY <1>6, <1>q DEF Start, EvalPredicate, Sleep, SpuriousWake
<1>7. CASE CheckerLoop \/ CheckerSleep \/ CheckerLock
  <2>1. chk'.conn = chk.conn
    BY <1>7, <1>t DEF CheckerLoop, CheckerSleep, CheckerLock, Types
  <2> QED
    BY <1>7, <2>1, <1>q DEF CheckerLoop, CheckerSleep, CheckerLock, CheckerUnchanged
<1>8. CASE Signal \/ Drained \/ CloseNotify \/ CloseJoin \/ LateCommandCrashes
          \/ UNCHANGED vars
  BY <1>8, <1>q DEF Signal, Drained, CloseNotify, CloseJoin, LateCommandCrashes,
                    ServerUnchanged, vars
<1> QED
  BY <1>1, <1>2, <1>3, <1>4, <1>5, <1>6, <1>7, <1>8, NextCases DEF Abstract!Next

(* The Redis pool implements the abstract one with the checker as one more *)
(* user: nothing is handed out after b_stop_ is set, although Close()      *)
(* takes no lock.                                                          *)
THEOREM PoolRefinement == SafeSpec => ImplementsPool
  BY AbstractInit, AbstractStep, OwnInit, OwnStep, PTL
     DEF SafeSpec, ImplementsPool, Abstract!Spec
=============================================================================
