--------------------------- MODULE MysqlPoolProofs ---------------------------
(***************************************************************************)
(* Proofs about the MySQL pool, for every number of callers, connections   *)
(* and outages.                                                            *)
(***************************************************************************)
EXTENDS MysqlPool, FiniteSetTheorems, SequenceTheorems, TLAPS

(* The next-state relation split into one case per operation. *)
LEMMA NextCases ==
    ASSUME [Next]_vars
    PROVE  \/ \E t \in Callers : Start(t)
           \/ \E t \in Callers : EvalPredicate(t)
           \/ \E t \in Callers : Sleep(t)
           \/ \E t \in Callers : SpuriousWake(t)
           \/ \E t \in Callers : Take(t)
           \/ \E t \in Callers : Run(t)
           \/ \E t \in Callers : Miss(t)
           \/ \E t \in Callers : ReturnConnection(t)
           \/ CheckFirst \/ CheckWake \/ CheckConnection
           \/ DbDown \/ DbBack
           \/ CloseFlag \/ CloseNotify \/ Destroy
           \/ UNCHANGED vars
  BY DEF Next, CallerStep, CheckStep, CloseStep

(* The queue the constructor leaves holds the connections it opened. *)
LEMMA InitialQueue ==
    ASSUME NEW n \in 0..PoolSize, pool_ = [i \in 1..n |-> i]
    PROVE  pool_ \in Seq(Conns) /\ Len(pool_) = n /\ InPool = 1..n
<1>1. pool_ \in [1..n -> Conns]
  BY PoolSizePositive DEF Conns
<1>2. pool_ \in Seq(Conns)
  BY <1>1, PoolSizePositive, IsASeq
<1>3. Len(pool_) = n
  BY <1>1, <1>2, PoolSizePositive, LenProperties
<1> QED
  BY <1>1, <1>2, <1>3 DEF InPool

-----------------------------------------------------------------------------
(* Types, and what a caller's position says of the connection it holds, of *)
(* mutex_ and of the predicate it has evaluated.                           *)
HolderKnown == \A t \in Callers : con[t] # NoConn <=> pc[t] \in {"run", "back"}

MutexHeld == \A t \in Callers : pc[t] \in {"block", "pass"} => mutex_ = t

PredicateHeld ==
    \A t \in Callers : ~b_stop_ => /\ pc[t] = "pass" => pool_ # <<>>
                                   /\ pc[t] = "block" => pool_ = <<>>

Closing == life \in {"notify", "destroy", "gone"} => b_stop_

Typing == TypeOK /\ HolderKnown /\ MutexHeld /\ PredicateHeld /\ Closing

LEMMA TypingInit == Init => Typing
<1> SUFFICES ASSUME Init PROVE Typing
  OBVIOUS
<1>1. pool_ \in Seq(Conns) /\ lost \subseteq Conns
  BY InitialQueue, PoolSizePositive DEF Init, Conns
<1>2. outages \in 0..MaxOutages /\ misses \in Nat
  BY MaxOutagesNat DEF Init
<1>3. chk \in {"none", "first"}
  BY DEF Init
<1>4. NoConn \notin Conns
  BY DEF NoConn, Conns
<1>5. TypeOK
  BY <1>1, <1>2, <1>3 DEF Init, TypeOK
<1> QED
  BY <1>4, <1>5 DEF Init, Typing, HolderKnown, MutexHeld, PredicateHeld, Closing

(* Steps that change neither the queue nor any caller. *)
LEMMA CallersUntouched ==
    ASSUME Typing, UNCHANGED <<b_stop_, pool_, mutex_, pc, con>>,
           broken' \subseteq Conns, UNCHANGED <<lost, misses>>,
           dbUp' \in BOOLEAN, outages' \in 0..MaxOutages,
           chk' \in {"none", "first", "sleep", "check", "exited"},
           life' \in {life, "terminated"}
    PROVE  Typing'
  BY DEF Typing, TypeOK, HolderKnown, MutexHeld, PredicateHeld, Closing

LEMMA TypingStep == Typing /\ [Next]_vars => Typing'
<1> SUFFICES ASSUME Typing, [Next]_vars PROVE Typing'
  OBVIOUS
<1> USE DEF Typing
<1>t. TypeOK /\ NoConn \notin Conns /\ Nobody \notin Callers
  BY CallersFinite DEF NoConn, Conns, Nobody
<1>1. ASSUME NEW t \in Callers, Start(t) PROVE Typing'
  BY <1>1, <1>t DEF Start, TypeOK, HolderKnown, MutexHeld, PredicateHeld, Closing
<1>2. ASSUME NEW t \in Callers, EvalPredicate(t) PROVE Typing'
  <2>1. \A u \in Callers : pc[u] \notin {"block", "pass"}
    BY <1>2, <1>t DEF EvalPredicate, MutexHeld
  <2>2. TypeOK'
    BY <1>2, <1>t DEF EvalPredicate, TypeOK
  <2>3. HolderKnown' /\ MutexHeld'
    BY <1>2, <1>t, <2>1 DEF EvalPredicate, TypeOK, HolderKnown, MutexHeld
  <2>4. PredicateHeld' /\ Closing'
    BY <1>2, <1>t, <2>1 DEF EvalPredicate, Predicate, TypeOK, PredicateHeld, Closing
  <2> QED
    BY <2>2, <2>3, <2>4
<1>3. ASSUME NEW t \in Callers, Sleep(t) PROVE Typing'
  <2>1. \A u \in Callers : u # t => pc[u] \notin {"block", "pass"}
    BY <1>3 DEF Sleep, MutexHeld
  <2> QED
    BY <1>3, <1>t, <2>1 DEF Sleep, TypeOK, HolderKnown, MutexHeld, PredicateHeld, Closing
<1>4. ASSUME NEW t \in Callers, SpuriousWake(t) PROVE Typing'
  BY <1>4, <1>t DEF SpuriousWake, TypeOK, HolderKnown, MutexHeld, PredicateHeld, Closing
<1>5. ASSUME NEW t \in Callers, Take(t) PROVE Typing'
  <2>1. \A u \in Callers : u # t => pc[u] \notin {"block", "pass"}
    BY <1>5 DEF Take, MutexHeld
  <2>2. CASE b_stop_
    BY <1>5, <1>t, <2>1, <2>2 DEF Take, TypeOK, HolderKnown, MutexHeld, PredicateHeld, Closing
  <2>3. CASE ~b_stop_
    <3>1. Head(pool_) \in Conns /\ Tail(pool_) \in Seq(Conns)
      BY <1>5, <1>t, <2>3 DEF Take, PredicateHeld, TypeOK
    <3>2. TypeOK'
      BY <1>5, <1>t, <2>3, <3>1 DEF Take, TypeOK
    <3> QED
      BY <1>5, <1>t, <2>1, <2>3, <3>1, <3>2
         DEF Take, TypeOK, HolderKnown, MutexHeld, PredicateHeld, Closing
  <2> QED
    BY <2>2, <2>3
<1>6. ASSUME NEW t \in Callers, Run(t) PROVE Typing'
  BY <1>6, <1>t DEF Run, TypeOK, HolderKnown, MutexHeld, PredicateHeld, Closing
<1>7. ASSUME NEW t \in Callers, Miss(t) PROVE Typing'
  <2>1. con[t] \in Conns
    BY <1>7, <1>t DEF Miss, TypeOK, HolderKnown
  <2>2. TypeOK'
    BY <1>7, <1>t, <2>1 DEF Miss, TypeOK
  <2> QED
    BY <1>7, <1>t, <2>2 DEF Miss, TypeOK, HolderKnown, MutexHeld, PredicateHeld, Closing
<1>8. ASSUME NEW t \in Callers, ReturnConnection(t) PROVE Typing'
  <2>1. con[t] \in Conns
    BY <1>8, <1>t DEF ReturnConnection, TypeOK, HolderKnown
  <2>2. \A u \in Callers : pc[u] \notin {"block", "pass"}
    BY <1>8, <1>t DEF ReturnConnection, MutexHeld
  <2>3. pool_' \in Seq(Conns) /\ lost' \subseteq Conns /\ broken' \subseteq Conns
    BY <1>8, <1>t, <2>1 DEF ReturnConnection, TypeOK
  <2>4. \/ pc' = [pc EXCEPT ![t] = "idle"]
        \/ \E w \in Waiting : pc' = [pc EXCEPT ![t] = "idle", ![w] = "call"]
    BY <1>8 DEF ReturnConnection, NotifyOne
  <2>5. con' = [con EXCEPT ![t] = NoConn]
        /\ UNCHANGED <<b_stop_, mutex_, misses, dbUp, outages, chk, life>>
    BY <1>8 DEF ReturnConnection
  <2>6. CASE pc' = [pc EXCEPT ![t] = "idle"]
    BY <1>t, <2>2, <2>3, <2>5, <2>6
       DEF TypeOK, HolderKnown, MutexHeld, PredicateHeld, Closing
  <2>7. ASSUME NEW w \in Waiting, pc' = [pc EXCEPT ![t] = "idle", ![w] = "call"]
        PROVE  Typing'
    <3>1. w \in Callers /\ pc[w] = "wait"
      BY DEF Waiting
    <3>2. TypeOK'
      BY <1>t, <2>3, <2>5, <2>7, <3>1 DEF TypeOK
    <3> QED
      BY <1>t, <2>2, <2>5, <2>7, <3>1, <3>2
         DEF TypeOK, HolderKnown, MutexHeld, PredicateHeld, Closing
  <2> QED
    BY <2>4, <2>6, <2>7
<1>9. CASE CheckFirst \/ CheckWake \/ CheckConnection
  <2>1. UNCHANGED <<b_stop_, pool_, mutex_, pc, con, lost, misses, dbUp, outages>>
    BY <1>9 DEF CheckFirst, CheckWake, CheckConnection, CheckUnchanged
  <2>2. broken' \subseteq Conns /\ chk' \in {"sleep", "check", "exited"}
        /\ life' \in {life, "terminated"}
    BY <1>9, <1>t DEF CheckFirst, CheckWake, CheckConnection, TypeOK
  <2> QED
    BY <1>t, <2>1, <2>2, CallersUntouched DEF TypeOK
<1>10. CASE DbDown \/ DbBack
  <2>1. outages' \in 0..MaxOutages
    BY <1>10, <1>t, MaxOutagesNat DEF DbDown, DbBack, TypeOK
  <2> QED
    BY <1>10, <1>t, <2>1, CallersUntouched DEF DbDown, DbBack, TypeOK
<1>11. CASE CloseFlag
  BY <1>11, <1>t DEF CloseFlag, CloseUnchanged, TypeOK, HolderKnown, MutexHeld,
                     PredicateHeld, Closing
<1>12. CASE CloseNotify
  BY <1>12, <1>t DEF CloseNotify, CloseUnchanged, Waiting, TypeOK, HolderKnown, MutexHeld,
                     PredicateHeld, Closing
<1>13. CASE Destroy
  <2>1. b_stop_' /\ InPool \subseteq Conns /\ <<>> \in Seq(Conns)
    BY <1>13, <1>t DEF Destroy, Closing, InPool, TypeOK
  <2>2. TypeOK'
    BY <1>13, <1>t, <2>1 DEF Destroy, CloseUnchanged, TypeOK
  <2> QED
    BY <1>13, <2>1, <2>2 DEF Destroy, CloseUnchanged, HolderKnown, MutexHeld,
                             PredicateHeld, Closing
<1>14. CASE UNCHANGED vars
  BY <1>14, <1>t DEF vars, TypeOK, HolderKnown, MutexHeld, PredicateHeld, Closing
<1> QED
  BY <1>1, <1>2, <1>3, <1>4, <1>5, <1>6, <1>7, <1>8, <1>9, <1>10, <1>11, <1>12, <1>13,
     <1>14, NextCases

(* Every operation of the pool, the check thread and Close() keeps the     *)
(* types of the state.                                                     *)
THEOREM TypeCorrect == SafeSpec => []TypeOK
<1>1. Typing => TypeOK
  BY DEF Typing
<1> QED
  BY <1>1, TypingInit, TypingStep, PTL DEF SafeSpec

-----------------------------------------------------------------------------
(* What popping and queueing do to the set of queued connections. *)
NoRepeats == \A i, j \in 1..Len(pool_) : pool_[i] = pool_[j] => i = j

LEMMA PopFront ==
    ASSUME TypeOK, NoRepeats, pool_ # <<>>, pool_' = Tail(pool_)
    PROVE  /\ Head(pool_) \in InPool
           /\ InPool' = InPool \ {Head(pool_)}
           /\ NoRepeats'
<1> USE DEF TypeOK, NoRepeats, InPool
<1>1. /\ Len(pool_) \in Nat \ {0}
      /\ Len(pool_') = Len(pool_) - 1
      /\ \A i \in 1..Len(pool_') : pool_'[i] = pool_[i + 1]
      /\ Head(pool_) = pool_[1]
  OBVIOUS
<1>2. Head(pool_) \in InPool
  BY <1>1
<1>3. \A i \in 2..Len(pool_) : i - 1 \in 1..Len(pool_') /\ pool_'[i - 1] = pool_[i]
  BY <1>1
<1>4. \A c : c \in InPool' <=> c \in InPool /\ c # Head(pool_)
  <2>1. ASSUME NEW i \in 1..Len(pool_')
        PROVE  pool_'[i] \in InPool /\ pool_'[i] # Head(pool_)
    BY <1>1
  <2>2. ASSUME NEW i \in 1..Len(pool_), pool_[i] # Head(pool_)
        PROVE  pool_[i] \in InPool'
    <3>1. i \in 2..Len(pool_)
      BY <1>1, <2>2
    <3> QED
      BY <1>3, <3>1
  <2> QED
    BY <2>1, <2>2
<1>5. ASSUME NEW i \in 1..Len(pool_'), NEW j \in 1..Len(pool_'), pool_'[i] = pool_'[j]
      PROVE  i = j
  BY <1>1, <1>5
<1> QED
  BY <1>2, <1>4, <1>5

LEMMA PushBack ==
    ASSUME TypeOK, NoRepeats, NEW c \in Conns, c \notin InPool, pool_' = Append(pool_, c)
    PROVE  InPool' = InPool \cup {c} /\ NoRepeats'
<1> USE DEF TypeOK, NoRepeats, InPool
<1>1. /\ Len(pool_) \in Nat
      /\ Len(pool_') = Len(pool_) + 1
      /\ \A i \in 1..Len(pool_) : pool_'[i] = pool_[i]
      /\ pool_'[Len(pool_) + 1] = c
  OBVIOUS
<1>2. \A i \in 1..Len(pool_') : i \in 1..Len(pool_) \/ i = Len(pool_) + 1
  BY <1>1
<1> QED
  BY <1>1, <1>2

-----------------------------------------------------------------------------
(* Where the connections are: ConnAccounting with the types is inductive.  *)
Placed ==
    /\ \A t, u \in Callers : con[t] = con[u] /\ con[t] # NoConn => t = u
    /\ \A t \in Callers : con[t] \notin InPool \cup lost
    /\ InPool \cap lost = {}
    /\ Conns = InPool \cup lost \cup ({con[t] : t \in Callers} \ {NoConn})

LossesCounted == chk # "none" /\ ~b_stop_ => Cardinality(lost) = misses

AccountInv == Typing /\ NoRepeats /\ Placed /\ LossesCounted

LEMMA AccountInit == Init => AccountInv
<1> SUFFICES ASSUME Init PROVE NoRepeats /\ Placed /\ LossesCounted
  BY TypingInit DEF AccountInv
<1>1. PICK n \in 0..PoolSize : /\ pool_ = [i \in 1..n |-> i]
                               /\ lost = (n + 1)..PoolSize
                               /\ chk = IF n = PoolSize THEN "first" ELSE "none"
  BY DEF Init
<1>2. InPool = 1..n /\ Len(pool_) = n
  BY <1>1, InitialQueue
<1>3. NoRepeats
  BY <1>1, <1>2 DEF NoRepeats
<1>4. Placed
  <2>1. NoConn \notin InPool \cup lost /\ InPool \cap lost = {} /\ Conns = InPool \cup lost
    BY <1>1, <1>2, PoolSizePositive DEF NoConn, Conns
  <2>2. \A t \in Callers : con[t] = NoConn
    BY DEF Init
  <2> QED
    BY <2>1, <2>2 DEF Placed
<1>5. LossesCounted
  <2>1. CASE n = PoolSize
    <3>1. lost = {}
      BY <1>1, <2>1, PoolSizePositive
    <3> QED
      BY <3>1, FS_EmptySet DEF Init, LossesCounted
  <2>2. CASE n # PoolSize
    BY <1>1, <2>2 DEF LossesCounted
  <2> QED
    BY <2>1, <2>2
<1> QED
  BY <1>3, <1>4, <1>5

(* A caller loses the connection it holds. *)
LEMMA Losing ==
    ASSUME AccountInv, NEW t \in Callers, pc[t] \in {"run", "back"},
           lost' = lost \cup {con[t]}, con' = [con EXCEPT ![t] = NoConn], UNCHANGED pool_
    PROVE  NoRepeats' /\ Placed' /\ Cardinality(lost') = Cardinality(lost) + 1
<1>1. /\ con \in [Callers -> Conns \cup {NoConn}] /\ NoConn \notin Conns
      /\ con[t] \in Conns /\ con[t] \notin InPool \cup lost
  BY DEF AccountInv, Typing, TypeOK, HolderKnown, Placed, NoConn, Conns
<1>2. InPool' = InPool /\ NoRepeats'
  BY DEF AccountInv, NoRepeats, InPool
<1>3. Placed'
  <2>1. \A u \in Callers : con'[u] = IF u = t THEN NoConn ELSE con[u]
    BY <1>1
  <2>2. NoConn \notin InPool \cup lost
    BY <1>1 DEF AccountInv, Typing, TypeOK, InPool
  <2>3. \A u \in Callers : u # t => con[u] # con[t]
    BY <1>1 DEF AccountInv, Placed
  <2>4. Conns = InPool' \cup lost' \cup ({con'[u] : u \in Callers} \ {NoConn})
    BY <1>1, <1>2, <2>1, <2>3 DEF AccountInv, Placed
  <2> QED
    BY <1>1, <1>2, <2>1, <2>2, <2>3, <2>4 DEF AccountInv, Placed
<1>4. Cardinality(lost') = Cardinality(lost) + 1
  <2>1. IsFiniteSet(Conns)
    BY PoolSizePositive, FS_Interval DEF Conns
  <2>2. IsFiniteSet(lost)
    BY <2>1, FS_Subset DEF AccountInv, Typing, TypeOK
  <2> QED
    BY <1>1, <2>2, FS_AddElement
<1> QED
  BY <1>2, <1>3, <1>4

LEMMA AccountStep == AccountInv /\ [Next]_vars => AccountInv'
<1> SUFFICES ASSUME AccountInv, [Next]_vars PROVE NoRepeats' /\ Placed' /\ LossesCounted'
  BY TypingStep DEF AccountInv
<1>t. /\ TypeOK /\ Typing /\ NoRepeats /\ Placed /\ LossesCounted
      /\ NoConn \notin Conns
  BY DEF AccountInv, Typing, NoConn, Conns
<1>q. ASSUME UNCHANGED <<pool_, con, lost, misses>>, b_stop_ => b_stop_',
             chk' # "none" => chk # "none"
      PROVE  NoRepeats' /\ Placed' /\ LossesCounted'
  BY <1>q, <1>t DEF NoRepeats, Placed, LossesCounted, InPool
<1>1. ASSUME NEW t \in Callers,
             Start(t) \/ EvalPredicate(t) \/ Sleep(t) \/ SpuriousWake(t) \/ Run(t)
      PROVE  NoRepeats' /\ Placed' /\ LossesCounted'
  BY <1>1, <1>q DEF Start, EvalPredicate, Sleep, SpuriousWake, Run
<1>2. ASSUME NEW t \in Callers, Take(t) PROVE NoRepeats' /\ Placed' /\ LossesCounted'
  <2>1. CASE b_stop_
    BY <1>2, <2>1, <1>q DEF Take
  <2>2. CASE ~b_stop_
    <3> DEFINE c == Head(pool_)
    <3>1. pool_ # <<>>
      BY <1>2, <1>t, <2>2 DEF Take, Typing, PredicateHeld
    <3>2. c \in InPool /\ InPool' = InPool \ {c} /\ NoRepeats'
      BY <1>2, <1>t, <2>2, <3>1, PopFront DEF Take
    <3>3. /\ con' = [con EXCEPT ![t] = c]
          /\ con \in [Callers -> Conns \cup {NoConn}]
          /\ UNCHANGED <<lost, misses, b_stop_, chk>>
      BY <1>2, <1>t, <2>2 DEF Take, TypeOK
    <3>4. con[t] = NoConn /\ c \in Conns
      BY <1>2, <1>t, <3>2 DEF Take, Typing, HolderKnown, TypeOK, InPool
    <3> HIDE DEF c
    <3>5. Placed'
      <4>1. \A u \in Callers : con'[u] = IF u = t THEN c ELSE con[u]
        BY <3>3
      <4>2. Conns = InPool' \cup lost' \cup ({con'[u] : u \in Callers} \ {NoConn})
        BY <1>t, <3>2, <3>3, <3>4, <4>1 DEF Placed
      <4> QED
        BY <1>t, <3>2, <3>3, <3>4, <4>1, <4>2 DEF Placed
    <3> QED
      BY <1>t, <3>2, <3>3, <3>5 DEF LossesCounted
  <2> QED
    BY <2>1, <2>2
<1>3. ASSUME NEW t \in Callers, Miss(t) PROVE NoRepeats' /\ Placed' /\ LossesCounted'
  <2>1. NoRepeats' /\ Placed' /\ Cardinality(lost') = Cardinality(lost) + 1
    BY <1>3, Losing DEF Miss
  <2> QED
    BY <1>3, <1>t, <2>1 DEF Miss, LossesCounted
<1>4. ASSUME NEW t \in Callers, ReturnConnection(t)
      PROVE  NoRepeats' /\ Placed' /\ LossesCounted'
  <2>1. con[t] \in Conns /\ con[t] \notin InPool
    BY <1>4, <1>t DEF ReturnConnection, Typing, TypeOK, HolderKnown, Placed
  <2>2. CASE b_stop_
    <3>1. NoRepeats' /\ Placed'
      BY <1>4, <2>2, Losing DEF ReturnConnection
    <3> QED
      BY <1>4, <2>2, <3>1 DEF ReturnConnection, LossesCounted
  <2>3. CASE ~b_stop_
    <3>1. InPool' = InPool \cup {con[t]} /\ NoRepeats'
      BY <1>4, <1>t, <2>1, <2>3, PushBack DEF ReturnConnection
    <3>2. /\ con' = [con EXCEPT ![t] = NoConn]
          /\ con \in [Callers -> Conns \cup {NoConn}]
          /\ UNCHANGED <<lost, misses, b_stop_, chk>>
      BY <1>4, <1>t, <2>3 DEF ReturnConnection, TypeOK
    <3>3. Placed'
      <4>1. \A u \in Callers : con'[u] = IF u = t THEN NoConn ELSE con[u]
        BY <3>2
      <4>2. NoConn \notin InPool' \cup lost' /\ con[t] \notin lost
        BY <1>t, <2>1, <3>1, <3>2 DEF TypeOK, InPool, Placed
      <4>3. \A u \in Callers : u # t => con[u] # con[t]
        BY <1>t, <2>1 DEF Placed
      <4>4. Conns = InPool' \cup lost' \cup ({con'[u] : u \in Callers} \ {NoConn})
        BY <1>t, <2>1, <3>1, <3>2, <4>1, <4>3 DEF Placed
      <4> QED
        BY <1>t, <2>1, <3>1, <3>2, <4>1, <4>2, <4>3, <4>4 DEF Placed
    <3> QED
      BY <1>t, <3>1, <3>2, <3>3 DEF LossesCounted
  <2> QED
    BY <2>2, <2>3
<1>5. CASE CheckFirst \/ CheckWake \/ CheckConnection
  BY <1>5, <1>q DEF CheckFirst, CheckWake, CheckConnection, CheckUnchanged
<1>6. CASE DbDown \/ DbBack
  BY <1>6, <1>q DEF DbDown, DbBack
<1>7. CASE CloseFlag \/ CloseNotify
  BY <1>7, <1>q DEF CloseFlag, CloseNotify, CloseUnchanged
<1>8. CASE Destroy
  <2>1. b_stop_' /\ InPool' = {} /\ lost' = lost \cup InPool /\ UNCHANGED con
    BY <1>8, <1>t DEF Destroy, CloseUnchanged, Typing, Closing, InPool
  <2>2. NoRepeats'
    BY <1>8 DEF Destroy, NoRepeats
  <2> QED
    BY <1>t, <2>1, <2>2 DEF Placed, LossesCounted
<1>9. CASE UNCHANGED vars
  BY <1>9, <1>q DEF vars
<1> QED
  BY <1>1, <1>2, <1>3, <1>4, <1>5, <1>6, <1>7, <1>8, <1>9, NextCases

(* A connection has one place, and while the pool runs the lost ones are   *)
(* those that CheckEmail dropped, one each.                                *)
THEOREM AccountsBalance == SafeSpec => []ConnAccounting
<1>1. AccountInv => ConnAccounting
  BY DEF AccountInv, ConnAccounting, NoRepeats, Placed, LossesCounted
<1> QED
  BY <1>1, AccountInit, AccountStep, PTL DEF SafeSpec

-----------------------------------------------------------------------------
(* No lost wakeup, unlocked Close() included: a caller falls asleep only   *)
(* when the queue is empty or the pool stopped.                            *)
WakeInv == Typing /\ NoLostWakeup

LEMMA CallersCounted ==
    IsFiniteSet(Coming) /\ Cardinality(Coming) \in Nat
  BY CallersFinite, FS_Subset, FS_CardinalityType DEF Coming

LEMMA WakeInit == Init => WakeInv
<1> SUFFICES ASSUME Init PROVE NoLostWakeup
  BY TypingInit DEF WakeInv
<1>1. Waiting = {}
  BY DEF Init, Waiting
<1> QED
  BY <1>1 DEF NoLostWakeup

LEMMA WakeStep == WakeInv /\ [Next]_vars => WakeInv'
<1> SUFFICES ASSUME WakeInv, [Next]_vars PROVE NoLostWakeup'
  BY TypingStep DEF WakeInv
<1>t. /\ TypeOK /\ Typing /\ NoLostWakeup
      /\ IsFiniteSet(Coming) /\ Cardinality(Coming) \in Nat /\ Len(pool_) \in Nat
  BY CallersCounted DEF WakeInv, Typing, TypeOK
<1>q. ASSUME UNCHANGED <<pool_, pc>>, b_stop_ => b_stop_' PROVE NoLostWakeup'
  BY <1>q, <1>t DEF NoLostWakeup, Waiting, Coming
<1>1. ASSUME NEW t \in Callers, Start(t) \/ SpuriousWake(t) PROVE NoLostWakeup'
  <2>1. /\ pc' = [pc EXCEPT ![t] = "call"] /\ pc[t] \in {"idle", "wait"}
        /\ UNCHANGED <<pool_, b_stop_>>
    BY <1>1 DEF Start, SpuriousWake
  <2>2. t \notin Coming /\ Coming' = Coming \cup {t} /\ Waiting' \subseteq Waiting
    BY <1>t, <2>1 DEF Coming, Waiting, TypeOK
  <2>3. Cardinality(Coming') = Cardinality(Coming) + 1
    BY <1>t, <2>2, FS_AddElement
  <2> QED
    BY <1>t, <2>1, <2>2, <2>3 DEF NoLostWakeup
<1>2. ASSUME NEW t \in Callers, EvalPredicate(t) PROVE NoLostWakeup'
  <2>1. CASE Predicate
    <3>1. pc' = [pc EXCEPT ![t] = "pass"] /\ pc[t] = "call" /\ UNCHANGED <<pool_, b_stop_>>
      BY <1>2, <2>1 DEF EvalPredicate
    <3>2. Coming' = Coming /\ Waiting' = Waiting
      BY <1>t, <3>1 DEF Coming, Waiting, TypeOK
    <3> QED
      BY <1>t, <3>1, <3>2 DEF NoLostWakeup
  <2>2. CASE ~Predicate
    <3>1. b_stop_' \/ pool_' = <<>>
      BY <1>2, <1>t, <2>2 DEF EvalPredicate, Predicate, TypeOK
    <3>2. Coming' \subseteq Coming
      BY <1>2, <1>t, <2>2 DEF EvalPredicate, Coming, TypeOK
    <3>3. Cardinality(Coming') \in Nat
      BY <1>t, <3>2, FS_Subset, FS_CardinalityType
    <3> QED
      BY <3>1, <3>3 DEF NoLostWakeup
  <2> QED
    BY <2>1, <2>2
<1>3. ASSUME NEW t \in Callers, Sleep(t) PROVE NoLostWakeup'
  <2>1. b_stop_' \/ pool_' = <<>>
    BY <1>3, <1>t DEF Sleep, Typing, PredicateHeld
  <2>2. Coming' = Coming
    BY <1>3, <1>t DEF Sleep, Coming, TypeOK
  <2> QED
    BY <1>t, <2>1, <2>2 DEF NoLostWakeup
<1>4. ASSUME NEW t \in Callers, Take(t) PROVE NoLostWakeup'
  <2>1. CASE b_stop_
    BY <1>4, <2>1 DEF Take, NoLostWakeup
  <2>2. CASE ~b_stop_
    <3>1. pool_ # <<>> /\ pool_' = Tail(pool_) /\ pc' = [pc EXCEPT ![t] = "run"]
          /\ pc[t] = "pass" /\ UNCHANGED b_stop_
      BY <1>4, <1>t, <2>2 DEF Take, Typing, PredicateHeld
    <3>2. Len(pool_') = Len(pool_) - 1
      BY <1>t, <3>1 DEF TypeOK
    <3>3. t \in Coming /\ Coming' = Coming \ {t} /\ Waiting' = Waiting
      BY <1>t, <3>1 DEF Coming, Waiting, TypeOK
    <3>4. Cardinality(Coming') = Cardinality(Coming) - 1
      BY <1>t, <3>3, FS_RemoveElement
    <3> QED
      BY <1>t, <3>1, <3>2, <3>3, <3>4 DEF NoLostWakeup
  <2> QED
    BY <2>1, <2>2
<1>5. ASSUME NEW t \in Callers, Run(t) \/ Miss(t) PROVE NoLostWakeup'
  <2>1. pc[t] = "run" /\ UNCHANGED <<pool_, b_stop_>>
        /\ \E to \in {"back", "idle"} : pc' = [pc EXCEPT ![t] = to]
    BY <1>5 DEF Run, Miss
  <2>2. Coming' = Coming /\ Waiting' = Waiting
    BY <1>t, <2>1 DEF Coming, Waiting, TypeOK
  <2> QED
    BY <1>t, <2>1, <2>2 DEF NoLostWakeup
<1>6. ASSUME NEW t \in Callers, ReturnConnection(t) PROVE NoLostWakeup'
  <2>1. CASE b_stop_
    BY <1>6, <2>1 DEF ReturnConnection, NoLostWakeup
  <2>2. CASE ~b_stop_ /\ Waiting = {}
    <3>1. pc' = [pc EXCEPT ![t] = "idle"]
      BY <1>6, <2>2 DEF ReturnConnection, NotifyOne
    <3>2. Waiting' = {}
      BY <1>t, <2>2, <3>1 DEF Waiting, TypeOK
    <3> QED
      BY <3>2 DEF NoLostWakeup
  <2>3. CASE ~b_stop_ /\ Waiting # {}
    <3>1. PICK w \in Waiting : pc' = [pc EXCEPT ![t] = "idle", ![w] = "call"]
      BY <1>6, <2>3 DEF ReturnConnection, NotifyOne
    <3>2. w \in Callers /\ w \notin Coming /\ w # t /\ t \notin Coming
      BY <1>6 DEF ReturnConnection, Waiting, Coming
    <3>3. Coming' = Coming \cup {w}
      BY <1>t, <3>1, <3>2 DEF Coming, TypeOK
    <3>4. Len(pool_') = Len(pool_) + 1
      <4>1. pool_' = Append(pool_, con[t]) /\ con[t] \in Conns
        BY <1>6, <1>t, <2>3 DEF ReturnConnection, Typing, TypeOK, HolderKnown
      <4> QED
        BY <1>t, <4>1 DEF TypeOK
    <3>5. Cardinality(Coming') = Cardinality(Coming) + 1
      BY <1>t, <3>2, <3>3, FS_AddElement
    <3> QED
      BY <1>t, <2>3, <3>4, <3>5 DEF NoLostWakeup
  <2> QED
    BY <2>1, <2>2, <2>3
<1>7. CASE CheckFirst \/ CheckWake \/ CheckConnection
  BY <1>7, <1>q DEF CheckFirst, CheckWake, CheckConnection, CheckUnchanged
<1>8. CASE DbDown \/ DbBack
  BY <1>8, <1>q DEF DbDown, DbBack
<1>9. CASE CloseFlag \/ CloseNotify \/ Destroy
  <2>1. b_stop_'
    BY <1>9, <1>t DEF CloseFlag, CloseNotify, Destroy, Typing, Closing, CloseUnchanged
  <2> QED
    BY <2>1 DEF NoLostWakeup
<1>10. CASE UNCHANGED vars
  BY <1>10, <1>q DEF vars
<1> QED
  BY <1>1, <1>2, <1>3, <1>4, <1>5, <1>6, <1>7, <1>8, <1>9, <1>10, NextCases

(* While the pool runs nobody is left asleep beside a queued connection    *)
(* that nobody is coming for.                                              *)
THEOREM WakeupsSafe == SafeSpec => []NoLostWakeup
<1>1. WakeInv => NoLostWakeup
  BY DEF WakeInv
<1> QED
  BY <1>1, WakeInit, WakeStep, PTL DEF SafeSpec

-----------------------------------------------------------------------------
(* Where a caller is that has not passed its predicate. *)
Inside == {"call", "block", "wait"}

LEMMA StopStrands ==
    ASSUME Typing, [Next]_vars, b_stop_, NEW t \in Callers, pc[t] \in Inside
    PROVE  pc'[t] \in Inside
<1> USE DEF Inside
<1>t. pc \in [Callers -> {"idle", "call", "block", "wait", "pass", "run", "back"}]
  BY DEF Typing, TypeOK
<1>1. ASSUME NEW u \in Callers, EvalPredicate(u) PROVE pc'[t] \in Inside
  BY <1>1, <1>t DEF EvalPredicate, Predicate
<1>2. ASSUME NEW u \in Callers, ReturnConnection(u) PROVE pc'[t] \in Inside
  BY <1>2, <1>t DEF ReturnConnection
<1>3. ASSUME NEW u \in Callers,
             Start(u) \/ Sleep(u) \/ SpuriousWake(u) \/ Take(u) \/ Run(u) \/ Miss(u)
      PROVE  pc'[t] \in Inside
  BY <1>3, <1>t DEF Start, Sleep, SpuriousWake, Take, Run, Miss
<1>4. CASE CloseNotify
  BY <1>4, <1>t DEF CloseNotify, Waiting
<1>5. CASE \/ CheckFirst \/ CheckWake \/ CheckConnection \/ DbDown \/ DbBack
           \/ CloseFlag \/ Destroy \/ UNCHANGED vars
  BY <1>5 DEF CheckFirst, CheckWake, CheckConnection, CheckUnchanged, DbDown, DbBack,
              CloseFlag, Destroy, vars
<1> QED
  BY <1>1, <1>2, <1>3, <1>4, <1>5, NextCases

(* A caller that has not passed its predicate when b_stop_ is set never    *)
(* passes it: Close()'s notify_all wakes it for nothing.                   *)
THEOREM StopStrandsCallers == SafeSpec => StoppedCallersStay
<1>1. Typing /\ [Next]_vars =>
          [\A t \in Callers : b_stop_ /\ pc[t] \in {"call", "block", "wait"}
                => pc'[t] \in {"call", "block", "wait"}]_vars
  BY StopStrands DEF Inside
<1> QED
  BY <1>1, TypingInit, TypingStep, PTL DEF SafeSpec, StoppedCallersStay

-----------------------------------------------------------------------------
(* Refinement: each operation is one step of the abstract pool or none. *)
LEMMA AbstractInit == Init => Abstract!Init
<1> SUFFICES ASSUME Init PROVE Abstract!Init
  OBVIOUS
<1>1. InPool \subseteq Conns
  BY TypingInit DEF Typing, TypeOK, InPool
<1> QED
  BY <1>1 DEF Init, Abstract!Init

LEMMA AbstractStep == AccountInv /\ [Next]_vars => [Abstract!Next]_Abstract!apVars
<1> SUFFICES ASSUME AccountInv, [Next]_vars PROVE [Abstract!Next]_Abstract!apVars
  OBVIOUS
<1>t. TypeOK /\ Typing /\ NoRepeats /\ Placed
  BY DEF AccountInv, Typing
<1>q. ASSUME UNCHANGED <<pool_, con, b_stop_>> PROVE [Abstract!Next]_Abstract!apVars
  BY <1>q DEF Abstract!apVars, InPool
<1>1. ASSUME NEW t \in Callers, Take(t) PROVE [Abstract!Next]_Abstract!apVars
  <2>1. CASE b_stop_
    BY <1>1, <2>1, <1>q DEF Take
  <2>2. CASE ~b_stop_
    <3>1. pool_ # <<>>
      BY <1>1, <1>t, <2>2 DEF Take, Typing, PredicateHeld
    <3>2. Head(pool_) \in InPool /\ InPool' = InPool \ {Head(pool_)}
      BY <1>1, <1>t, <2>2, <3>1, PopFront DEF Take
    <3>3. con[t] = NoConn
      BY <1>1, <1>t DEF Take, Typing, HolderKnown
    <3>4. Abstract!Acquire(t)
      BY <1>1, <2>2, <3>2, <3>3 DEF Take, Abstract!Acquire
    <3> QED
      BY <3>4 DEF Abstract!Next
  <2> QED
    BY <2>1, <2>2
<1>2. ASSUME NEW t \in Callers, Miss(t) PROVE Abstract!Drop(t)
  <2>1. con[t] # NoConn
    BY <1>2, <1>t DEF Miss, Typing, HolderKnown
  <2> QED
    BY <1>2, <2>1 DEF Miss, Abstract!Drop, InPool
<1>3. ASSUME NEW t \in Callers, ReturnConnection(t)
      PROVE  Abstract!Release(t) \/ Abstract!Drop(t)
  <2>1. con[t] \in Conns /\ con[t] # NoConn /\ con[t] \notin InPool
    BY <1>3, <1>t DEF ReturnConnection, Typing, TypeOK, HolderKnown, Placed
  <2>2. CASE b_stop_
    BY <1>3, <2>1, <2>2 DEF ReturnConnection, Abstract!Drop, InPool
  <2>3. CASE ~b_stop_
    <3>1. InPool' = InPool \cup {con[t]}
      BY <1>3, <1>t, <2>1, <2>3, PushBack DEF ReturnConnection
    <3> QED
      BY <1>3, <2>1, <2>3, <3>1 DEF ReturnConnection, Abstract!Release
  <2> QED
    BY <2>2, <2>3
<1>4. CASE CloseFlag
  <2>1. InPool' = InPool /\ con' = con /\ b_stop_' = TRUE
    BY <1>4 DEF CloseFlag, CloseUnchanged, InPool
  <2> QED
    BY <2>1 DEF Abstract!Next, Abstract!Stop
<1>5. CASE Destroy
  <2>1. InPool' = {} /\ con' = con /\ b_stop_' = TRUE
    BY <1>5, <1>t DEF Destroy, CloseUnchanged, InPool, Typing, Closing, TypeOK
  <2> QED
    BY <2>1 DEF Abstract!Next, Abstract!Stop
<1>6. ASSUME NEW t \in Callers,
             Start(t) \/ EvalPredicate(t) \/ Sleep(t) \/ SpuriousWake(t) \/ Run(t)
      PROVE  [Abstract!Next]_Abstract!apVars
  BY <1>6, <1>q DEF Start, EvalPredicate, Sleep, SpuriousWake, Run
<1>7. CASE CheckFirst \/ CheckWake \/ CheckConnection \/ DbDown \/ DbBack \/ CloseNotify
           \/ UNCHANGED vars
  BY <1>7, <1>q DEF CheckFirst, CheckWake, CheckConnection, CheckUnchanged, DbDown, DbBack,
                    CloseNotify, CloseUnchanged, vars
<1> QED
  BY <1>1, <1>2, <1>3, <1>4, <1>5, <1>6, <1>7, NextCases DEF Abstract!Next

(* The MySQL pool implements the abstract one: an owner per connection,    *)
(* and nothing handed out after b_stop_ is set, although Close() takes no  *)
(* lock.                                                                   *)
THEOREM PoolRefinement == SafeSpec => ImplementsPool
  BY AbstractInit, AbstractStep, AccountInit, AccountStep, PTL
     DEF SafeSpec, ImplementsPool, Abstract!Spec
=============================================================================
