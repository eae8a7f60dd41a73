--------------------------- MODULE RpcPoolProofs ---------------------------
(***************************************************************************)
(* Proofs about the stub pool, for every number of callers and stubs.      *)
(***************************************************************************)
EXTENDS RpcPool, FiniteSetTheorems, SequenceTheorems, TLAPS

(* The next-state relation split into one case per operation. *)
LEMMA NextCases ==
    ASSUME [Next]_vars
    PROVE  \/ \E t \in Callers : Start(t)
           \/ \E t \in Callers : TakeStub(t)
           \/ \E t \in Callers : Wait(t)
           \/ \E t \in Callers : ReturnNull(t)
           \/ \E t \in Callers : Rpc(t)
           \/ \E t \in Callers : ReturnConnection(t)
           \/ \E t \in Callers : SpuriousWake(t)
           \/ Destroy
           \/ UNCHANGED vars
  BY DEF Next, Step

(* The queue the constructor fills holds stub i in slot i. *)
LEMMA InitialQueue ==
    ASSUME Init
    PROVE  /\ connections_ \in Seq(Stubs)
           /\ Len(connections_) = PoolSize
           /\ \A i \in Stubs : connections_[i] = i
<1>1. connections_ \in [1..PoolSize -> Stubs]
  BY DEF Init, Stubs
<1>2. connections_ \in Seq(Stubs)
  BY <1>1, PoolSizePositive, IsASeq DEF Init, Stubs
<1> QED
  BY <1>1, <1>2, PoolSizePositive, LenProperties DEF Init, Stubs

(* The callers asleep or on their way to a stub are finitely many. *)
LEMMA CallersCounted ==
    /\ IsFiniteSet(Waiting)
    /\ IsFiniteSet(AtCall)
    /\ Cardinality(AtCall) \in Nat
  BY CallersFinite, FS_Subset, FS_CardinalityType DEF Waiting, AtCall

-----------------------------------------------------------------------------
(* Types, and who may hold a stub: the two need each other, because        *)
(* returnConnection queues whatever its caller holds.                      *)
Typing == TypeOK /\ HolderKnown

LEMMA TypingInit == Init => Typing
  BY InitialQueue DEF Init, Typing, TypeOK, HolderKnown, Stubs, NoStub

LEMMA TypingStep == Typing /\ [Next]_vars => Typing'
<1> SUFFICES ASSUME Typing, [Next]_vars PROVE Typing'
  OBVIOUS
<1> USE DEF Typing, TypeOK, HolderKnown
<1>1. ASSUME NEW t \in Callers, Start(t) PROVE Typing'
  BY <1>1 DEF Start
<1>2. ASSUME NEW t \in Callers, TakeStub(t) PROVE Typing'
  <2>1. Head(connections_) \in Stubs /\ Tail(connections_) \in Seq(Stubs)
    BY <1>2 DEF TakeStub
  <2> QED
    BY <1>2, <2>1, PoolSizePositive DEF TakeStub, Stubs, NoStub
<1>3. ASSUME NEW t \in Callers, Wait(t) PROVE Typing'
  BY <1>3 DEF Wait
<1>4. ASSUME NEW t \in Callers, ReturnNull(t) PROVE Typing'
  BY <1>4 DEF ReturnNull
<1>5. ASSUME NEW t \in Callers, Rpc(t) PROVE Typing'
  BY <1>5 DEF Rpc
<1>6. ASSUME NEW t \in Callers, ReturnConnection(t) PROVE Typing'
  <2>1. stub[t] \in Stubs
    BY <1>6 DEF ReturnConnection
  <2>2. connections_' \in Seq(Stubs)
    BY <1>6, <2>1 DEF ReturnConnection
  <2>3. \/ pc' = [pc EXCEPT ![t] = "idle"]
        \/ \E w \in Waiting : pc' = [pc EXCEPT ![t] = "idle", ![w] = "call"]
    BY <1>6 DEF ReturnConnection, NotifyOne
  <2>4. CASE pc' = [pc EXCEPT ![t] = "idle"]
    BY <1>6, <2>2, <2>4 DEF ReturnConnection
  <2>5. ASSUME NEW w \in Waiting, pc' = [pc EXCEPT ![t] = "idle", ![w] = "call"]
        PROVE  Typing'
    BY <1>6, <2>2, <2>5 DEF ReturnConnection, Waiting
  <2> QED
    BY <2>3, <2>4, <2>5
<1>7. ASSUME NEW t \in Callers, SpuriousWake(t) PROVE Typing'
  BY <1>7 DEF SpuriousWake
<1>8. CASE Destroy
  BY <1>8 DEF Destroy, Waiting
<1>9. CASE UNCHANGED vars
  BY <1>9 DEF vars
<1> QED
  BY <1>1, <1>2, <1>3, <1>4, <1>5, <1>6, <1>7, <1>8, <1>9, NextCases

(* Every operation of the stub pool keeps the types of its state. *)
THEOREM TypeCorrect == SafeSpec => []TypeOK
<1>1. Typing => TypeOK
  BY DEF Typing
<1> QED
  BY <1>1, TypingInit, TypingStep, PTL DEF SafeSpec

-----------------------------------------------------------------------------
(* What popping and queueing do to the set of queued stubs. *)
LEMMA PopFront ==
    ASSUME Typing, Unshared, connections_ # <<>>,
           connections_' = Tail(connections_)
    PROVE  /\ Head(connections_) \in InPool
           /\ InPool' = InPool \ {Head(connections_)}
           /\ \A i, j \in 1..Len(connections_') :
                 connections_'[i] = connections_'[j] => i = j
<1> USE DEF Typing, TypeOK, Unshared, InPool
<1>1. /\ Len(connections_) \in Nat \ {0}
      /\ Len(connections_') = Len(connections_) - 1
      /\ \A i \in 1..Len(connections_') : connections_'[i] = connections_[i + 1]
      /\ Head(connections_) = connections_[1]
  OBVIOUS
<1>2. Head(connections_) \in InPool
  BY <1>1
<1>3. \A i \in 2..Len(connections_) : i - 1 \in 1..Len(connections_')
                                      /\ connections_'[i - 1] = connections_[i]
  BY <1>1
<1>4. \A s : s \in InPool' <=> s \in InPool /\ s # Head(connections_)
  <2>1. ASSUME NEW i \in 1..Len(connections_')
        PROVE  connections_'[i] \in InPool /\ connections_'[i] # Head(connections_)
    BY <1>1
  <2>2. ASSUME NEW i \in 1..Len(connections_), connections_[i] # Head(connections_)
        PROVE  connections_[i] \in InPool'
    <3>1. i \in 2..Len(connections_)
      BY <1>1, <2>2
    <3> QED
      BY <1>3, <3>1
  <2> QED
    BY <2>1, <2>2
<1> QED
  BY <1>1, <1>2, <1>4

LEMMA PushBack ==
    ASSUME Typing, Unshared, NEW s \in Stubs, s \notin InPool,
           connections_' = Append(connections_, s)
    PROVE  /\ InPool' = InPool \cup {s}
           /\ \A i, j \in 1..Len(connections_') :
                 connections_'[i] = connections_'[j] => i = j
<1> USE DEF Typing, TypeOK, Unshared, InPool
<1>1. /\ Len(connections_) \in Nat
      /\ Len(connections_') = Len(connections_) + 1
      /\ \A i \in 1..Len(connections_) : connections_'[i] = connections_[i]
      /\ connections_'[Len(connections_) + 1] = s
  OBVIOUS
<1>2. \A i \in 1..Len(connections_') : i \in 1..Len(connections_)
                                       \/ i = Len(connections_) + 1
  BY <1>1
<1> QED
  BY <1>1, <1>2

(* Ownership: the inductive invariant is the property itself with Typing. *)
OwnInv == Typing /\ Unshared /\ Conserved

LEMMA OwnInit == Init => OwnInv
<1> SUFFICES ASSUME Init PROVE Unshared /\ Conserved
  BY TypingInit DEF OwnInv
<1>1. InPool = Stubs
  BY InitialQueue DEF InPool, Stubs
<1>2. stub = [t \in Callers |-> NoStub] /\ NoStub \notin Stubs
  BY DEF Init, NoStub, Stubs
<1>3. \A i, j \in 1..Len(connections_) : connections_[i] = connections_[j] => i = j
  BY InitialQueue DEF Stubs
<1> QED
  BY <1>1, <1>2, <1>3 DEF Unshared, Conserved

LEMMA OwnStep == OwnInv /\ [Next]_vars => OwnInv'
<1> SUFFICES ASSUME OwnInv, [Next]_vars PROVE Unshared' /\ Conserved'
  BY TypingStep DEF OwnInv
<1>t. Typing /\ Unshared /\ Conserved /\ NoStub \notin Stubs
  BY DEF OwnInv, NoStub, Stubs
<1>q. ASSUME UNCHANGED <<connections_, stub, b_stop_>> PROVE Unshared' /\ Conserved'
  BY <1>q, <1>t DEF Unshared, Conserved, InPool
<1>1. ASSUME NEW t \in Callers, Start(t) PROVE Unshared' /\ Conserved'
  BY <1>1, <1>q DEF Start
<1>2. ASSUME NEW t \in Callers, TakeStub(t) PROVE Unshared' /\ Conserved'
  <2> DEFINE s == Head(connections_)
  <2>1. /\ s \in InPool
        /\ InPool' = InPool \ {s}
        /\ \A i, j \in 1..Len(connections_') : connections_'[i] = connections_'[j] => i = j
    BY <1>2, <1>t, PopFront DEF TakeStub
  <2>2. stub' = [stub EXCEPT ![t] = s] /\ stub \in [Callers -> Stubs \cup {NoStub}]
    BY <1>2, <1>t DEF TakeStub, Typing, TypeOK
  <2>3. stub[t] = NoStub
    BY <1>2, <1>t DEF TakeStub, Typing, HolderKnown
  <2> HIDE DEF s
  <2>4. Unshared'
    BY <2>1, <2>2, <1>t DEF Unshared
  <2>5. Conserved'
    BY <1>2, <2>1, <2>2, <2>3, <1>t DEF Conserved, TakeStub
  <2> QED
    BY <2>4, <2>5
<1>3. ASSUME NEW t \in Callers, Wait(t) PROVE Unshared' /\ Conserved'
  BY <1>3, <1>q DEF Wait
<1>4. ASSUME NEW t \in Callers, ReturnNull(t) PROVE Unshared' /\ Conserved'
  BY <1>4, <1>q DEF ReturnNull
<1>5. ASSUME NEW t \in Callers, Rpc(t) PROVE Unshared' /\ Conserved'
  BY <1>5, <1>q DEF Rpc
<1>6. ASSUME NEW t \in Callers, ReturnConnection(t) PROVE Unshared' /\ Conserved'
  <2>1. stub[t] \in Stubs /\ stub[t] # NoStub /\ stub[t] \notin InPool
    BY <1>6, <1>t DEF ReturnConnection, Typing, TypeOK, HolderKnown, Unshared
  <2>2. stub' = [stub EXCEPT ![t] = NoStub] /\ stub \in [Callers -> Stubs \cup {NoStub}]
    BY <1>6, <1>t DEF ReturnConnection, Typing, TypeOK
  <2>3. CASE b_stop_
    <3>1. InPool' = InPool /\ connections_' = connections_ /\ b_stop_'
      BY <1>6, <2>3 DEF ReturnConnection, InPool
    <3>2. NoStub \notin InPool
      BY <1>t DEF InPool, Typing, TypeOK
    <3> QED
      BY <3>1, <3>2, <2>2, <1>t DEF Unshared, Conserved
  <2>4. CASE ~b_stop_
    <3>1. /\ InPool' = InPool \cup {stub[t]}
          /\ \A i, j \in 1..Len(connections_') : connections_'[i] = connections_'[j] => i = j
      BY <1>6, <2>1, <2>4, <1>t, PushBack DEF ReturnConnection
    <3>2. NoStub \notin InPool
      BY <1>t DEF InPool, Typing, TypeOK
    <3>3. Unshared'
      BY <3>1, <3>2, <2>1, <2>2, <1>t DEF Unshared
    <3>4. Conserved'
      BY <1>6, <3>1, <2>2, <1>t DEF Conserved, ReturnConnection
    <3> QED
      BY <3>3, <3>4
  <2> QED
    BY <2>3, <2>4
<1>7. ASSUME NEW t \in Callers, SpuriousWake(t) PROVE Unshared' /\ Conserved'
  BY <1>7, <1>q DEF SpuriousWake
<1>8. CASE Destroy
  BY <1>8, <1>t DEF Destroy, Unshared, Conserved, InPool
<1>9. CASE UNCHANGED vars
  BY <1>9, <1>q DEF vars
<1> QED
  BY <1>1, <1>2, <1>3, <1>4, <1>5, <1>6, <1>7, <1>8, <1>9, NextCases

(* No stub is shared by two callers, none is lost while the pool lives,    *)
(* and only a caller between its getConnection and its returnConnection    *)
(* holds one: for any number of callers and stubs.                         *)
THEOREM OwnershipSafe == SafeSpec => []StubOwnership
<1>1. OwnInv => StubOwnership
  BY DEF OwnInv, StubOwnership, Typing
<1> QED
  BY <1>1, OwnInit, OwnStep, PTL DEF SafeSpec

-----------------------------------------------------------------------------
(* No lost wakeup.  The invariant is inductive with the types: a sleeper   *)
(* only appears when the queue is empty, a stub taken is a caller less on  *)
(* its way, and a stub queued is a sleeper more on its way.                *)
WakeInv == Typing /\ NoLostWakeup

(* Moving one more caller to "call" adds one to the count, moving one away *)
(* takes one from it.                                                      *)
LEMMA OneMoreAtCall ==
    ASSUME NEW w \in Callers, w \notin AtCall, AtCall' = AtCall \cup {w}
    PROVE  Cardinality(AtCall') = Cardinality(AtCall) + 1
  BY CallersCounted, FS_AddElement

LEMMA OneLessAtCall ==
    ASSUME NEW t \in AtCall, AtCall' = AtCall \ {t}
    PROVE  Cardinality(AtCall') = Cardinality(AtCall) - 1
  BY CallersCounted, FS_RemoveElement

LEMMA WakeInit == Init => WakeInv
<1> SUFFICES ASSUME Init PROVE NoLostWakeup
  BY TypingInit DEF WakeInv
<1>1. Waiting = {} /\ ~b_stop_
  BY DEF Init, Waiting
<1> QED
  BY <1>1 DEF NoLostWakeup

LEMMA WakeStep == WakeInv /\ [Next]_vars => WakeInv'
<1> SUFFICES ASSUME WakeInv, [Next]_vars PROVE NoLostWakeup'
  BY TypingStep DEF WakeInv
<1>t. /\ TypeOK /\ NoLostWakeup
      /\ Cardinality(AtCall) \in Nat /\ Len(connections_) \in Nat
  BY CallersCounted DEF WakeInv, Typing, TypeOK
<1>1. ASSUME NEW t \in Callers, Start(t) PROVE NoLostWakeup'
  <2>1. t \notin AtCall /\ AtCall' = AtCall \cup {t} /\ Waiting' = Waiting
    BY <1>1, <1>t DEF Start, AtCall, Waiting, TypeOK
  <2>2. Cardinality(AtCall') = Cardinality(AtCall) + 1
    BY <2>1, OneMoreAtCall
  <2> QED
    BY <2>1, <2>2, <1>1, <1>t DEF Start, NoLostWakeup
<1>2. ASSUME NEW t \in Callers, TakeStub(t) PROVE NoLostWakeup'
  <2>1. t \in AtCall /\ AtCall' = AtCall \ {t} /\ Waiting' = Waiting
    BY <1>2, <1>t DEF TakeStub, AtCall, Waiting, TypeOK
  <2>2. Len(connections_') = Len(connections_) - 1
    BY <1>2, <1>t DEF TakeStub, TypeOK
  <2>3. Cardinality(AtCall') = Cardinality(AtCall) - 1
    BY <2>1, OneLessAtCall
  <2> QED
    BY <2>1, <2>2, <2>3, <1>2, <1>t DEF TakeStub, NoLostWakeup
<1>3. ASSUME NEW t \in Callers, Wait(t) PROVE NoLostWakeup'
  <2>1. Len(connections_') = 0 /\ ~b_stop_'
    BY <1>3 DEF Wait
  <2>2. Cardinality(AtCall') \in Nat
    <3>1. AtCall' \subseteq AtCall
      BY <1>3, <1>t DEF Wait, AtCall, TypeOK
    <3> QED
      BY <3>1, CallersCounted, FS_Subset, FS_CardinalityType
  <2> QED
    BY <2>1, <2>2 DEF NoLostWakeup
<1>4. ASSUME NEW t \in Callers, ReturnNull(t) PROVE NoLostWakeup'
  BY <1>4, <1>t DEF ReturnNull, NoLostWakeup, Waiting, AtCall
<1>5. ASSUME NEW t \in Callers, Rpc(t) PROVE NoLostWakeup'
  <2>1. AtCall' = AtCall /\ Waiting' = Waiting
    BY <1>5, <1>t DEF Rpc, AtCall, Waiting, TypeOK
  <2> QED
    BY <2>1, <1>5, <1>t DEF Rpc, NoLostWakeup
<1>6. ASSUME NEW t \in Callers, ReturnConnection(t) PROVE NoLostWakeup'
  <2>1. CASE Waiting = {} \/ b_stop_
    <3>1. Waiting = {}
      BY <2>1, <1>t DEF NoLostWakeup
    <3>2. pc' = [pc EXCEPT ![t] = "idle"]
      BY <3>1, <1>6 DEF ReturnConnection, NotifyOne
    <3>3. Waiting' = {}
      BY <3>1, <3>2, <1>t DEF Waiting, TypeOK
    <3> QED
      BY <3>3 DEF NoLostWakeup
  <2>2. CASE Waiting # {} /\ ~b_stop_
    <3>1. PICK w \in Waiting : pc' = [pc EXCEPT ![t] = "idle", ![w] = "call"]
      BY <2>2, <1>6 DEF ReturnConnection, NotifyOne
    <3>2. /\ w \in Callers /\ w \notin AtCall /\ w # t /\ t \notin AtCall
      BY <1>6 DEF ReturnConnection, Waiting, AtCall
    <3>3. AtCall' = AtCall \cup {w}
      BY <3>1, <3>2, <1>t DEF AtCall, TypeOK
    <3>4. Len(connections_') = Len(connections_) + 1 /\ ~b_stop_'
      <4>1. connections_' = Append(connections_, stub[t])
        BY <2>2, <1>6 DEF ReturnConnection
      <4>2. stub[t] \in Stubs
        BY <1>6 DEF ReturnConnection, WakeInv, Typing, TypeOK, HolderKnown
      <4> QED
        BY <4>1, <4>2, <2>2, <1>6, <1>t DEF ReturnConnection, TypeOK
    <3>5. Cardinality(AtCall') = Cardinality(AtCall) + 1
      BY <3>2, <3>3, OneMoreAtCall
    <3> QED
      BY <2>2, <3>4, <3>5, <1>t DEF NoLostWakeup
  <2> QED
    BY <2>1, <2>2
<1>7. ASSUME NEW t \in Callers, SpuriousWake(t) PROVE NoLostWakeup'
  <2>1. /\ t \notin AtCall /\ AtCall' = AtCall \cup {t}
        /\ Waiting' \subseteq Waiting
    BY <1>7, <1>t DEF SpuriousWake, AtCall, Waiting, TypeOK
  <2>2. Cardinality(AtCall') = Cardinality(AtCall) + 1
    BY <2>1, OneMoreAtCall
  <2> QED
    BY <2>1, <2>2, <1>7, <1>t DEF SpuriousWake, NoLostWakeup
<1>8. CASE Destroy
  BY <1>8 DEF Destroy, NoLostWakeup, Waiting
<1>9. CASE UNCHANGED vars
  BY <1>9, <1>t DEF vars, NoLostWakeup, Waiting, AtCall
<1> QED
  BY <1>1, <1>2, <1>3, <1>4, <1>5, <1>6, <1>7, <1>8, <1>9, NextCases

(* returnConnection's notify_one never leaves a caller asleep beside a     *)
(* stub that nobody is coming for, and nobody sleeps on a closed pool.     *)
THEOREM WakeupsSafe == SafeSpec => []NoLostWakeup
<1>1. WakeInv => NoLostWakeup
  BY DEF WakeInv
<1> QED
  BY <1>1, WakeInit, WakeStep, PTL DEF SafeSpec

-----------------------------------------------------------------------------
(* Refinement: each operation is one step of the abstract pool or none. *)
LEMMA AbstractInit == Init => Abstract!Init
<1> SUFFICES ASSUME Init PROVE Abstract!Init
  OBVIOUS
<1>1. InPool = Stubs
  BY InitialQueue DEF InPool, Stubs
<1> QED
  BY <1>1 DEF Init, Abstract!Init

LEMMA AbstractStep == OwnInv /\ [Next]_vars => [Abstract!Next]_Abstract!apVars
<1> SUFFICES ASSUME OwnInv, [Next]_vars PROVE [Abstract!Next]_Abstract!apVars
  OBVIOUS
<1>t. Typing /\ Unshared
  BY DEF OwnInv
<1>q. ASSUME UNCHANGED <<connections_, stub, b_stop_>>
      PROVE  [Abstract!Next]_Abstract!apVars
  BY <1>q DEF Abstract!apVars, InPool
<1>1. ASSUME NEW t \in Callers, TakeStub(t) PROVE Abstract!Acquire(t)
  <2>1. Head(connections_) \in InPool /\ InPool' = InPool \ {Head(connections_)}
    BY <1>1, <1>t, PopFront DEF TakeStub
  <2>2. stub[t] = NoStub
    BY <1>1, <1>t DEF TakeStub, Typing, HolderKnown
  <2> QED
    BY <1>1, <2>1, <2>2 DEF TakeStub, Abstract!Acquire
<1>2. ASSUME NEW t \in Callers, ReturnConnection(t)
      PROVE  Abstract!Release(t) \/ Abstract!Drop(t)
  <2>1. stub[t] \in Stubs /\ stub[t] # NoStub /\ stub[t] \notin InPool
    BY <1>2, <1>t DEF ReturnConnection, Typing, TypeOK, HolderKnown, Unshared
  <2>2. CASE b_stop_
    BY <1>2, <2>1, <2>2 DEF ReturnConnection, Abstract!Drop, InPool
  <2>3. CASE ~b_stop_
    <3>1. InPool' = InPool \cup {stub[t]}
      BY <1>2, <2>1, <2>3, <1>t, PushBack DEF ReturnConnection
    <3> QED
      BY <1>2, <2>1, <2>3, <3>1 DEF ReturnConnection, Abstract!Release
  <2> QED
    BY <2>2, <2>3
<1>3. CASE Destroy
  <2>1. InPool' = {}
    BY <1>3 DEF Destroy, InPool
  <2> QED
    BY <1>3, <2>1 DEF Destroy, Abstract!Next, Abstract!Stop
<1>4. ASSUME NEW t \in Callers,
             Start(t) \/ Wait(t) \/ ReturnNull(t) \/ Rpc(t) \/ SpuriousWake(t)
      PROVE  [Abstract!Next]_Abstract!apVars
  BY <1>4, <1>q DEF Start, Wait, ReturnNull, Rpc, SpuriousWake
<1>5. CASE UNCHANGED vars
  BY <1>5, <1>q DEF vars
<1> QED
  BY <1>1, <1>2, <1>3, <1>4, <1>5, NextCases DEF Abstract!Next

(* The queue, the flag and the condition variable of RPConPool implement   *)
(* the abstract pool in which a connection has one owner.                  *)
THEOREM PoolRefinement == SafeSpec => ImplementsPool
  BY AbstractInit, AbstractStep, OwnInit, OwnStep, PTL
     DEF SafeSpec, ImplementsPool, Abstract!Spec
=============================================================================
