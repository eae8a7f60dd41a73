------------------------ MODULE HttpConnectionProofs ------------------------
(***************************************************************************)
(* Proofs about the accept loop, the round robin over the contexts and the *)
(* deadlines, for every set of connections and every size of the pool.     *)
(***************************************************************************)
EXTENDS HttpConnection, TLAPS

Phases == {"gone", "accept", "read", "request", "failed", "handling", "handled"}
Writes == {"none", "pending", "ready", "over"}
Timers == {"none", "waiting", "expired", "aborted", "over"}

Connection == [phase : Phases, ctx : Contexts, due : BOOLEAN, open : BOOLEAN,
               wr : Writes, tm : Timers]

(* An accept moves on to the next connection; every other step changes one *)
(* connection and leaves the acceptor alone.                               *)
AcceptStep == \E c, d \in Conns : Accept(c, d)
FailStep == \E c \in Conns : AcceptFails(c)

LEMMA NextCases ==
    ASSUME [Next]_vars
    PROVE  \/ AcceptStep \/ FailStep
           \/ \E c \in Conns : Elapse(c)
           \/ \E c \in Conns : ReadEnds(c)
           \/ \E c \in Conns : WriteEnds(c)
           \/ \E c \in Conns : TimerFires(c)
           \/ \E c \in Conns : OnFailedRead(c)
           \/ \E c \in Conns : OnRequest(c)
           \/ \E c \in Conns : OnWritten(c)
           \/ \E c \in Conns : OnDeadline(c)
           \/ \E c \in Conns : Responds(c)
           \/ \E c \in Conns : RespondsNothing(c)
           \/ \E c \in Conns : Throws(c)
           \/ UNCHANGED vars
  BY DEF Next, Queued, Returns, AcceptStep, FailStep

(* Connections are made well-typed, and end so.                            *)
LEMMA NewTyped ==
    /\ \A k \in Contexts : New(k) \in Connection
    /\ Gone \in Connection
    /\ \A r \in Connection : Left(r) \in Connection
<1>1. 0 \in Contexts
  BY SizePositive DEF Contexts
<1>2. \A k \in Contexts : New(k) \in Connection
  BY DEF New, Connection, Phases, Writes, Timers
<1>3. Gone \in Connection
  BY <1>1, <1>2 DEF Gone, Connection, Phases
<1> QED
  BY <1>2, <1>3 DEF Left

LEMMA WrapTyped == \A n \in Contexts : Wrap(n + 1) \in Contexts
  BY SizePositive DEF Wrap, Contexts

-----------------------------------------------------------------------------
(* What one connection keeps: its write is over only if its deadline has   *)
(* been cancelled or has expired, and a write is pending only on a request *)
(* handled, with its deadline set or its socket closed.                    *)
Guarded(r) ==
    /\ r.wr \in {"pending", "ready"} => r.tm \in {"waiting", "expired", "over"}
    /\ r.wr = "over" => r.tm \in {"aborted", "expired"}
    /\ r.tm = "aborted" => r.wr = "over"
    /\ r.phase # "handled" => r.wr = "none" /\ r.tm = "none"
    /\ r.tm = "over" => r.wr \in {"pending", "ready"} /\ ~r.open

(* The connections, typed and guarded. *)
ConInv == con \in [Conns -> Connection] /\ \A c \in Conns : Guarded(con[c])

Live == {c \in Conns : con[c].phase = "accept"}

(* A step of one connection that is not the one being accepted.            *)
LEMMA ChangeKeeps ==
    ASSUME ConInv, AlwaysAccepting, NEW c \in Conns, NEW r \in Connection, Change(c, r),
           Guarded(r), r.phase = "accept" <=> con[c].phase = "accept"
    PROVE  /\ ConInv' /\ AlwaysAccepting'
           /\ UNCHANGED <<nextIOService_, recent>>
<1>1. con' = [con EXCEPT ![c] = r] /\ UNCHANGED <<nextIOService_, recent>>
  BY DEF Change
<1>2. ConInv'
  BY <1>1 DEF ConInv
<1>3. AlwaysAccepting'
  BY <1>1 DEF ConInv, AlwaysAccepting
<1> QED
  BY <1>1, <1>2, <1>3

LEMMA ConnectionStep ==
    ASSUME ConInv, AlwaysAccepting, nextIOService_ \in Contexts, [Next]_vars
    PROVE  /\ ConInv' /\ AlwaysAccepting'
           /\ GetIOService \/ UNCHANGED <<nextIOService_, recent>>
<1> USE DEF Connection, Phases, Writes, Timers
<1>1. CASE AcceptStep
  <2>1. PICK c \in Conns, d \in Conns :
           /\ con[c].phase = "accept" /\ con[d].phase = "gone"
           /\ con' = [con EXCEPT ![c].phase = "read", ![d] = New(nextIOService_)]
           /\ GetIOService
    BY <1>1 DEF AcceptStep, Accept
  <2> DEFINE r == [con[c] EXCEPT !.phase = "read"]
  <2>2. c # d /\ con[c] \in Connection
    BY <2>1 DEF ConInv
  <2>3. r \in Connection /\ Guarded(r)
    BY <2>1, <2>2 DEF ConInv, Guarded
  <2>4. New(nextIOService_) \in Connection /\ Guarded(New(nextIOService_))
    BY NewTyped DEF Guarded, New
  <2>5. con' = [e \in Conns |-> IF e = d THEN New(nextIOService_)
                                ELSE IF e = c THEN r ELSE con[e]]
    BY <2>1, <2>2 DEF ConInv
  <2>6. ConInv'
    <3> HIDE DEF r, Connection
    <3> QED
      BY <2>3, <2>4, <2>5 DEF ConInv
  <2>7. New(nextIOService_).phase = "accept" /\ r.phase # "accept"
    BY <2>2 DEF New
  <2>8. AlwaysAccepting'
    <3> HIDE DEF r, Connection
    <3>1. \A e \in Conns : con[e].phase = "accept" <=> e = c
      BY <2>1 DEF AlwaysAccepting
    <3>2. \A e \in Conns : con'[e].phase = "accept" <=> e = d
      BY <2>5, <2>7, <3>1
    <3> QED
      BY <3>2 DEF AlwaysAccepting
  <2> QED
    BY <2>1, <2>6, <2>8
<1>2. CASE FailStep
  <2>1. PICK c \in Conns : con[c].phase = "accept"
                        /\ con' = [con EXCEPT ![c] = New(nextIOService_)]
                        /\ GetIOService
    BY <1>2 DEF FailStep, AcceptFails
  <2>2. /\ New(nextIOService_) \in Connection /\ Guarded(New(nextIOService_))
        /\ New(nextIOService_).phase = "accept"
    BY NewTyped DEF Guarded, New
  <2>3. ConInv' /\ AlwaysAccepting'
    <3> HIDE DEF Connection
    <3> QED
      BY <2>1, <2>2 DEF ConInv, AlwaysAccepting
  <2> QED
    BY <2>1, <2>3
<1>3. ASSUME NEW c \in Conns, NEW r \in Connection, Change(c, r), Guarded(r),
             r.phase = "accept" <=> con[c].phase = "accept"
      PROVE  ConInv' /\ AlwaysAccepting' /\ UNCHANGED <<nextIOService_, recent>>
  BY <1>3, ChangeKeeps
<1>4. ASSUME NEW c \in Conns PROVE con[c] \in Connection /\ Guarded(con[c])
  BY DEF ConInv
<1>5. ASSUME NEW c \in Conns, Elapse(c)
      PROVE  ConInv' /\ AlwaysAccepting' /\ UNCHANGED <<nextIOService_, recent>>
  <2> DEFINE r == [con[c] EXCEPT !.due = TRUE]
  <2>1. r \in Connection /\ Guarded(r) /\ r.phase = con[c].phase /\ Change(c, r)
    BY <1>4, <1>5 DEF Elapse, Guarded
  <2> QED
    BY <1>3, <2>1
<1>6. ASSUME NEW c \in Conns, ReadEnds(c)
      PROVE  ConInv' /\ AlwaysAccepting' /\ UNCHANGED <<nextIOService_, recent>>
  <2>1. PICK result \in {"request", "failed"} :
           con[c].phase = "read" /\ Change(c, [con[c] EXCEPT !.phase = result])
    BY <1>6 DEF ReadEnds
  <2> DEFINE r == [con[c] EXCEPT !.phase = result]
  <2>2. r \in Connection /\ Guarded(r) /\ r.phase # "accept" /\ Change(c, r)
    BY <1>4, <2>1 DEF Guarded
  <2> QED
    BY <1>3, <2>1, <2>2
<1>16. Guarded(Gone) /\ Gone.phase = "gone"
  BY DEF Gone, New, Guarded
<1>7. ASSUME NEW c \in Conns, WriteEnds(c)
      PROVE  ConInv' /\ AlwaysAccepting' /\ UNCHANGED <<nextIOService_, recent>>
  <2> DEFINE r == [con[c] EXCEPT !.wr = "ready"]
  <2>1. r \in Connection /\ Guarded(r) /\ Change(c, r)
        /\ (r.phase = "accept" <=> con[c].phase = "accept")
    BY <1>4, <1>7 DEF WriteEnds, Guarded
  <2> QED
    BY <1>3, <2>1
<1>8. ASSUME NEW c \in Conns, TimerFires(c)
      PROVE  ConInv' /\ AlwaysAccepting' /\ UNCHANGED <<nextIOService_, recent>>
  <2> DEFINE r == [con[c] EXCEPT !.tm = "expired"]
  <2>1. r \in Connection /\ Guarded(r) /\ Change(c, r)
        /\ (r.phase = "accept" <=> con[c].phase = "accept")
    BY <1>4, <1>8 DEF TimerFires, Guarded
  <2> QED
    BY <1>3, <2>1
<1>9. ASSUME NEW c \in Conns, OnRequest(c)
      PROVE  ConInv' /\ AlwaysAccepting' /\ UNCHANGED <<nextIOService_, recent>>
  <2> DEFINE r == [con[c] EXCEPT !.phase = "handling"]
  <2>1. r \in Connection /\ Guarded(r) /\ Change(c, r)
        /\ (r.phase = "accept" <=> con[c].phase = "accept")
    BY <1>4, <1>9 DEF OnRequest, Guarded
  <2> QED
    BY <1>3, <2>1
<1>10. ASSUME NEW c \in Conns, Responds(c)
      PROVE  ConInv' /\ AlwaysAccepting' /\ UNCHANGED <<nextIOService_, recent>>
  <2> DEFINE r == [con[c] EXCEPT !.phase = "handled", !.wr = "pending", !.tm = "waiting"]
  <2>1. r \in Connection /\ Guarded(r) /\ Change(c, r)
        /\ (r.phase = "accept" <=> con[c].phase = "accept")
    BY <1>4, <1>10 DEF Responds, Guarded
  <2> QED
    BY <1>3, <2>1
<1>11. ASSUME NEW c \in Conns, RespondsNothing(c)
      PROVE  ConInv' /\ AlwaysAccepting' /\ UNCHANGED <<nextIOService_, recent>>
  <2> DEFINE r == [con[c] EXCEPT !.phase = "handled", !.tm = "waiting"]
  <2>1. r \in Connection /\ Guarded(r) /\ Change(c, r)
        /\ (r.phase = "accept" <=> con[c].phase = "accept")
    BY <1>4, <1>11 DEF RespondsNothing, Guarded
  <2> QED
    BY <1>3, <2>1
<1>12. ASSUME NEW c \in Conns, OnFailedRead(c)
      PROVE  ConInv' /\ AlwaysAccepting' /\ UNCHANGED <<nextIOService_, recent>>
  <2>1. Change(c, Gone) /\ con[c].phase # "accept"
    BY <1>12 DEF OnFailedRead
  <2> QED
    BY <1>3, <1>16, <2>1, NewTyped
<1>13. ASSUME NEW c \in Conns, Throws(c)
      PROVE  ConInv' /\ AlwaysAccepting' /\ UNCHANGED <<nextIOService_, recent>>
  <2>1. Change(c, Gone) /\ con[c].phase # "accept"
    BY <1>13 DEF Throws
  <2> QED
    BY <1>3, <1>16, <2>1, NewTyped
<1>14. ASSUME NEW c \in Conns, OnWritten(c)
      PROVE  ConInv' /\ AlwaysAccepting' /\ UNCHANGED <<nextIOService_, recent>>
  <2> DEFINE r == [con[c] EXCEPT !.wr = "over",
                              !.tm = IF con[c].tm = "waiting" THEN "aborted" ELSE con[c].tm]
  <2>1. r \in Connection /\ Change(c, Left(r)) /\ con[c].phase = "handled" /\ r.phase = "handled"
    BY <1>4, <1>14 DEF OnWritten, Guarded
  <2>2. Guarded(r) \/ Left(r) = Gone
    <3>1. Guarded(r) \/ (r.wr \in {"none", "over"} /\ r.tm = "over")
      <4>1. /\ r.wr = "over" /\ r.phase = "handled"
            /\ r.tm = IF con[c].tm = "waiting" THEN "aborted" ELSE con[c].tm
        BY <1>4, <2>1
      <4>2. con[c].tm \in {"waiting", "expired", "over"}
        BY <1>4, <1>14 DEF OnWritten, Guarded
      <4>3. r.tm \in {"aborted", "expired", "over"}
        BY <4>1, <4>2
      <4> HIDE DEF r
      <4> QED
        BY <4>1, <4>3 DEF Guarded
    <3> QED
      BY <3>1 DEF Left
  <2>3. Left(r) \in {r, Gone}
    BY DEF Left
  <2>4. Guarded(Left(r)) /\ Left(r).phase # "accept" /\ Left(r) \in Connection
    <3> HIDE DEF r
    <3> QED
      BY <1>16, <2>1, <2>2, <2>3, NewTyped
  <2> QED
    BY <1>3, <2>1, <2>4
<1>15. ASSUME NEW c \in Conns, OnDeadline(c)
      PROVE  ConInv' /\ AlwaysAccepting' /\ UNCHANGED <<nextIOService_, recent>>
  <2> DEFINE r == [con[c] EXCEPT !.tm = "over",
                              !.open = con[c].open /\ con[c].tm = "aborted"]
  <2>1. r \in Connection /\ Change(c, Left(r)) /\ con[c].phase = "handled" /\ r.phase = "handled"
    BY <1>4, <1>15 DEF OnDeadline, Guarded
  <2>2. Guarded(r) \/ Left(r) = Gone
    <3>1. Guarded(r) \/ (r.wr \in {"none", "over"} /\ r.tm = "over")
      BY <1>4, <1>15 DEF OnDeadline, Guarded
    <3> QED
      BY <3>1 DEF Left
  <2>3. Left(r) \in {r, Gone}
    BY DEF Left
  <2>4. Guarded(Left(r)) /\ Left(r).phase # "accept" /\ Left(r) \in Connection
    <3> HIDE DEF r
    <3> QED
      BY <1>16, <2>1, <2>2, <2>3, NewTyped
  <2> QED
    BY <1>3, <2>1, <2>4
<1>17. CASE UNCHANGED vars
  BY <1>17 DEF vars, ConInv, AlwaysAccepting
<1> QED
  BY NextCases, <1>1, <1>2, <1>5, <1>6, <1>7, <1>8, <1>9, <1>10, <1>11, <1>12,
     <1>13, <1>14, <1>15, <1>17

-----------------------------------------------------------------------------
(* The contexts.  Counting back from nextIOService_, round the pool, gives *)
(* the contexts handed out last.                                           *)
Back(n, d) == IF n >= d THEN n - d ELSE n - d + Size

Turns == /\ nextIOService_ \in Contexts
         /\ recent \in Seq(Contexts) /\ Len(recent) \in 1..Size
         /\ \A i \in 1..Len(recent) :
               recent[i] = Back(nextIOService_, Len(recent) - i + 1)

LEMMA TurnsInit == Init => Turns
<1> SUFFICES ASSUME Init PROVE Turns
  OBVIOUS
<1>1. recent = <<0>> /\ nextIOService_ = Wrap(1)
  BY DEF Init
<1>2. 0 \in Contexts /\ Wrap(1) \in Contexts /\ Back(Wrap(1), 1) = 0
  BY SizePositive DEF Contexts, Wrap, Back
<1>3. Len(recent) = 1 /\ recent[1] = 0 /\ recent \in Seq(Contexts)
  BY <1>1, <1>2
<1> QED
  BY <1>1, <1>2, <1>3, SizePositive DEF Turns

LEMMA TurnsStep == Turns /\ GetIOService => Turns'
<1> SUFFICES ASSUME Turns, GetIOService PROVE Turns'
  OBVIOUS
<1> DEFINE n == nextIOService_
           kept == IF Len(recent) = Size THEN Tail(recent) ELSE recent
<1>1. n \in Contexts /\ recent \in Seq(Contexts) /\ Len(recent) \in 1..Size /\ Size \in Nat
  BY SizePositive DEF Turns
<1>2. kept \in Seq(Contexts) /\ Len(kept) \in 0..(Size - 1)
  BY <1>1, SizePositive
<1>3. recent' = Append(kept, n) /\ n' = Wrap(n + 1)
  BY DEF GetIOService
<1>4. recent' \in Seq(Contexts) /\ Len(recent') = Len(kept) + 1
  BY <1>1, <1>2, <1>3
<1>5. \A i \in 1..Len(kept) : recent'[i] = kept[i]
  BY <1>1, <1>2, <1>3
<1>6. recent'[Len(kept) + 1] = n
  BY <1>1, <1>2, <1>3
<1>7. \A i \in 1..Len(kept) : kept[i] = Back(n, Len(kept) - i + 1)
  <2>1. CASE Len(recent) = Size
    <3>1. Len(kept) = Size - 1 /\ \A i \in 1..Len(kept) : kept[i] = recent[i + 1]
      BY <1>1, <2>1, SizePositive
    <3>2. \A i \in 1..Len(kept) : i + 1 \in 1..Len(recent)
                               /\ Len(recent) - (i + 1) + 1 = Len(kept) - i + 1
      BY <1>1, <2>1, <3>1
    <3> QED
      BY <3>1, <3>2 DEF Turns
  <2>2. CASE Len(recent) # Size
    BY <2>2 DEF Turns
  <2> QED
    BY <2>1, <2>2
<1>8. \A d \in 1..(Size - 1) : Back(n, d) = Back(Wrap(n + 1), d + 1)
  BY <1>1, SizePositive DEF Back, Wrap, Contexts
<1>9. Back(Wrap(n + 1), 1) = n
  BY <1>1, SizePositive DEF Back, Wrap, Contexts
<1>10. \A i \in 1..Len(recent') : recent'[i] = Back(n', Len(recent') - i + 1)
  <2> SUFFICES ASSUME NEW i \in 1..(Len(kept) + 1)
               PROVE  recent'[i] = Back(Wrap(n + 1), Len(kept) + 1 - i + 1)
    BY <1>3, <1>4
  <2>1. CASE i = Len(kept) + 1
    <3>1. Len(kept) + 1 - i + 1 = 1
      BY <1>2, <2>1
    <3> QED
      BY <1>6, <1>9, <2>1, <3>1
  <2>2. CASE i # Len(kept) + 1
    <3>1. i \in 1..Len(kept) /\ Len(kept) - i + 1 \in 1..(Size - 1)
          /\ Len(kept) + 1 - i + 1 = Len(kept) - i + 1 + 1
      BY <1>1, <1>2, <2>2
    <3> QED
      BY <1>5, <1>7, <1>8, <3>1
  <2> QED
    BY <2>1, <2>2
<1>11. n' \in Contexts
  BY <1>1, <1>3, WrapTyped
<1>12. Len(recent') \in 1..Size
  BY <1>1, <1>2, <1>4
<1> QED
  BY <1>4, <1>10, <1>11, <1>12 DEF Turns

LEMMA TurnsDistinct == Turns => RoundRobin
<1> SUFFICES ASSUME Turns, NEW i \in 1..Len(recent), NEW j \in 1..Len(recent),
                    recent[i] = recent[j]
             PROVE  i = j
  BY DEF RoundRobin
<1> DEFINE a == Len(recent) - i + 1
           b == Len(recent) - j + 1
<1>1. a \in 1..Size /\ b \in 1..Size /\ nextIOService_ \in Contexts /\ (a = b => i = j)
  BY SizePositive DEF Turns
<1>2. Back(nextIOService_, a) = Back(nextIOService_, b)
  BY DEF Turns
<1>3. a = b
  <2> HIDE DEF a, b
  <2> QED
    BY <1>1, <1>2, SizePositive DEF Back, Contexts
<1> QED
  BY <1>1, <1>3

-----------------------------------------------------------------------------
(* The inductive invariant.                                                *)
Inv == ConInv /\ AlwaysAccepting /\ Turns

LEMMA InvHolds == Spec => []Inv
<1>1. Init => Inv
  <2> SUFFICES ASSUME Init PROVE Inv
    OBVIOUS
  <2>1. PICK c \in Conns : con = [d \in Conns |-> IF d = c THEN New(0) ELSE Gone]
    BY DEF Init
  <2>2. /\ New(0) \in Connection /\ Guarded(New(0)) /\ New(0).phase = "accept"
        /\ Gone \in Connection /\ Guarded(Gone) /\ Gone.phase = "gone"
    BY NewTyped, SizePositive DEF Contexts, Gone, New, Guarded
  <2>3. ConInv /\ AlwaysAccepting
    BY <2>1, <2>2 DEF ConInv, AlwaysAccepting
  <2> QED
    BY <2>3, TurnsInit DEF Inv
<1>2. Inv /\ [Next]_vars => Inv'
  <2> SUFFICES ASSUME Inv, [Next]_vars PROVE Inv'
    OBVIOUS
  <2>1. /\ ConInv' /\ AlwaysAccepting'
        /\ GetIOService \/ UNCHANGED <<nextIOService_, recent>>
    BY ConnectionStep DEF Inv, Turns
  <2>2. CASE GetIOService
    BY <2>1, <2>2, TurnsStep DEF Inv
  <2>3. CASE UNCHANGED <<nextIOService_, recent>>
    BY <2>1, <2>3 DEF Inv, Turns
  <2> QED
    BY <2>1, <2>2, <2>3
<1> QED
  BY <1>1, <1>2, PTL DEF Spec

(* Every variable keeps to its type.                                       *)
THEOREM TypeCorrect == Spec => []TypeOK
<1>1. Inv => TypeOK
  BY DEF Inv, ConInv, Turns, TypeOK, Connection, Phases, Writes, Timers
<1> QED
  BY <1>1, InvHolds, PTL

(* The pool hands out its contexts in turn, failed accepts included.       *)
THEOREM TurnsTaken == Spec => []RoundRobin
<1>1. Inv => RoundRobin
  BY TurnsDistinct DEF Inv
<1> QED
  BY <1>1, InvHolds, PTL

(* Exactly one connection is being accepted.                               *)
THEOREM NeverDeaf == Spec => []AlwaysAccepting
<1>1. Inv => AlwaysAccepting
  BY DEF Inv
<1> QED
  BY <1>1, InvHolds, PTL

(* A pending write is never left without a deadline on an open socket.     *)
THEOREM WritesGuarded == Spec => []DeadlineGuardsWrite
<1>1. Inv => DeadlineGuardsWrite
  BY DEF Inv, ConInv, Guarded, DeadlineGuardsWrite
<1> QED
  BY <1>1, InvHolds, PTL
=============================================================================
