------------------------ MODULE StatusServiceProofs ------------------------
(***************************************************************************)
(* Proofs about StatusServiceImpl, for every table of servers, every       *)
(* finite set of handlers and every size of the Redis pool.                *)
(***************************************************************************)
EXTENDS StatusService, FiniteSetTheorems, TLAPS

(* The next-state relation split into one case per operation. *)
LEMMA NextCases ==
    ASSUME [Next]_vars
    PROVE  \/ CountChanges
           \/ \E h \in Handlers : Call(h)
           \/ \E h \in Handlers : Lock(h)
           \/ \E h \in Handlers : FirstCount(h)
           \/ \E h \in Handlers : SkipRow(h)
           \/ \E h \in Handlers : NextCount(h)
           \/ \E h \in Handlers : CopyRow(h)
           \/ \E h \in Handlers : Unlock(h)
           \/ \E h \in Handlers : SetHost(h)
           \/ \E h \in Handlers : SetPort(h)
           \/ \E h \in Handlers : InsertToken(h)
           \/ \E h \in Handlers : Login(h)
           \/ UNCHANGED vars
  BY DEF Next, Step

(* The table has a first row and its rows are numbered by naturals. *)
LEMMA TableShape ==
    /\ Len(Listed) \in Nat \ {0}
    /\ 1 \in Rows
    /\ \A i \in Rows : Listed[i] \in Names
    /\ \A i \in 2..Len(Listed) : i \in Rows /\ i # 1
    /\ INT_MAX \in Nat
  BY ListedDistinct, StatusNats DEF Names, Rows, INT_MAX

(* What a connection used leaves. *)
LEMMA ConnectionUsed ==
    ASSUME conns \in 0..PoolSize, UseConnection
    PROVE  conns' = conns - 1 /\ conns' \in 0..PoolSize
  BY StatusNats DEF UseConnection

ScanSet == [i : 1..(Len(Listed) + 1), min : 0..INT_MAX,
            read : SUBSET (Names \X (0..INT_MAX))]

(* The next row of the table stays within one place past its end.          *)
LEMMA Advance ==
    ASSUME NEW s \in ScanSet, s.i \in 2..Len(Listed)
    PROVE  [s EXCEPT !.i = s.i + 1] \in ScanSet
<1>1. s.i + 1 \in 1..(Len(Listed) + 1)
  BY TableShape
<1> DEFINE R == SUBSET (Names \X (0..INT_MAX))
           I == 1..(Len(Listed) + 1)
           M == 0..INT_MAX
<1>3. s \in [i : I, min : M, read : R] /\ s.i + 1 \in I
  BY <1>1 DEF ScanSet
<1>4. ScanSet = [i : I, min : M, read : R]
  BY DEF ScanSet
<1> HIDE DEF R, I, M
<1> QED
  BY <1>3, <1>4

(* So it does when a count is noted, or becomes the smallest.              *)
LEMMA Noted ==
    ASSUME NEW s \in ScanSet, s.i \in 2..Len(Listed), NEW m \in 0..INT_MAX,
           NEW r \in SUBSET (Names \X (0..INT_MAX))
    PROVE  /\ [s EXCEPT !.i = s.i + 1, !.read = r] \in ScanSet
           /\ [s EXCEPT !.min = m, !.read = r] \in ScanSet
<1>1. s.i + 1 \in 1..(Len(Listed) + 1)
  BY TableShape
<1> DEFINE R == SUBSET (Names \X (0..INT_MAX))
           I == 1..(Len(Listed) + 1)
           M == 0..INT_MAX
<1>3. s \in [i : I, min : M, read : R] /\ s.i + 1 \in I /\ m \in M /\ r \in R
  BY <1>1 DEF ScanSet
<1>4. ScanSet = [i : I, min : M, read : R]
  BY DEF ScanSet
<1> HIDE DEF R, I, M
<1> QED
  BY <1>3, <1>4

(* The first row stays a row when another one is copied over it.           *)
LEMMA FirstRowTyped ==
    ASSUME NEW t \in [Rows -> Row], NEW i \in 2..Len(Listed)
    PROVE  /\ [t EXCEPT ![1].host = t[i].host] \in [Rows -> Row]
           /\ [t EXCEPT ![1].port = t[i].port, ![1].name = t[i].name] \in [Rows -> Row]
<1>1. 1 \in Rows /\ i \in Rows
  BY TableShape
<1>2. t[1] \in Row /\ t[i] \in Row
  BY <1>1
<1>3. /\ [t[1] EXCEPT !.host = t[i].host] \in Row
      /\ [t[1] EXCEPT !.port = t[i].port, !.name = t[i].name] \in Row
  BY <1>2 DEF Row
<1> DEFINE a == [t[1] EXCEPT !.host = t[i].host]
           b == [t[1] EXCEPT !.port = t[i].port, !.name = t[i].name]
<1>4. /\ [t EXCEPT ![1] = a] \in [Rows -> Row]
      /\ [t EXCEPT ![1] = b] \in [Rows -> Row]
  <2> HIDE DEF a, b
  <2> QED
    BY <1>1, <1>3 DEF a, b
<1>5. [t EXCEPT ![1].host = t[i].host] = [t EXCEPT ![1] = a]
  BY <1>1
<1>6. [t EXCEPT ![1].port = t[i].port, ![1].name = t[i].name] = [t EXCEPT ![1] = b]
  BY <1>1
<1> QED
  BY <1>4, <1>5, <1>6

-----------------------------------------------------------------------------
LEMMA TypeInit == Init => TypeOK
<1> SUFFICES ASSUME Init PROVE TypeOK
  OBVIOUS
<1>1. servers_ \in [Rows -> Row]
  BY TableShape DEF Init, Configured, Row
<1>2. scan \in [i : 1..(Len(Listed) + 1), min : 0..INT_MAX,
                read : SUBSET (Names \X (0..INT_MAX))]
  BY TableShape DEF Init, NewScan
<1> QED
  BY <1>1, <1>2, StatusNats, TableShape DEF Init, TypeOK, NoReply, NoToken

(* A handler's move changes pc at one place, to a known position. *)
LEMMA PcTyped ==
    ASSUME TypeOK, NEW h \in Handlers, NEW from, NEW to, Goto(h, from, to),
           to \in {"idle", "lock", "scan", "copy", "host", "port", "token"}
    PROVE  pc' \in [Handlers -> {"idle", "lock", "scan", "copy", "host", "port", "token"}]
  BY DEF TypeOK, Goto

(* A row is copied over the first one from a place of the table.           *)
CopyInTable == \A h \in Handlers : pc[h] = "copy" => scan.i \in 2..Len(Listed)

LEMMA TypeStep == TypeOK /\ CopyInTable /\ [Next]_vars => TypeOK'
<1> SUFFICES ASSUME TypeOK, CopyInTable, [Next]_vars PROVE TypeOK'
  OBVIOUS
<1> USE DEF TypeOK, tableVars, redisVars
<1>1. CASE CountChanges
  BY <1>1 DEF CountChanges
<1>2. ASSUME NEW h \in Handlers, Call(h) PROVE TypeOK'
  BY <1>2, PcTyped DEF Call
<1>3. ASSUME NEW h \in Handlers, Lock(h) PROVE TypeOK'
  BY <1>3, PcTyped DEF Lock
<1>4. ASSUME NEW h \in Handlers, FirstCount(h) PROVE TypeOK'
  <2>1. pc' = pc
    BY <1>4 DEF FirstCount, Goto
  <2>2. PICK c \in HGet(servers_[1].name) :
           scan' = [i |-> 2, min |-> c, read |-> {<<servers_[1].name, c>>}]
    BY <1>4 DEF FirstCount
  <2>3. servers_[1].name \in Names /\ c \in 0..INT_MAX /\ 2 \in 1..(Len(Listed) + 1)
    BY <2>2, TableShape DEF HGet, Row
  <2>4. scan' \in [i : 1..(Len(Listed) + 1), min : 0..INT_MAX,
                   read : SUBSET (Names \X (0..INT_MAX))]
    BY <2>2, <2>3
  <2> QED
    BY <1>4, <2>1, <2>4, ConnectionUsed DEF FirstCount
<1>5. ASSUME NEW h \in Handlers, SkipRow(h) PROVE TypeOK'
  <2>1. pc' = pc
    BY <1>5 DEF SkipRow, Goto
  <2>2. scan' \in [i : 1..(Len(Listed) + 1), min : 0..INT_MAX,
                   read : SUBSET (Names \X (0..INT_MAX))]
    BY <1>5, Advance DEF SkipRow, ScanSet
  <2> QED
    BY <1>5, <2>1, <2>2 DEF SkipRow
<1>6. ASSUME NEW h \in Handlers, NextCount(h) PROVE TypeOK'
  <2>1. /\ scan.i \in 2..Len(Listed)
        /\ servers_[scan.i] \in Row /\ servers_[1] \in Row
    BY <1>6, TableShape DEF NextCount
  <2>2. PICK c \in HGet(servers_[scan.i].name) :
          \/ /\ Goto(h, "scan", "scan")
             /\ scan' = [scan EXCEPT !.i = @ + 1,
                                     !.read = @ \cup {<<servers_[scan.i].name, c>>}]
             /\ UNCHANGED <<servers_, dirty>>
          \/ /\ Goto(h, "scan", "copy")
             /\ scan' = [scan EXCEPT !.min = c,
                                     !.read = @ \cup {<<servers_[scan.i].name, c>>}]
             /\ servers_' = [servers_ EXCEPT ![1].host = servers_[scan.i].host]
             /\ dirty' = dirty \cup Reading
    BY <1>6 DEF NextCount
  <2>3. c \in 0..INT_MAX /\ servers_[scan.i].name \in Names
    BY <2>1, <2>2, TableShape DEF HGet, Row
  <2>4. scan' \in [i : 1..(Len(Listed) + 1), min : 0..INT_MAX,
                   read : SUBSET (Names \X (0..INT_MAX))]
    <3> DEFINE R == scan.read \cup {<<servers_[scan.i].name, c>>}
    <3>2. scan \in ScanSet
      BY DEF ScanSet
    <3>1. R \in SUBSET (Names \X (0..INT_MAX))
      BY <2>3
    <3> QED
      <4>1. /\ [scan EXCEPT !.i = scan.i + 1, !.read = R] \in ScanSet
            /\ [scan EXCEPT !.min = c, !.read = R] \in ScanSet
        BY <2>1, <2>3, <3>1, <3>2, Noted
      <4> QED
        BY <2>2, <4>1 DEF ScanSet
  <2>5. servers_' \in [Rows -> Row]
    <3>1. [servers_ EXCEPT ![1].host = servers_[scan.i].host] \in [Rows -> Row]
      BY <2>1, FirstRowTyped
    <3> QED
      BY <2>2, <3>1
  <2>6. dirty' \subseteq Handlers
    BY <2>2 DEF Reading
  <2>7. pc' \in [Handlers -> {"idle", "lock", "scan", "copy", "host", "port", "token"}]
    BY <2>2, PcTyped
  <2> QED
    BY <1>6, <2>4, <2>5, <2>6, <2>7, ConnectionUsed DEF NextCount
<1>7. ASSUME NEW h \in Handlers, CopyRow(h) PROVE TypeOK'
  <2>0. scan.i \in 2..Len(Listed)
    BY <1>7 DEF CopyRow, Goto, CopyInTable
  <2>1. servers_' \in [Rows -> Row]
    BY <1>7, <2>0, FirstRowTyped DEF CopyRow
  <2>2. scan' \in [i : 1..(Len(Listed) + 1), min : 0..INT_MAX,
                   read : SUBSET (Names \X (0..INT_MAX))]
    BY <1>7, <2>0, Advance DEF CopyRow, ScanSet
  <2> QED
    BY <1>7, <2>1, <2>2, PcTyped DEF CopyRow, CopyUnchanged, Reading
<1>8. ASSUME NEW h \in Handlers, Unlock(h) PROVE TypeOK'
  <2>1. NewScan \in ScanSet
    BY TableShape DEF NewScan, ScanSet
  <2> QED
    BY <1>8, <2>1, PcTyped DEF Unlock, ScanSet
<1>9. ASSUME NEW h \in Handlers, SetHost(h) PROVE TypeOK'
  <2>1. rsp' \in [Handlers -> [host : Names \cup {NoName}, port : Names \cup {NoName}]]
    BY <1>9, TableShape DEF SetHost, Row
  <2> QED
    BY <1>9, <2>1, PcTyped DEF SetHost
<1>10. ASSUME NEW h \in Handlers, SetPort(h) PROVE TypeOK'
  <2>1. rsp' \in [Handlers -> [host : Names \cup {NoName}, port : Names \cup {NoName}]]
    BY <1>10, TableShape DEF SetPort, Row
  <2> QED
    BY <1>10, <2>1, PcTyped DEF SetPort
<1>11. ASSUME NEW h \in Handlers, InsertToken(h) PROVE TypeOK'
  <2>1. tokens' \in [Uids -> Nat] /\ issued' \in Nat /\ answers' \in Nat
    BY <1>11 DEF InsertToken
  <2>2. rsp' \in [Handlers -> [host : Names \cup {NoName}, port : Names \cup {NoName}]]
    BY <1>11 DEF InsertToken, NoReply
  <2> QED
    BY <1>11, <2>1, <2>2, PcTyped, ConnectionUsed DEF InsertToken
<1>12. ASSUME NEW h \in Handlers, Login(h) PROVE TypeOK'
  <2>1. PICK e \in {"UidInvalid", "TokenInvalid", "Success"}, t \in Nat :
           login' = [login EXCEPT ![h] = [error |-> e, token |-> t]]
    <3>1. PICK u \in Uids, token \in 0..issued, found \in BOOLEAN :
             login' = [login EXCEPT ![h] =
                [error |-> LoginError(found, IF found THEN tokens[u] ELSE NoToken, token),
                 token |-> token]]
      BY <1>12 DEF Login
    <3>2. LoginError(found, IF found THEN tokens[u] ELSE NoToken, token)
             \in {"UidInvalid", "TokenInvalid", "Success"} /\ token \in Nat
      BY DEF LoginError
    <3> QED
      BY <3>1, <3>2
  <2> QED
    BY <1>12, <2>1, ConnectionUsed DEF Login
<1>13. CASE UNCHANGED vars
  BY <1>13 DEF vars
<1> QED
  BY NextCases, <1>1, <1>2, <1>3, <1>4, <1>5, <1>6, <1>7, <1>8, <1>9, <1>10,
     <1>11, <1>12, <1>13 DEF CopyInTable
-----------------------------------------------------------------------------
(* The table under server_mtx_.  Only the first row ever differs from the  *)
(* configuration; a row is whole unless somebody is copying over it, and   *)
(* whoever was reading the first row meanwhile is in dirty.                *)

Guarded == \A h \in Handlers : pc[h] \in {"scan", "copy"} <=> server_mtx_ = h

RowsKept == \A i \in 2..Len(Listed) : servers_[i] = Configured(Listed[i])

CopyState == \A h \in Handlers : pc[h] = "copy" =>
                /\ scan.i \in 2..Len(Listed)
                /\ servers_[1].host = servers_[scan.i].host
                /\ <<servers_[scan.i].name, scan.min>> \in scan.read
                /\ \A r \in scan.read : scan.min <= r[2]
                /\ Reading \subseteq dirty

Whole == (\A h \in Handlers : pc[h] # "copy") => servers_[1] = Configured(servers_[1].name)

ReplyWhole == \A h \in Handlers \ dirty :
                /\ pc[h] = "port" => rsp[h].host = servers_[1].host
                /\ pc[h] = "token" => rsp[h].host = rsp[h].port

Fresh == server_mtx_ = Nobody => scan.i = 1

TableInv == Fresh /\ Guarded /\ RowsKept /\ CopyState /\ Whole /\ ReplyWhole /\ ScanChoosesMin

LEMMA TableInit == Init => TableInv
<1> SUFFICES ASSUME Init PROVE TableInv
  OBVIOUS
<1>1. \A i \in Rows : servers_[i] = Configured(Listed[i])
  BY DEF Init
<1>2. \A h \in Handlers : pc[h] = "idle" /\ server_mtx_ # h
  BY HandlersFinite DEF Init, Nobody
<1>3. RowsKept
  BY <1>1, TableShape DEF RowsKept
<1>4. Whole
  <2>1. servers_[1] = Configured(Listed[1])
    BY <1>1, TableShape
  <2> QED
    BY <2>1 DEF Whole, Configured
<1>5. Fresh
  BY DEF Init, Fresh, NewScan
<1> QED
  BY <1>2, <1>3, <1>4, <1>5 DEF TableInv, Guarded, CopyState, ReplyWhole, ScanChoosesMin

(* A step that leaves the table and the replies alone, and whose handler   *)
(* neither takes nor has server_mtx_, nor starts to read.                  *)
LEMMA TableUntouched ==
    ASSUME TypeOK, TableInv, UNCHANGED tableVars, UNCHANGED pc,
           \A g \in Handlers : pc[g] \in {"port", "token"} => rsp'[g] = rsp[g]
    PROVE  TableInv'
  BY DEF TableInv, Fresh, Guarded, RowsKept, CopyState, Whole, ReplyWhole,
         ScanChoosesMin, tableVars, Reading

LEMMA TableStep == TypeOK /\ TableInv /\ [Next]_vars => TableInv'
<1> SUFFICES ASSUME TypeOK, TableInv, [Next]_vars PROVE TableInv'
  OBVIOUS
<1>0. /\ pc \in [Handlers -> {"idle", "lock", "scan", "copy", "host", "port", "token"}]
      /\ rsp \in [Handlers -> [host : Names \cup {NoName}, port : Names \cup {NoName}]]
      /\ Nobody \notin Handlers /\ dirty \subseteq Handlers
  BY HandlersFinite DEF TypeOK, Nobody
<1> USE <1>0
<1>1. CASE CountChanges
  BY <1>1, TableUntouched DEF CountChanges
<1>2. ASSUME NEW h \in Handlers, Call(h) PROVE TableInv'
  <2> USE <1>2 DEF Call, Goto, TableInv, tableVars
  <2>1. Fresh' /\ Guarded' /\ RowsKept' /\ Whole'
    BY DEF Fresh, Guarded, RowsKept, Whole
  <2>2. CopyState' /\ ScanChoosesMin'
    BY DEF CopyState, Reading, ScanChoosesMin
  <2>3. ReplyWhole'
    BY DEF ReplyWhole
  <2> QED
    BY <2>1, <2>2, <2>3
<1>3. ASSUME NEW h \in Handlers, Lock(h) PROVE TableInv'
  <2> USE <1>3 DEF Lock, Goto, TableInv
  <2>1. Fresh' /\ Guarded' /\ RowsKept' /\ Whole'
    BY DEF Fresh, Guarded, RowsKept, Whole
  <2>2. CopyState' /\ ReplyWhole'
    BY DEF CopyState, Reading, ReplyWhole
  <2>3. scan'.i = 1
    BY DEF Fresh
  <2>4. ScanChoosesMin'
    BY <2>3 DEF ScanChoosesMin, Guarded
  <2> QED
    BY <2>1, <2>2, <2>4
<1>4. ASSUME NEW h \in Handlers, FirstCount(h) PROVE TableInv'
  <2>1. pc[h] = "scan" /\ UNCHANGED <<pc, servers_, server_mtx_, dirty, rsp>>
    BY <1>4 DEF FirstCount, Goto
  <2>2. server_mtx_ = h /\ h # Nobody
    BY <2>1 DEF TableInv, Guarded
  <2>3. \A g \in Handlers : pc[g] # "copy"
    BY <2>1, <2>2 DEF TableInv, Guarded
  <2>4. PICK c \in HGet(servers_[1].name) :
           scan' = [i |-> 2, min |-> c, read |-> {<<servers_[1].name, c>>}]
    BY <1>4 DEF FirstCount
  <2>5. c \in Nat
    <3>1. servers_[1].name \in Names
      BY TableShape DEF TypeOK, Row
    <3> QED
      BY <2>4, <3>1, TableShape DEF HGet, TypeOK
  <2>6. Fresh' /\ Guarded' /\ RowsKept' /\ Whole' /\ ReplyWhole'
    BY <2>1, <2>2 DEF TableInv, Fresh, Guarded, RowsKept, Whole, ReplyWhole
  <2>7. CopyState'
    BY <2>1, <2>3 DEF CopyState
  <2>8. ScanChoosesMin'
    BY <2>1, <2>4, <2>5 DEF ScanChoosesMin
  <2> QED
    BY <2>6, <2>7, <2>8 DEF TableInv
<1>5. ASSUME NEW h \in Handlers, SkipRow(h) PROVE TableInv'
  <2>1. pc[h] = "scan" /\ UNCHANGED <<pc, servers_, server_mtx_, dirty, rsp>>
    BY <1>5 DEF SkipRow, Goto
  <2>2. server_mtx_ = h /\ h # Nobody
    BY <2>1 DEF TableInv, Guarded
  <2>3. \A g \in Handlers : pc[g] # "copy"
    BY <2>1, <2>2 DEF TableInv, Guarded
  <2>4. scan.i > 1 /\ scan'.min = scan.min /\ scan'.read = scan.read
    BY <1>5, TableShape DEF SkipRow, TypeOK
  <2>6. Fresh' /\ Guarded' /\ RowsKept' /\ Whole' /\ ReplyWhole'
    BY <2>1, <2>2 DEF TableInv, Fresh, Guarded, RowsKept, Whole, ReplyWhole
  <2>7. CopyState'
    BY <2>1, <2>3 DEF CopyState
  <2>8. ScanChoosesMin'
    <3>1. <<servers_[1].name, scan.min>> \in scan.read /\ \A r \in scan.read : scan.min <= r[2]
      BY <2>1, <2>4 DEF TableInv, ScanChoosesMin
    <3> QED
      BY <2>1, <2>4, <3>1 DEF ScanChoosesMin
  <2> QED
    BY <2>6, <2>7, <2>8 DEF TableInv
<1>6. ASSUME NEW h \in Handlers, NextCount(h) PROVE TableInv'
  <2> DEFINE n == servers_[scan.i].name
  <2>1. /\ scan.i \in 2..Len(Listed) /\ UNCHANGED <<server_mtx_, rsp>>
        /\ pc[h] = "scan"
        /\ 1 \in Rows /\ scan.i # 1
    BY <1>6, TableShape DEF NextCount, Goto
  <2>2. server_mtx_ = h /\ h # Nobody
    BY <2>1 DEF TableInv, Guarded
  <2>3. \A g \in Handlers : pc[g] # "copy"
    BY <2>1, <2>2 DEF TableInv, Guarded
  <2>4. PICK c \in HGet(n) :
          \/ /\ c >= scan.min
             /\ Goto(h, "scan", "scan")
             /\ scan' = [scan EXCEPT !.i = @ + 1, !.read = @ \cup {<<n, c>>}]
             /\ UNCHANGED <<servers_, dirty>>
          \/ /\ c < scan.min
             /\ Goto(h, "scan", "copy")
             /\ scan' = [scan EXCEPT !.min = c, !.read = @ \cup {<<n, c>>}]
             /\ servers_' = [servers_ EXCEPT ![1].host = servers_[scan.i].host]
             /\ dirty' = dirty \cup Reading
    BY <1>6 DEF NextCount
  <2>5. c \in Nat /\ scan.min \in Nat /\ \A r \in scan.read : r[2] \in Nat
    <3>1. n \in Names
      BY <2>1, TableShape DEF TypeOK, Row
    <3> QED
      BY <2>4, <3>1, TableShape DEF HGet, TypeOK
  <2>6. <<servers_[1].name, scan.min>> \in scan.read /\ \A r \in scan.read : scan.min <= r[2]
    <3>1. scan.i > 1
      BY <2>1, TableShape
    <3> QED
      BY <2>1, <3>1 DEF TableInv, ScanChoosesMin
  <2>7. Fresh'
    BY <2>1, <2>2 DEF Fresh
  <2>8. CASE /\ c >= scan.min
             /\ Goto(h, "scan", "scan")
             /\ scan' = [scan EXCEPT !.i = @ + 1, !.read = @ \cup {<<n, c>>}]
             /\ UNCHANGED <<servers_, dirty>>
    <3>1. pc' = pc
      BY <2>8 DEF Goto
    <3>2. Guarded' /\ RowsKept' /\ Whole' /\ ReplyWhole'
      BY <2>1, <2>8, <3>1 DEF TableInv, Guarded, RowsKept, Whole, ReplyWhole
    <3>3. CopyState'
      BY <2>3, <3>1 DEF CopyState
    <3>4. scan'.min = scan.min /\ scan'.read = scan.read \cup {<<n, c>>}
      BY <2>8 DEF TypeOK
    <3>5. ScanChoosesMin'
      BY <2>5, <2>6, <2>8, <3>1, <3>4 DEF ScanChoosesMin
    <3> QED
      BY <2>7, <3>2, <3>3, <3>5 DEF TableInv
  <2>9. CASE /\ c < scan.min
             /\ Goto(h, "scan", "copy")
             /\ scan' = [scan EXCEPT !.min = c, !.read = @ \cup {<<n, c>>}]
             /\ servers_' = [servers_ EXCEPT ![1].host = servers_[scan.i].host]
             /\ dirty' = dirty \cup Reading
    <3>1. /\ pc' = [pc EXCEPT ![h] = "copy"]
          /\ scan'.i = scan.i /\ scan'.min = c /\ scan'.read = scan.read \cup {<<n, c>>}
      BY <2>9 DEF Goto, TypeOK
    <3>2. /\ servers_'[1].host = servers_[scan.i].host
          /\ servers_'[scan.i] = servers_[scan.i]
          /\ \A j \in 2..Len(Listed) : servers_'[j] = servers_[j]
      BY <2>1, <2>9, TableShape DEF TypeOK, Row
    <3>3. Guarded' /\ Whole'
      BY <2>1, <2>2, <3>1 DEF TableInv, Guarded, Whole
    <3>4. RowsKept'
      BY <3>2 DEF TableInv, RowsKept
    <3>5. Reading' \subseteq dirty' /\ \A g \in Handlers : pc'[g] \in {"port", "token"} =>
             pc[g] = pc'[g]
      BY <2>9, <3>1 DEF Reading
    <3>6. CopyState'
      BY <2>1, <2>5, <2>6, <2>9, <3>1, <3>2, <3>5 DEF CopyState
    <3>7. ReplyWhole'
      BY <2>1, <2>9, <3>5 DEF TableInv, ReplyWhole, Reading
    <3>8. ScanChoosesMin'
      BY <2>1, <2>2, <3>1 DEF TableInv, Guarded, ScanChoosesMin
    <3> QED
      BY <2>7, <3>3, <3>4, <3>6, <3>7, <3>8 DEF TableInv
  <2> QED
    BY <2>4, <2>8, <2>9
<1>7. ASSUME NEW h \in Handlers, CopyRow(h) PROVE TableInv'
  <2>1. /\ pc[h] = "copy" /\ pc' = [pc EXCEPT ![h] = "scan"]
        /\ UNCHANGED <<server_mtx_, rsp>>
        /\ dirty' = dirty \cup Reading
        /\ scan'.min = scan.min /\ scan'.read = scan.read
    BY <1>7 DEF CopyRow, CopyUnchanged, Goto, TypeOK
  <2>2. server_mtx_ = h /\ h # Nobody
    BY <2>1 DEF TableInv, Guarded
  <2>3. /\ scan.i \in 2..Len(Listed) /\ 1 \in Rows /\ scan.i # 1
        /\ servers_[1].host = servers_[scan.i].host
        /\ <<servers_[scan.i].name, scan.min>> \in scan.read
        /\ \A r \in scan.read : scan.min <= r[2]
    BY <2>1, TableShape DEF TableInv, CopyState
  <2>4. servers_[scan.i] = Configured(servers_[scan.i].name)
    <3>1. servers_[scan.i] = Configured(Listed[scan.i])
      BY <2>3 DEF TableInv, RowsKept
    <3> QED
      BY <3>1 DEF Configured
  <2>5. /\ servers_'[1] = [name |-> servers_[scan.i].name, host |-> servers_[1].host,
                           port |-> servers_[scan.i].port]
        /\ \A j \in 2..Len(Listed) : servers_'[j] = servers_[j]
    <3>1. servers_ \in [Rows -> Row] /\ \A j \in 2..Len(Listed) : j \in Rows /\ j # 1
      BY TableShape DEF TypeOK
    <3>2. servers_' = [servers_ EXCEPT ![1].port = servers_[scan.i].port,
                                       ![1].name = servers_[scan.i].name]
      BY <1>7 DEF CopyRow
    <3>3. servers_'[1] = [servers_[1] EXCEPT !.port = servers_[scan.i].port,
                                             !.name = servers_[scan.i].name]
      BY <2>3, <3>1, <3>2
    <3>4. servers_[1] \in Row
      BY <2>3, <3>1
    <3>5. servers_'[1] = [name |-> servers_[scan.i].name, host |-> servers_[1].host,
                          port |-> servers_[scan.i].port]
      BY <3>3, <3>4 DEF Row
    <3>6. ASSUME NEW j \in 2..Len(Listed) PROVE servers_'[j] = servers_[j]
      <4>1. j \in Rows /\ j # 1
        BY <3>1
      <4> QED
        BY <3>1, <3>2, <4>1
    <3> QED
      BY <3>5, <3>6
  <2>6. servers_'[1] = Configured(servers_'[1].name) /\ servers_'[1].name = servers_[scan.i].name
    BY <2>3, <2>4, <2>5 DEF Configured
  <2>7. Fresh' /\ Guarded' /\ Whole'
    BY <2>1, <2>2, <2>6 DEF TableInv, Fresh, Guarded, Whole
  <2>8. RowsKept'
    BY <2>5 DEF TableInv, RowsKept
  <2>9. CopyState'
    BY <2>1, <2>2 DEF TableInv, Guarded, CopyState
  <2>10. ReplyWhole'
    BY <2>1 DEF TableInv, ReplyWhole, Reading
  <2>11. ScanChoosesMin'
    BY <2>1, <2>3, <2>6 DEF ScanChoosesMin
  <2> QED
    BY <2>7, <2>8, <2>9, <2>10, <2>11 DEF TableInv
<1>8. ASSUME NEW h \in Handlers, Unlock(h) PROVE TableInv'
  <2>1. /\ pc[h] = "scan" /\ pc' = [pc EXCEPT ![h] = "host"]
        /\ UNCHANGED <<servers_, rsp>>
        /\ server_mtx_' = Nobody /\ scan'.i = 1 /\ dirty' = dirty \ {h}
    BY <1>8 DEF Unlock, NewScan, Goto
  <2>2. \A g \in Handlers : g # h => pc[g] \notin {"scan", "copy"}
    BY <2>1 DEF TableInv, Guarded
  <2>3. \A g \in Handlers : pc'[g] \notin {"scan", "copy"}
    BY <2>1, <2>2
  <2>4. Fresh' /\ Guarded' /\ RowsKept' /\ CopyState' /\ ScanChoosesMin'
    BY <2>1, <2>3 DEF TableInv, Fresh, Guarded, RowsKept, CopyState, ScanChoosesMin
  <2>5. Whole'
    BY <2>1, <2>2 DEF TableInv, Whole
  <2>6. ReplyWhole'
    BY <2>1 DEF TableInv, ReplyWhole
  <2> QED
    BY <2>4, <2>5, <2>6 DEF TableInv
<1>9. ASSUME NEW h \in Handlers, SetHost(h) PROVE TableInv'
  <2>1. /\ pc[h] = "host" /\ pc' = [pc EXCEPT ![h] = "port"]
        /\ UNCHANGED <<servers_, server_mtx_, scan, dirty>>
        /\ rsp'[h].host = servers_[1].host
        /\ \A g \in Handlers : g # h => rsp'[g] = rsp[g]
    BY <1>9 DEF SetHost, Goto, tableVars
  <2>2. Fresh' /\ Guarded' /\ RowsKept' /\ ScanChoosesMin' /\ Whole'
    BY <2>1 DEF TableInv, Fresh, Guarded, RowsKept, ScanChoosesMin, Whole
  <2>3. CopyState'
    BY <2>1 DEF TableInv, CopyState, Reading
  <2>4. ReplyWhole'
    BY <2>1 DEF TableInv, ReplyWhole
  <2> QED
    BY <2>2, <2>3, <2>4 DEF TableInv
<1>10. ASSUME NEW h \in Handlers, SetPort(h) PROVE TableInv'
  <2>1. /\ pc[h] = "port" /\ pc' = [pc EXCEPT ![h] = "token"]
        /\ UNCHANGED <<servers_, server_mtx_, scan, dirty>>
        /\ rsp'[h].host = rsp[h].host /\ rsp'[h].port = servers_[1].port
        /\ \A g \in Handlers : g # h => rsp'[g] = rsp[g]
    BY <1>10 DEF SetPort, Goto, tableVars
  <2>2. Fresh' /\ Guarded' /\ RowsKept' /\ ScanChoosesMin' /\ Whole'
    BY <2>1 DEF TableInv, Fresh, Guarded, RowsKept, ScanChoosesMin, Whole
  <2>3. CopyState'
    BY <2>1 DEF TableInv, CopyState, Reading
  <2>4. h \notin dirty => rsp'[h].host = rsp'[h].port
    <3> SUFFICES ASSUME h \notin dirty PROVE rsp'[h].host = rsp'[h].port
      OBVIOUS
    <3>1. \A g \in Handlers : pc[g] # "copy"
      BY <2>1 DEF TableInv, CopyState, Reading
    <3>2. servers_[1] = Configured(servers_[1].name)
      BY <3>1 DEF TableInv, Whole
    <3>3. servers_[1].host = servers_[1].port
      BY <3>2 DEF Configured
    <3> QED
      BY <2>1, <3>3 DEF TableInv, ReplyWhole
  <2>5. ReplyWhole'
    BY <2>1, <2>4 DEF TableInv, ReplyWhole
  <2> QED
    BY <2>2, <2>3, <2>5 DEF TableInv
<1>11. ASSUME NEW h \in Handlers, InsertToken(h) PROVE TableInv'
  <2>1. /\ pc[h] = "token" /\ pc' = [pc EXCEPT ![h] = "idle"]
        /\ UNCHANGED <<servers_, server_mtx_, scan, dirty>>
        /\ \A g \in Handlers : g # h => rsp'[g] = rsp[g]
    BY <1>11 DEF InsertToken, Goto, tableVars
  <2>2. Fresh' /\ Guarded' /\ RowsKept' /\ ScanChoosesMin' /\ Whole'
    BY <2>1 DEF TableInv, Fresh, Guarded, RowsKept, ScanChoosesMin, Whole
  <2>3. CopyState'
    BY <2>1 DEF TableInv, CopyState, Reading
  <2>4. ReplyWhole'
    BY <2>1 DEF TableInv, ReplyWhole
  <2> QED
    BY <2>2, <2>3, <2>4 DEF TableInv
<1>12. ASSUME NEW h \in Handlers, Login(h) PROVE TableInv'
  BY <1>12, TableUntouched DEF Login
<1>13. CASE UNCHANGED vars
  BY <1>13, TableUntouched DEF vars
<1> QED
  BY NextCases, <1>1, <1>2, <1>3, <1>4, <1>5, <1>6, <1>7, <1>8, <1>9, <1>10,
     <1>11, <1>12, <1>13

-----------------------------------------------------------------------------
(* The table and the types are inductive together: a row is copied from a  *)
(* place of the table.                                                     *)
LEMMA TableHolds == Spec => [](TypeOK /\ TableInv)
<1>1. Init => TypeOK /\ TableInv
  BY TypeInit, TableInit
<1>2. TypeOK /\ TableInv /\ [Next]_vars => (TypeOK /\ TableInv)'
  <2>1. TableInv => CopyInTable
    BY DEF TableInv, CopyState, CopyInTable
  <2> QED
    BY <2>1, TypeStep, TableStep
<1> QED
  BY <1>1, <1>2, PTL DEF Spec

(* Every variable keeps to its type.                                       *)
THEOREM TypeCorrect == Spec => []TypeOK
  BY TableHolds, PTL

(* getChatServer never loses the smallest count it has read.               *)
THEOREM ChoosesMin == Spec => []ScanChoosesMin
<1>1. TableInv => ScanChoosesMin
  BY DEF TableInv
<1> QED
  BY <1>1, TableHolds, PTL

(* A reply that mixes two servers was overtaken by another call.           *)
THEOREM MixNeedsOverlap == Spec => []MixedNeedsOverlap
<1>1. TypeOK /\ TableInv => MixedNeedsOverlap
  BY HandlersFinite DEF TypeOK, TableInv, ReplyWhole, Whole, Guarded,
     MixedNeedsOverlap, Nobody
<1> QED
  BY <1>1, TableHolds, PTL
(* Only rows other than the first are copied over it, and their names are  *)
(* not the name of the first configured server.                            *)
THEOREM FirstLost == Spec => FirstStaysLost
<1>1. TypeOK /\ TableInv /\ [Next]_vars =>
         (servers_[1].name # Listed[1] => servers_'[1].name # Listed[1])
  <2> SUFFICES ASSUME TypeOK, TableInv, [Next]_vars, servers_[1].name # Listed[1],
                      servers_'[1].name = Listed[1]
               PROVE  FALSE
    OBVIOUS
  <2>0. \A i \in 2..Len(Listed) : i \in Rows /\ i # 1
    BY TableShape
  <2>1. ASSUME NEW h \in Handlers, NextCount(h) PROVE servers_'[1].name = servers_[1].name
    <3>1. \/ servers_' = servers_
          \/ servers_' = [servers_ EXCEPT ![1].host = servers_[scan.i].host]
      BY <2>1 DEF NextCount
    <3> QED
      BY <3>1, TableShape DEF TypeOK, Row
  <2>2. ASSUME NEW h \in Handlers, CopyRow(h) PROVE FALSE
    <3>1. scan.i \in 2..Len(Listed) /\ scan.i \in Rows /\ scan.i # 1
      BY <2>0, <2>2 DEF CopyRow, Goto, TableInv, CopyState
    <3>2. servers_[scan.i].name = Listed[scan.i]
      <4>1. servers_[scan.i] = Configured(Listed[scan.i])
        BY <3>1 DEF TableInv, RowsKept
      <4> QED
        BY <4>1 DEF Configured
    <3>3. servers_'[1].name = servers_[scan.i].name
      BY <2>2, <3>1, TableShape DEF CopyRow, TypeOK, Row
    <3> QED
      BY <3>1, <3>2, <3>3, TableShape, ListedDistinct
  <2>3. servers_' # servers_
    OBVIOUS
  <2> QED
    BY <2>1, <2>2, <2>3, NextCases DEF CountChanges, Call, Lock, FirstCount,
       SkipRow, Unlock, SetHost, SetPort, InsertToken, Login, tableVars, vars
<1> QED
  BY <1>1, TableHolds, PTL DEF Spec, FirstStaysLost

(* No token but the empty one ever passes Login.                           *)
THEOREM OnlyEmptyToken == Spec => []LoginOnlyEmptyToken
<1>1. Init => LoginOnlyEmptyToken
  BY DEF Init, LoginOnlyEmptyToken
<1>2. TypeOK /\ LoginOnlyEmptyToken /\ [Next]_vars => LoginOnlyEmptyToken'
  <2> SUFFICES ASSUME TypeOK, LoginOnlyEmptyToken, [Next]_vars
               PROVE  LoginOnlyEmptyToken'
    OBVIOUS
  <2>1. ASSUME NEW h \in Handlers, Login(h) PROVE LoginOnlyEmptyToken'
    <3>1. PICK u \in Uids, token \in 0..issued, found \in BOOLEAN :
             login' = [login EXCEPT ![h] =
                [error |-> LoginError(found, IF found THEN tokens[u] ELSE NoToken, token),
                 token |-> token]]
      BY <2>1 DEF Login
    <3>2. login'[h].error = "Success" => login'[h].token = NoToken
      BY <3>1 DEF LoginError, TypeOK
    <3> QED
      BY <3>1, <3>2 DEF LoginOnlyEmptyToken, TypeOK
  <2>2. CASE login' = login
    BY <2>2 DEF LoginOnlyEmptyToken
  <2> QED
    BY <2>1, <2>2, NextCases DEF CountChanges, Call, Lock, FirstCount, SkipRow,
       NextCount, CopyRow, CopyUnchanged, Unlock, SetHost, SetPort,
       InsertToken, vars
<1> QED
  BY <1>1, <1>2, TypeCorrect, PTL DEF Spec

-----------------------------------------------------------------------------
(* The connections: what the answers given, the calls that chose a server  *)
(* and the scan in progress have used is no more than the pool had.        *)

Replying == {h \in Handlers : pc[h] \in {"host", "port", "token"}}

(* Rows read by the scan, at least: one row may have been skipped, and it  *)
(* or the row copied last bears the first row's name.                      *)
ScanReads == IF scan.i = 1 THEN 0
             ELSE IF \E h \in Handlers : pc[h] = "copy" THEN scan.i - 1
             ELSE IF \E j \in 2..(scan.i - 1) : servers_[1].name = Listed[j]
                  THEN scan.i - 2 ELSE scan.i - 1

Spent == answers * PerCall + Cardinality(Replying) * (PerCall - 1) + ScanReads

Budget == Spent + conns <= PoolSize

LEMMA PerCallNat == PerCall \in Nat \ {0, 1}
  BY TableShape DEF PerCall

LEMMA CountsTyped ==
    ASSUME TypeOK
    PROVE  /\ IsFiniteSet(Replying) /\ Cardinality(Replying) \in Nat
           /\ ScanReads \in Int /\ conns \in Nat /\ answers \in Nat
<1>1. Replying \subseteq Handlers
  BY DEF Replying
<1>2. IsFiniteSet(Replying) /\ Cardinality(Replying) \in Nat
  BY <1>1, HandlersFinite, FS_Subset, FS_CardinalityType
<1>3. scan.i \in Int /\ conns \in Nat /\ answers \in Nat
  BY StatusNats, TableShape DEF TypeOK
<1> QED
  BY <1>2, <1>3 DEF ScanReads

LEMMA BudgetInit == Init => Budget
<1> SUFFICES ASSUME Init PROVE Budget
  OBVIOUS
<1>1. Replying = {}
  BY DEF Init, Replying
<1>2. Cardinality(Replying) = 0
  BY <1>1, FS_EmptySet
<1>3. ScanReads = 0 /\ answers = 0 /\ conns = PoolSize
  BY DEF Init, ScanReads, NewScan
<1> QED
  BY <1>2, <1>3, PerCallNat, StatusNats DEF Budget, Spent

(* A step in which no call reaches or leaves its reply keeps the budget if *)
(* every read costs a connection.                                          *)
LEMMA BudgetKept ==
    ASSUME TypeOK, TypeOK', Budget, Replying' = Replying, answers' = answers,
           ScanReads' + conns' <= ScanReads + conns
    PROVE  Budget'
<1>1. \A p, q, s, t, u, v \in Int : s + t <= u + v /\ p + q + u + v <= PoolSize
                                     => p + q + s + t <= PoolSize
  BY StatusNats
<1>2. /\ answers * PerCall \in Int /\ Cardinality(Replying) * (PerCall - 1) \in Int
      /\ ScanReads \in Int /\ conns \in Int /\ ScanReads' \in Int /\ conns' \in Int
  <2>1. scan'.i \in Int /\ conns' \in Int
    BY StatusNats, TableShape DEF TypeOK
  <2>2. ScanReads' \in Int
    BY <2>1 DEF ScanReads
  <2>3. \A m, n \in Int : m * n \in Int
    OBVIOUS
  <2> QED
    BY <2>1, <2>2, <2>3, CountsTyped, PerCallNat
<1>3. Spent' = answers * PerCall + Cardinality(Replying) * (PerCall - 1) + ScanReads'
  BY DEF Spent
<1> QED
  BY <1>1, <1>2, <1>3 DEF Budget, Spent

LEMMA BudgetStep == TypeOK /\ TypeOK' /\ TableInv /\ Budget /\ [Next]_vars => Budget'
<1> SUFFICES ASSUME TypeOK, TypeOK', TableInv, Budget, [Next]_vars PROVE Budget'
  OBVIOUS
<1>0. /\ pc \in [Handlers -> {"idle", "lock", "scan", "copy", "host", "port", "token"}]
      /\ scan.i \in Nat /\ conns \in Int
  <2>1. scan.i \in 1..(Len(Listed) + 1) /\ conns \in 0..PoolSize
    BY DEF TypeOK
  <2>2. scan.i \in Nat /\ conns \in Int
    BY <2>1, StatusNats, TableShape
  <2> QED
    BY <2>2 DEF TypeOK
<1>1. CASE CountChanges
  BY <1>0, <1>1, BudgetKept DEF CountChanges, tableVars, Replying, ScanReads
<1>2. ASSUME NEW h \in Handlers, Call(h) \/ Lock(h) PROVE Budget'
  <2>1. Replying' = Replying /\ ScanReads' = ScanReads /\ answers' = answers /\ conns' = conns
    BY <1>0, <1>2 DEF Call, Lock, Goto, tableVars, redisVars, Replying, ScanReads
  <2> QED
    BY <2>1, CountsTyped, BudgetKept
<1>3. ASSUME NEW h \in Handlers, SetHost(h) \/ SetPort(h) PROVE Budget'
  <2>1. Replying' = Replying /\ ScanReads' = ScanReads /\ answers' = answers /\ conns' = conns
    BY <1>0, <1>3 DEF SetHost, SetPort, Goto, tableVars, redisVars, Replying, ScanReads
  <2> QED
    BY <2>1, CountsTyped, BudgetKept
<1>4. ASSUME NEW h \in Handlers, FirstCount(h) PROVE Budget'
  <2>1. pc' = pc /\ answers' = answers /\ conns' = conns - 1 /\ scan.i = 1 /\ scan'.i = 2
    <3>1. PICK c : scan' = [i |-> 2, min |-> c, read |-> {<<servers_[1].name, c>>}]
      BY <1>4 DEF FirstCount
    <3> QED
      BY <1>0, <1>4, <3>1 DEF FirstCount, Goto, UseConnection
  <2>2. Replying' = Replying
    BY <2>1 DEF Replying
  <2>3. ScanReads = 0 /\ ScanReads' <= 1
    BY <2>1 DEF ScanReads
  <2>4. ScanReads' \in Int
    BY <2>1 DEF ScanReads
  <2>5. ScanReads' + conns' <= ScanReads + conns
    <3>1. \A a, c \in Int : a <= 1 => a + (c - 1) <= 0 + c
      OBVIOUS
    <3> QED
      BY <1>0, <2>1, <2>3, <2>4, <3>1
  <2> QED
    BY <2>1, <2>2, <2>5, BudgetKept
<1>5. ASSUME NEW h \in Handlers, SkipRow(h) PROVE Budget'
  <2>1. /\ pc[h] = "scan" /\ pc' = pc /\ answers' = answers /\ conns' = conns
        /\ servers_' = servers_ /\ scan.i \in 2..Len(Listed) /\ scan'.i = scan.i + 1
        /\ servers_[scan.i].name = servers_[1].name
    BY <1>5 DEF SkipRow, Goto, redisVars, TypeOK
  <2>2. Replying' = Replying
    BY <2>1 DEF Replying
  <2>3. \A g \in Handlers : pc[g] # "copy"
    BY <2>1, HandlersFinite DEF TableInv, Guarded
  <2>4. servers_[1].name = Listed[scan.i]
    <3>1. servers_[scan.i] = Configured(Listed[scan.i])
      BY <2>1 DEF TableInv, RowsKept
    <3> QED
      BY <2>1, <3>1 DEF Configured
  <2>5. \A j \in 2..(scan.i - 1) : servers_[1].name # Listed[j]
    <3>1. \A j \in 2..(scan.i - 1) : j \in Rows /\ scan.i \in Rows /\ j # scan.i
      BY <1>0, <2>1, TableShape DEF Rows
    <3> QED
      BY <2>4, <3>1, ListedDistinct
  <2>6. ScanReads = scan.i - 1
    BY <1>0, <2>1, <2>3, <2>5 DEF ScanReads
  <2>7. scan.i \in 2..(scan'.i - 1)
    BY <1>0, <2>1, TableShape
  <2>8. ScanReads' = scan'.i - 2
    BY <1>0, <2>1, <2>3, <2>4, <2>7 DEF ScanReads
  <2>9. ScanReads' + conns' <= ScanReads + conns
    BY <1>0, <2>1, <2>6, <2>8
  <2> QED
    BY <2>1, <2>2, <2>9, BudgetKept
<1>6. ASSUME NEW h \in Handlers, NextCount(h) PROVE Budget'
  <2>1. /\ pc[h] = "scan" /\ answers' = answers /\ conns' = conns - 1
        /\ scan.i \in 2..Len(Listed)
        /\ servers_[scan.i].name # servers_[1].name
    BY <1>6 DEF NextCount, Goto, UseConnection
  <2>2. \A g \in Handlers : pc[g] # "copy"
    BY <2>1, HandlersFinite DEF TableInv, Guarded
  <2>3. ScanReads \in {scan.i - 1, scan.i - 2}
    BY <1>0, <2>1, <2>2 DEF ScanReads
  <2>4. \/ /\ pc' = pc /\ servers_' = servers_ /\ scan'.i = scan.i + 1
        \/ /\ pc' = [pc EXCEPT ![h] = "copy"] /\ scan'.i = scan.i
    <3>1. PICK c :
            \/ /\ Goto(h, "scan", "scan")
               /\ scan' = [scan EXCEPT !.i = @ + 1,
                                       !.read = @ \cup {<<servers_[scan.i].name, c>>}]
               /\ UNCHANGED servers_
            \/ /\ Goto(h, "scan", "copy")
               /\ scan' = [scan EXCEPT !.min = c,
                                       !.read = @ \cup {<<servers_[scan.i].name, c>>}]
      BY <1>6 DEF NextCount
    <3>2. scan \in ScanSet
      BY DEF TypeOK, ScanSet
    <3> QED
      BY <1>0, <2>1, <3>1, <3>2 DEF Goto, ScanSet
  <2>5. Replying' = Replying
    BY <1>0, <2>1, <2>4 DEF Replying
  <2>6. CASE pc' = [pc EXCEPT ![h] = "copy"] /\ scan'.i = scan.i
    <3>1. pc'[h] = "copy" /\ scan'.i # 1
      BY <1>0, <2>1, <2>6
    <3>2. ScanReads' = scan.i - 1
      BY <2>6, <3>1 DEF ScanReads
    <3>3. ScanReads' + conns' <= ScanReads + conns
      BY <1>0, <2>1, <2>3, <3>2
    <3> QED
      BY <2>1, <2>5, <3>3, BudgetKept
  <2>7. CASE pc' = pc /\ servers_' = servers_ /\ scan'.i = scan.i + 1
    <3>1. servers_[1].name # Listed[scan.i]
      <4>1. servers_[scan.i] = Configured(Listed[scan.i])
        BY <2>1 DEF TableInv, RowsKept
      <4> QED
        BY <2>1, <4>1 DEF Configured
    <3>2. (\E j \in 2..(scan'.i - 1) : servers_'[1].name = Listed[j]) <=>
          (\E j \in 2..(scan.i - 1) : servers_[1].name = Listed[j])
      <4>1. \A j \in 2..(scan'.i - 1) : j \in 2..(scan.i - 1) \/ j = scan.i
        BY <1>0, <2>7
      <4>2. \A j \in 2..(scan.i - 1) : j \in 2..(scan'.i - 1)
        BY <1>0, <2>7
      <4> QED
        BY <2>7, <3>1, <4>1, <4>2
    <3>3. ScanReads' = ScanReads + 1
      BY <1>0, <2>1, <2>2, <2>7, <3>2 DEF ScanReads
    <3>4. ScanReads' + conns' <= ScanReads + conns
      BY <1>0, <2>1, <2>3, <3>3
    <3> QED
      BY <2>1, <2>5, <3>4, BudgetKept
  <2> QED
    BY <2>4, <2>6, <2>7
<1>7. ASSUME NEW h \in Handlers, CopyRow(h) PROVE Budget'
  <2>1. /\ pc[h] = "copy" /\ pc' = [pc EXCEPT ![h] = "scan"]
        /\ answers' = answers /\ conns' = conns /\ scan'.i = scan.i + 1
    BY <1>7 DEF CopyRow, CopyUnchanged, redisVars, Goto, TypeOK
  <2>2. scan.i \in 2..Len(Listed) /\ scan.i \in Rows /\ scan.i # 1
    BY <2>1, TableShape DEF TableInv, CopyState
  <2>3. \A g \in Handlers : pc'[g] # "copy"
    BY <1>0, <2>1, HandlersFinite DEF TableInv, Guarded
  <2>4. servers_'[1].name = Listed[scan.i]
    <3>1. servers_[scan.i] = Configured(Listed[scan.i])
      BY <2>2 DEF TableInv, RowsKept
    <3>2. servers_'[1].name = servers_[scan.i].name
      BY <1>7, <2>2, TableShape DEF CopyRow, TypeOK, Row
    <3> QED
      BY <3>1, <3>2 DEF Configured
  <2>5. Replying' = Replying
    BY <1>0, <2>1 DEF Replying
  <2>6. ScanReads = scan.i - 1
    BY <2>1, <2>2 DEF ScanReads
  <2>7. scan.i \in 2..(scan'.i - 1) /\ scan'.i # 1
    BY <1>0, <2>1, <2>2
  <2>8. ScanReads' = scan'.i - 2
    BY <2>3, <2>4, <2>7 DEF ScanReads
  <2>9. ScanReads' + conns' <= ScanReads + conns
    BY <1>0, <2>1, <2>6, <2>8
  <2> QED
    BY <2>1, <2>5, <2>9, BudgetKept
<1>8. ASSUME NEW h \in Handlers, Unlock(h) PROVE Budget'
  <2>1. /\ pc[h] = "scan" /\ pc' = [pc EXCEPT ![h] = "host"] /\ answers' = answers
        /\ conns' = conns /\ scan.i > Len(Listed) /\ scan'.i = 1
    BY <1>8 DEF Unlock, Goto, redisVars, NewScan
  <2>2. Replying' = Replying \cup {h} /\ h \notin Replying
    BY <1>0, <2>1 DEF Replying
  <2>3. Cardinality(Replying') = Cardinality(Replying) + 1
    BY <2>2, CountsTyped, FS_AddElement
  <2>4. \A g \in Handlers : pc[g] # "copy"
    BY <2>1, HandlersFinite DEF TableInv, Guarded
  <2>5. scan.i = Len(Listed) + 1
    BY <1>0, <2>1, TableShape DEF TypeOK
  <2>6. ScanReads >= PerCall - 1
    BY <2>1, <2>4, <2>5, TableShape DEF ScanReads, PerCall
  <2>7. ScanReads' = 0
    BY <2>1 DEF ScanReads
  <2>8. /\ Spent' = answers * PerCall + (Cardinality(Replying) + 1) * (PerCall - 1)
        /\ (Cardinality(Replying) + 1) * (PerCall - 1)
             = Cardinality(Replying) * (PerCall - 1) + (PerCall - 1)
    <3>1. \A c, p \in Int : (c + 1) * (p - 1) = c * (p - 1) + (p - 1)
      OBVIOUS
    <3>2. \A x, y \in Int : x * y \in Int
      OBVIOUS
    <3>3. Spent' = answers * PerCall + (Cardinality(Replying) + 1) * (PerCall - 1) + 0
      BY <2>1, <2>3, <2>7 DEF Spent
    <3>4. Cardinality(Replying) \in Int /\ PerCall \in Int /\ answers \in Int
      BY CountsTyped, PerCallNat
    <3>5. (Cardinality(Replying) + 1) * (PerCall - 1)
             = Cardinality(Replying) * (PerCall - 1) + (PerCall - 1)
      BY <3>1, <3>4
    <3>6. answers * PerCall \in Int /\ (Cardinality(Replying) + 1) * (PerCall - 1) \in Int
      BY <3>2, <3>4
    <3>7. \A x, y \in Int : x + y + 0 = x + y
      OBVIOUS
    <3>8. Spent' = answers * PerCall + (Cardinality(Replying) + 1) * (PerCall - 1)
      BY <3>3, <3>6, <3>7
    <3> QED
      BY <3>5, <3>8
  <2>9. answers * PerCall \in Int /\ Cardinality(Replying) * (PerCall - 1) \in Int
    BY CountsTyped, PerCallNat
  <2>10. Spent' <= Spent
    BY <2>6, <2>8, <2>9, CountsTyped, PerCallNat DEF Spent
  <2>11. Spent \in Int /\ Spent' \in Int
    BY <2>8, <2>9, CountsTyped, PerCallNat DEF Spent
  <2>12. \A a, b, c, d \in Int : a <= b /\ b + c <= d => a + c <= d
    OBVIOUS
  <2>13. Spent + conns <= PoolSize /\ PoolSize \in Int
    BY StatusNats DEF Budget
  <2>14. Spent' + conns <= PoolSize
    BY <1>0, <2>10, <2>11, <2>12, <2>13
  <2> QED
    BY <2>1, <2>14 DEF Budget
<1>9. ASSUME NEW h \in Handlers, InsertToken(h) PROVE Budget'
  <2>1. /\ pc[h] = "token" /\ pc' = [pc EXCEPT ![h] = "idle"] /\ answers' = answers + 1
        /\ conns' = conns - 1 /\ scan' = scan /\ servers_' = servers_
    BY <1>9 DEF InsertToken, UseConnection, Goto, tableVars
  <2>2. Replying' = Replying \ {h} /\ h \in Replying
    BY <1>0, <2>1 DEF Replying
  <2>3. Cardinality(Replying') = Cardinality(Replying) - 1
    BY <2>2, CountsTyped, FS_RemoveElement
  <2>4. ScanReads' = ScanReads
    BY <1>0, <2>1 DEF ScanReads
  <2>5. /\ Spent' = (answers + 1) * PerCall + (Cardinality(Replying) - 1) * (PerCall - 1)
                    + ScanReads
        /\ (answers + 1) * PerCall = answers * PerCall + PerCall
        /\ (Cardinality(Replying) - 1) * (PerCall - 1)
             = Cardinality(Replying) * (PerCall - 1) - (PerCall - 1)
    BY <2>1, <2>3, <2>4, CountsTyped, PerCallNat DEF Spent
  <2>6. answers * PerCall \in Int /\ Cardinality(Replying) * (PerCall - 1) \in Int
    BY CountsTyped, PerCallNat
  <2>7. Spent' = Spent + 1 /\ Spent \in Int
    BY <2>5, <2>6, CountsTyped, PerCallNat DEF Spent
  <2> QED
    BY <1>0, <2>1, <2>7, StatusNats DEF Budget
<1>10. ASSUME NEW h \in Handlers, Login(h) PROVE Budget'
  <2>1. /\ Replying' = Replying /\ ScanReads' = ScanReads /\ answers' = answers
        /\ conns' = conns - 1
    BY <1>0, <1>10 DEF Login, UseConnection, tableVars, Replying, ScanReads
  <2>2. ScanReads' + conns' <= ScanReads + conns
    BY <1>0, <2>1, CountsTyped
  <2> QED
    BY <2>1, <2>2, BudgetKept
<1>11. CASE UNCHANGED vars
  <2>1. Replying' = Replying /\ ScanReads' = ScanReads /\ answers' = answers /\ conns' = conns
    BY <1>11 DEF vars, tableVars, redisVars, Replying, ScanReads
  <2> QED
    BY <2>1, CountsTyped, BudgetKept
<1> QED
  BY NextCases, <1>1, <1>2, <1>3, <1>4, <1>5, <1>6, <1>7, <1>8, <1>9, <1>10, <1>11

(* The pool of Redis connections bounds the answers for good.              *)
THEOREM FewAnswers == Spec => []AnswersBounded
<1>1. TypeOK /\ TableInv /\ Budget => AnswersBounded
  <2> SUFFICES ASSUME TypeOK, TableInv, Budget PROVE AnswersBounded
    OBVIOUS
  <2>1. Cardinality(Replying) * (PerCall - 1) >= 0 /\ answers * PerCall \in Int
        /\ Cardinality(Replying) * (PerCall - 1) \in Int
    BY CountsTyped, PerCallNat
  <2>2. ScanReads >= 0 /\ ScanReads \in Int
    <3>1. scan.i \in Nat \ {0}
      BY TableShape DEF TypeOK
    <3>2. \A j \in 2..(scan.i - 1) : scan.i - 2 >= 0
      BY <3>1
    <3> QED
      BY <3>1, <3>2 DEF ScanReads
  <2> QED
    BY <2>1, <2>2, CountsTyped, StatusNats DEF Budget, Spent, AnswersBounded
<1>2. Init => Budget
  BY BudgetInit
<1>3. TypeOK /\ TypeOK' /\ TableInv /\ Budget /\ [Next]_vars => Budget'
  BY BudgetStep
<1> QED
  BY <1>1, <1>2, <1>3, TableHolds, PTL DEF Spec
=============================================================================
