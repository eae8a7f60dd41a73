--------------------------- MODULE StatusService ---------------------------
(***************************************************************************)
(* StatusServiceImpl of StatusServer on top of its Redis pool: the choice  *)
(* of a chat server, the tokens, and Login.                                *)
(*                                                                         *)
(*  - getChatServer holds server_mtx_ while it reads the login counts, and *)
(*    minServer is a reference to the table's first row: choosing another  *)
(*    row copies that row over the first one.                              *)
(*  - GetChatServer reads host and port through the returned reference     *)
(*    after server_mtx_ is released; a row is copied member by member.     *)
(*  - A Redis command uses up one connection for good and waits for ever   *)
(*    when there is none (CommandsBounded of RedisPool).                   *)
(*  - The login counts are written by nobody in the repository.            *)
(***************************************************************************)
EXTENDS Naturals, Sequences, FiniteSets

CONSTANTS Listed,     \* configured servers, in the order servers_ is iterated
          Handlers,   \* threads of the gRPC server
          Uids,
          MaxCount,   \* bound: logins of one server
          PoolSize    \* Redis connections

Names == {Listed[i] : i \in 1..Len(Listed)}
Rows == 1..Len(Listed)

ASSUME ListedDistinct == /\ Listed \in Seq(Names) /\ Listed # <<>>
                         /\ \A i, j \in Rows : Listed[i] = Listed[j] => i = j
ASSUME HandlersFinite == IsFiniteSet(Handlers) /\ "nobody" \notin Handlers
ASSUME StatusNats == MaxCount \in Nat /\ PoolSize \in Nat

VARIABLES servers_,    \* rows [name, host, port]
          server_mtx_,
          scan,        \* getChatServer: row, smallest count, counts read
          count,       \* Redis hash logincount; INT_MAX: no field
          tokens,      \* Redis keys utoken_<uid>; NoToken: no key
          conns,       \* Redis connections left
          pc, uid, rsp,\* each handler: position, request, reply
          login,       \* last Login reply of each handler, with the token given
          dirty,       \* history: the first row changed since getChatServer
          issued, answers  \* history: tokens made, GetChatServer replies sent

tableVars == <<servers_, server_mtx_, scan, dirty>>
redisVars == <<count, tokens, conns>>
vars == <<tableVars, redisVars, pc, uid, rsp, login, issued, answers>>

INT_MAX == MaxCount + 1
Nobody  == "nobody"
NoToken == 0
NoName  == "none"

(* StatusServiceImpl(): name, host and port of the sections the list names.*)
Configured(n) == [name |-> n, host |-> n, port |-> n]
NoReply == [host |-> NoName, port |-> NoName]
NewScan == [i |-> 1, min |-> INT_MAX, read |-> {}]

Init == /\ servers_ = [i \in Rows |-> Configured(Listed[i])]
        /\ server_mtx_ = Nobody
        /\ scan = NewScan
        /\ count \in [Names -> 0..INT_MAX]
        /\ tokens = [u \in Uids |-> NoToken]
        /\ conns = PoolSize
        /\ pc = [h \in Handlers |-> "idle"]
        /\ uid \in [Handlers -> Uids]
        /\ rsp = [h \in Handlers |-> NoReply]
        /\ login = [h \in Handlers |-> [error |-> "none", token |-> NoToken]]
        /\ dirty = {}
        /\ issued = 0 /\ answers = 0

Goto(h, from, to) == pc[h] = from /\ pc' = [pc EXCEPT ![h] = to]

(* Mutant of UseConnection: the command gives its connection back. *)
UseAndReturn == conns > 0 /\ conns' = conns

(* A RedisMgr command gets through. *)
UseConnection == conns > 0 /\ conns' = conns - 1

(* What HGet(LOGIN_COUNT, n) can yield: it answers "" for an absent field  *)
(* and for an error.                                                       *)
HGet(n) == {count[n], INT_MAX}

(* The logins of a chat server change. *)
CountChanges == /\ \E n \in Names, c \in 0..INT_MAX :
                      /\ c # count[n]
                      /\ count' = [count EXCEPT ![n] = c]
                /\ UNCHANGED <<tableVars, tokens, conns, pc, uid, rsp, login,
                               issued, answers>>

-----------------------------------------------------------------------------
(* GetChatServer. *)

Call(h) == /\ Goto(h, "idle", "lock")
           /\ uid' \in {[uid EXCEPT ![h] = u] : u \in Uids}
           /\ UNCHANGED <<tableVars, redisVars, rsp, login, issued, answers>>

Lock(h) == /\ Goto(h, "lock", "scan")
           /\ server_mtx_ = Nobody
           /\ server_mtx_' = h
           /\ UNCHANGED <<servers_, scan, dirty, redisVars, uid, rsp, login, issued, answers>>

(* minServer is the first row. *)
FirstCount(h) ==
    /\ Goto(h, "scan", "scan")
    /\ scan.i = 1
    /\ UseConnection
    /\ \E c \in HGet(servers_[1].name) :
          scan' = [i |-> 2, min |-> c, read |-> {<<servers_[1].name, c>>}]
    /\ UNCHANGED <<servers_, server_mtx_, dirty, count, tokens, uid, rsp,
                   login, issued, answers>>

(* A row with minServer's name is skipped. *)
SkipRow(h) ==
    /\ Goto(h, "scan", "scan")
    /\ scan.i \in 2..Len(Listed)
    /\ servers_[scan.i].name = servers_[1].name
    /\ scan' = [scan EXCEPT !.i = @ + 1]
    /\ UNCHANGED <<servers_, server_mtx_, dirty, redisVars, uid, rsp, login,
                   issued, answers>>

Reading == {h \in Handlers : pc[h] \in {"host", "port"}}

(* Mutant of NextCount: con_count is not copied with the row. *)
NextCountStale(h) ==
    /\ scan.i \in 2..Len(Listed)
    /\ servers_[scan.i].name # servers_[1].name
    /\ UseConnection
    /\ \E c \in HGet(servers_[scan.i].name) :
          /\ scan' = [scan EXCEPT !.read = @ \cup {<<servers_[scan.i].name, c>>},
                                  !.i = IF c < scan.min THEN @ ELSE @ + 1]
          /\ IF c < scan.min
             THEN /\ Goto(h, "scan", "copy")
                  /\ servers_' = [servers_ EXCEPT ![1].host = servers_[scan.i].host]
             ELSE Goto(h, "scan", "scan") /\ UNCHANGED servers_
    /\ UNCHANGED <<server_mtx_, dirty, count, tokens, uid, rsp, login, issued, answers>>

(* Read the row's count; if it is smaller, minServer = server.second copies*)
(* the row over the first one, here its host ...                           *)
NextCount(h) ==
    /\ scan.i \in 2..Len(Listed)
    /\ servers_[scan.i].name # servers_[1].name
    /\ UseConnection
    /\ \E c \in HGet(servers_[scan.i].name) :
          \/ /\ c >= scan.min
             /\ Goto(h, "scan", "scan")
             /\ scan' = [scan EXCEPT !.i = @ + 1,
                                     !.read = @ \cup {<<servers_[scan.i].name, c>>}]
             /\ UNCHANGED <<servers_, dirty>>
          \/ /\ c < scan.min
             /\ Goto(h, "scan", "copy")
             /\ scan' = [scan EXCEPT !.min = c,
                                     !.read = @ \cup {<<servers_[scan.i].name, c>>}]
             /\ servers_' = [servers_ EXCEPT ![1].host = servers_[scan.i].host]
             /\ dirty' = dirty \cup Reading
    /\ UNCHANGED <<server_mtx_, count, tokens, uid, rsp, login, issued, answers>>

CopyUnchanged == UNCHANGED <<server_mtx_, redisVars, uid, rsp, login, issued, answers>>

(* Mutant of CopyRow: the port is forgotten. *)
CopyRowNoPort(h) ==
    /\ Goto(h, "copy", "scan")
    /\ servers_' = [servers_ EXCEPT ![1].name = servers_[scan.i].name]
    /\ scan' = [scan EXCEPT !.i = @ + 1]
    /\ dirty' = dirty \cup Reading
    /\ CopyUnchanged

(* Mutant of CopyRow: the two rows are swapped. *)
CopyRowSwap(h) ==
    /\ Goto(h, "copy", "scan")
    /\ servers_' = [servers_ EXCEPT ![1] = servers_[scan.i],
                                    ![scan.i] = Configured(servers_[1].name)]
    /\ scan' = [scan EXCEPT !.i = @ + 1]
    /\ dirty' = dirty \cup Reading
    /\ CopyUnchanged

(* ... then its port and name. *)
CopyRow(h) ==
    /\ Goto(h, "copy", "scan")
    /\ servers_' = [servers_ EXCEPT ![1].port = servers_[scan.i].port,
                                    ![1].name = servers_[scan.i].name]
    /\ scan' = [scan EXCEPT !.i = @ + 1]
    /\ dirty' = dirty \cup Reading
    /\ CopyUnchanged

(* The guard is released; the caller has a reference to the first row. *)
Unlock(h) == /\ Goto(h, "scan", "host")
             /\ scan.i > Len(Listed)
             /\ server_mtx_' = Nobody
             /\ scan' = NewScan
             /\ dirty' = dirty \ {h}
             /\ UNCHANGED <<servers_, redisVars, uid, rsp, login, issued, answers>>

SetHost(h) == /\ Goto(h, "host", "port")
              /\ rsp' = [rsp EXCEPT ![h] = [host |-> servers_[1].host, port |-> NoName]]
              /\ UNCHANGED <<tableVars, redisVars, uid, login, issued, answers>>

SetPort(h) == /\ Goto(h, "port", "token")
              /\ rsp' = [rsp EXCEPT ![h].port = servers_[1].port]
              /\ UNCHANGED <<tableVars, redisVars, uid, login, issued, answers>>

(* A fresh token, insertToken whose failure is not noticed, and the reply. *)
InsertToken(h) ==
    /\ Goto(h, "token", "idle")
    /\ UseConnection
    /\ issued' = issued + 1
    /\ answers' = answers + 1
    /\ tokens' \in {tokens, [tokens EXCEPT ![uid[h]] = issued']}
    /\ rsp' = [rsp EXCEPT ![h] = NoReply]
    /\ UNCHANGED <<tableVars, count, uid, login>>

-----------------------------------------------------------------------------
(* Login, with a token a client can hold.  Get fails for a missing key and *)
(* on an error; token_value is then "".                                    *)

(* Mutant of LoginError: the tokens are not compared. *)
LoginErrorUnchecked(found, value, token) ==
    IF found THEN "UidInvalid" ELSE "Success"

LoginError(found, value, token) ==
    IF found THEN "UidInvalid"
    ELSE IF value # token THEN "TokenInvalid" ELSE "Success"

Login(h) ==
    /\ pc[h] = "idle"
    /\ UseConnection
    /\ \E u \in Uids, token \in 0..issued, found \in BOOLEAN :
          /\ found => tokens[u] # NoToken
          /\ login' = [login EXCEPT ![h] =
                [error |-> LoginError(found, IF found THEN tokens[u] ELSE NoToken, token),
                 token |-> token]]
    /\ UNCHANGED <<tableVars, count, tokens, pc, uid, rsp, issued, answers>>

-----------------------------------------------------------------------------
Step(h) == \/ Call(h) \/ Lock(h) \/ FirstCount(h) \/ SkipRow(h) \/ NextCount(h)
           \/ CopyRow(h) \/ Unlock(h) \/ SetHost(h) \/ SetPort(h)
           \/ InsertToken(h) \/ Login(h)

Next == CountChanges \/ \E h \in Handlers : Step(h)

Spec == Init /\ [][Next]_vars

-----------------------------------------------------------------------------
Row == [name : Names, host : Names, port : Names]

TypeOK ==
    /\ servers_ \in [Rows -> Row]
    /\ server_mtx_ \in Handlers \cup {Nobody}
    /\ scan \in [i : 1..(Len(Listed) + 1), min : 0..INT_MAX,
                 read : SUBSET (Names \X (0..INT_MAX))]
    /\ count \in [Names -> 0..INT_MAX]
    /\ tokens \in [Uids -> Nat]
    /\ conns \in 0..PoolSize
    /\ pc \in [Handlers -> {"idle", "lock", "scan", "copy", "host", "port", "token"}]
    /\ uid \in [Handlers -> Uids]
    /\ rsp \in [Handlers -> [host : Names \cup {NoName}, port : Names \cup {NoName}]]
    /\ login \in [Handlers -> [error : {"none", "Success", "UidInvalid", "TokenInvalid"},
                               token : Nat]]
    /\ dirty \subseteq Handlers
    /\ issued \in Nat /\ answers \in Nat

(* While getChatServer runs, the first row is the server with the smallest *)
(* of the counts it has read, whatever other calls did to the row before;  *)
(* rows it skipped are those of that same server.                          *)
ScanChoosesMin ==
    \A h \in Handlers : pc[h] = "scan" /\ scan.i > 1 =>
        /\ <<servers_[1].name, scan.min>> \in scan.read
        /\ \A r \in scan.read : scan.min <= r[2]

(* A reply names the host of one server and the port of another only when  *)
(* another call overwrote the row between getChatServer and the reading of *)
(* the port: the row itself is whole whenever server_mtx_ is free.         *)
MixedNeedsOverlap ==
    /\ \A h \in Handlers : pc[h] = "token" /\ rsp[h].host # rsp[h].port => h \in dirty
    /\ server_mtx_ = Nobody => servers_[1] = Configured(servers_[1].name)

(* A Login succeeds with the empty token only, although every answer of    *)
(* GetChatServer carries a fresh one: a token that is found is an error,   *)
(* one that is not found is compared with "".                              *)
LoginOnlyEmptyToken ==
    \A h \in Handlers : login[h].error = "Success" => login[h].token = NoToken

(* GetChatServer answers a bounded number of times in the life of the      *)
(* process: each answer reads the count of all servers but one (at least   *)
(* of one) and sets a token, and every command costs a connection.         *)
PerCall == IF Len(Listed) = 1 THEN 2 ELSE Len(Listed)

AnswersBounded == answers * PerCall + conns <= PoolSize

(* The first server of the table, once another had fewer logins, is never  *)
(* offered again, however few logins it has: its row is gone.              *)
FirstStaysLost ==
    [][servers_[1].name # Listed[1] => servers_'[1].name # Listed[1]]_vars
=============================================================================
