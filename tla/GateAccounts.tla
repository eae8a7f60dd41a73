---------------------------- MODULE GateAccounts ----------------------------
(***************************************************************************)
(* The account requests of GateServer: /get_verifycode, /user_register,    *)
(* /reset_pwd and /user_login (GateServer/src/LogicSystem.cpp) run by the  *)
(* IO threads, with what they call: VerifyServer's GetVerifyCode, the      *)
(* verification codes in Redis, the user table in MySQL (MysqlDao's four   *)
(* statements) and StatusServer's GetChatServer.                           *)
(*                                                                         *)
(* A handler is split at its calls: between two of them the other threads, *)
(* VerifyServer and the expiry of codes run.  Every call can fail, before  *)
(* or after it took effect.  Responses are the sequence of error codes     *)
(* that the handler writes into one HTTP body.                             *)
(***************************************************************************)
EXTENDS Naturals, Sequences

CONSTANTS Workers,             \* IO threads of GateServer
          Names, Emails, Pwds, \* what clients send
          Codes,               \* verification codes
          None                 \* no code, no row

ASSUME NoneIsNothing == /\ None \notin Codes /\ None \notin Pwds
                        /\ None \notin [email : Emails, pwd : Pwds]

VARIABLES verify,   \* Redis: email -> code, or None when absent or expired
          users,    \* MySQL table user: name -> row, or None
          req,      \* the request each worker serves
          pc,       \* the call it is about to make
          resp,     \* error codes written to its response so far
          made,     \* history: its RegUser inserted the row
          free,     \* history: its name had no row when it arrived
          seen      \* history: see Watched

vars == <<verify, users, req, pc, resp, made, free, seen>>

Success == "Success"
Rows == [email : Emails, pwd : Pwds]

Requests ==
    [op : {"get_verifycode"}, email : Emails]
    \cup [op : {"user_register"}, email : Emails, user : Names, passwd : Pwds,
          confirm : Pwds, verifycode : Codes]
    \cup [op : {"reset_pwd"}, email : Emails, user : Names, passwd : Pwds,
          verifycode : Codes]
    \cup [op : {"user_login"}, user : Names, passwd : Pwds]
NoRequest == [op |-> "none"]

FirstCall == [get_verifycode |-> "GetVerifyCode", user_register |-> "Get",
              reset_pwd |-> "Get", user_login |-> "CheckPwd"]

(* The stored value a request is judged by: the password of the account it *)
(* logs in to, the code of the email it registers or resets with.          *)
Watched(r, codes, rows) ==
    IF r.op = "user_login"
    THEN IF rows[r.user] = None THEN None ELSE rows[r.user].pwd
    ELSE IF r.op \in {"user_register", "reset_pwd"} THEN codes[r.email]
    ELSE None

(* Every step that changes Redis or MySQL is observed by all requests. *)
Observe == seen' = [w \in Workers |->
                      IF pc[w] \in {"idle", "done"} THEN seen[w]
                      ELSE seen[w] \cup {Watched(req[w], verify', users')}]

Init == /\ verify = [e \in Emails |-> None]
        /\ users = [n \in Names |-> None]
        /\ req = [w \in Workers |-> NoRequest]
        /\ pc = [w \in Workers |-> "idle"]
        /\ resp = [w \in Workers |-> <<>>]
        /\ made = [w \in Workers |-> FALSE]
        /\ free = [w \in Workers |-> FALSE]
        /\ seen = [w \in Workers |-> {}]

-----------------------------------------------------------------------------
(* Write an error code and return from the handler. *)
Respond(w, error) == /\ resp' = [resp EXCEPT ![w] = Append(@, error)]
                     /\ pc' = [pc EXCEPT ![w] = "done"]

(* Go on to the next call. *)
Proceed(w, call) == /\ pc' = [pc EXCEPT ![w] = call]
                    /\ UNCHANGED resp

(* HandlePost dispatches a well-formed request.  user_register writes      *)
(* PasswdErr for a password that differs from its confirmation, and goes   *)
(* on.                                                                     *)
Receive(w) ==
    /\ pc[w] = "idle"
    /\ \E r \in Requests :
          /\ req' = [req EXCEPT ![w] = r]
          /\ pc' = [pc EXCEPT ![w] = FirstCall[r.op]]
          /\ resp' = [resp EXCEPT ![w] =
                        IF r.op = "user_register" /\ r.passwd # r.confirm
                        THEN <<"PasswdErr">> ELSE <<>>]
          /\ free' = [free EXCEPT ![w] = r.op = "reset_pwd" /\ users[r.user] = None]
          /\ seen' = [seen EXCEPT ![w] = {Watched(r, verify, users)}]
    /\ UNCHANGED <<verify, users, made>>

(* A body that does not parse. *)
ReceiveBadJson(w) == /\ pc[w] = "idle"
                     /\ Respond(w, "Error_Json")
                     /\ UNCHANGED <<verify, users, req, made, free, seen>>

(* WriteResponse; the connection is done with. *)
Finish(w) == /\ pc[w] = "done"
             /\ req' = [req EXCEPT ![w] = NoRequest]
             /\ pc' = [pc EXCEPT ![w] = "idle"]
             /\ resp' = [resp EXCEPT ![w] = <<>>]
             /\ made' = [made EXCEPT ![w] = FALSE]
             /\ free' = [free EXCEPT ![w] = FALSE]
             /\ seen' = [seen EXCEPT ![w] = {}]
             /\ UNCHANGED <<verify, users>>

-----------------------------------------------------------------------------
(* VerifyServer stores a fresh code for 300 seconds; the RPC fails when    *)
(* the store does, and can fail after it.                                  *)
GetVerifyCode(w) ==
    /\ pc[w] = "GetVerifyCode"
    /\ \/ /\ \E k \in Codes : verify' = [verify EXCEPT ![req[w].email] = k]
          /\ \E error \in {Success, "RPCFailed"} : Respond(w, error)
       \/ /\ UNCHANGED verify
          /\ Respond(w, "RPCFailed")
    /\ UNCHANGED <<users, req, made, free>>
    /\ Observe

(* The 300 seconds are over. *)
Expire(e) == /\ verify[e] # None
             /\ verify' = [verify EXCEPT ![e] = None]
             /\ UNCHANGED <<users, req, pc, resp, made, free>>
             /\ Observe

(* Mutant of CodeAccepted: any live code will do. *)
CodeAcceptedAny(w) == verify[req[w].email] # None

(* RedisMgr::Get of the email's code, and the comparison. *)
CodeAccepted(w) == verify[req[w].email] = req[w].verifycode

(* The verification both handlers begin with. *)
CheckCode(w) ==
    /\ pc[w] = "Get"
    /\ \/ Respond(w, "VerifyExpired")   \* absent, or Redis failed
       \/ /\ verify[req[w].email] # None
          /\ ~CodeAccepted(w)
          /\ Respond(w, "VerifyCodeErr")
       \/ /\ CodeAccepted(w)
          /\ Proceed(w, IF req[w].op = "user_register" THEN "RegUser" ELSE "CheckEmail")
    /\ UNCHANGED <<verify, users, req, made, free, seen>>

-----------------------------------------------------------------------------
(* The stored procedure reg_user: insert unless the name or the email is   *)
(* taken.                                                                  *)
Taken(r) == \/ users[r.user] # None
            \/ \E n \in Names : users[n] # None /\ users[n].email = r.email

Insert(w) == /\ ~Taken(req[w])
             /\ users' = [users EXCEPT ![req[w].user] =
                            [email |-> req[w].email, pwd |-> req[w].passwd]]
             /\ made' = [made EXCEPT ![w] = TRUE]

(* Mutant of RegUser: a failed call is reported as a success. *)
RegUserOptimistic(w) ==
    /\ pc[w] = "RegUser"
    /\ \/ Insert(w)
       \/ UNCHANGED <<users, made>>
    /\ Respond(w, Success)
    /\ UNCHANGED <<verify, req, free>>
    /\ Observe

(* MysqlDao::RegUser.  An SQLException gives -1, also when it comes from   *)
(* reading @result after the insert; 0 and -1 are answered UserExist.      *)
RegUser(w) ==
    /\ pc[w] = "RegUser"
    /\ \/ Insert(w) /\ \E error \in {Success, "UserExist"} : Respond(w, error)
       \/ UNCHANGED <<users, made>> /\ Respond(w, "UserExist")
    /\ UNCHANGED <<verify, req, free>>
    /\ Observe

(* Mutant of EmailValid: the email is never compared. *)
EmailValidAny(w) == req[w].email \in Emails

(* MysqlDao::CheckEmail without an exception: a name without a row passes. *)
EmailValid(w) ==
    users[req[w].user] # None => users[req[w].user].email = req[w].email

CheckEmail(w) ==
    /\ pc[w] = "CheckEmail"
    /\ \/ EmailValid(w) /\ Proceed(w, "UpdatePwd")
       \/ Respond(w, "EmailNotMatch")   \* mismatch, or SQLException
    /\ UNCHANGED <<verify, users, req, made, free, seen>>

(* UPDATE user SET pwd = ? WHERE name = ?: no row is no error. *)
SetPwd(w) == users' = [users EXCEPT ![req[w].user] =
                         IF @ = None THEN None ELSE [@ EXCEPT !.pwd = req[w].passwd]]

UpdatePwd(w) ==
    /\ pc[w] = "UpdatePwd"
    /\ \/ SetPwd(w) /\ \E error \in {Success, "PasswdUpFailed"} : Respond(w, error)
       \/ UNCHANGED users /\ Respond(w, "PasswdUpFailed")
    /\ UNCHANGED <<verify, req, made, free>>
    /\ Observe

-----------------------------------------------------------------------------
(* Mutant of PwdMatches: a name without a row passes. *)
PwdMatchesMissing(w) ==
    users[req[w].user] # None => users[req[w].user].pwd = req[w].passwd

(* MysqlDao::CheckPwd without an exception.  For a name without a row an   *)
(* empty password would compare equal, but reading the row then throws.    *)
PwdMatches(w) == /\ users[req[w].user] # None
                 /\ users[req[w].user].pwd = req[w].passwd

CheckPwd(w) ==
    /\ pc[w] = "CheckPwd"
    /\ \/ PwdMatches(w) /\ Proceed(w, "GetChatServer")
       \/ Respond(w, "PasswdInvalid")   \* mismatch, or SQLException
    /\ UNCHANGED <<verify, users, req, made, free, seen>>

(* StatusServer assigns a chat server and a token, or the RPC fails. *)
GetChatServer(w) ==
    /\ pc[w] = "GetChatServer"
    /\ \E error \in {Success, "RPCFailed"} : Respond(w, error)
    /\ UNCHANGED <<verify, users, req, made, free, seen>>

Next == \/ \E w \in Workers :
              \/ Receive(w) \/ ReceiveBadJson(w) \/ Finish(w)
              \/ GetVerifyCode(w) \/ CheckCode(w) \/ RegUser(w)
              \/ CheckEmail(w) \/ UpdatePwd(w) \/ CheckPwd(w) \/ GetChatServer(w)
        \/ \E e \in Emails : Expire(e)

Spec == Init /\ [][Next]_vars

-----------------------------------------------------------------------------
Errors == {Success, "Error_Json", "RPCFailed", "VerifyExpired", "VerifyCodeErr",
           "UserExist", "PasswdErr", "EmailNotMatch", "PasswdUpFailed", "PasswdInvalid"}

TypeOK ==
    /\ verify \in [Emails -> Codes \cup {None}]
    /\ users \in [Names -> Rows \cup {None}]
    /\ req \in [Workers -> Requests \cup {NoRequest}]
    /\ pc \in [Workers -> {"idle", "done", "GetVerifyCode", "Get", "RegUser",
                           "CheckEmail", "UpdatePwd", "CheckPwd", "GetChatServer"}]
    /\ resp \in [Workers -> Seq(Errors)]
    /\ made \in [Workers -> BOOLEAN]
    /\ free \in [Workers -> BOOLEAN]
    /\ seen \in [Workers -> SUBSET (Codes \cup Pwds \cup {None})]

(* Request w has been answered Success. *)
Succeeded(w) == pc[w] = "done" /\ resp[w] # <<>> /\ resp[w][Len(resp[w])] = Success

Asks(w, ops) == req[w].op \in ops

(* A registration or a reset that succeeds carried the code that Redis     *)
(* held for its email at some moment between its arrival and its answer,   *)
(* whatever was issued, expired or overwritten meanwhile.                  *)
CodeHeldMeanwhile ==
    \A w \in Workers :
        Succeeded(w) /\ Asks(w, {"user_register", "reset_pwd"})
            => req[w].verifycode \in seen[w]

(* A login that succeeds carried the password the account had at some      *)
(* moment between its arrival and its answer, resets in other threads      *)
(* included.                                                               *)
PwdHeldMeanwhile ==
    \A w \in Workers :
        Succeeded(w) /\ Asks(w, {"user_login"}) => req[w].passwd \in seen[w]

(* A registration answered Success inserted its row, and the row is still  *)
(* there under its email (rows are never removed or moved).                *)
RegisteredIsStored ==
    \A w \in Workers :
        Succeeded(w) /\ Asks(w, {"user_register"}) =>
            /\ made[w]
            /\ users[req[w].user] # None
            /\ users[req[w].user].email = req[w].email

(* A stored password changes only by a reset for that name whose code was  *)
(* accepted, and names keep their email for ever.  CheckEmail and          *)
(* UpdatePwd are two statements, so the reset may carry another email, but *)
(* only if the name was registered after the reset had arrived.            *)
OnlyResetsChangeRows ==
    [][\A n \in Names : users[n] # None /\ users'[n] # users[n] =>
          \E w \in Workers :
             /\ pc[w] = "UpdatePwd"
             /\ req[w].user = n
             /\ req[w].verifycode \in seen[w]
             /\ req[w].email # users[n].email => free[w]
             /\ users'[n] = [users[n] EXCEPT !.pwd = req[w].passwd]]_vars

(* const.h, "EmailNotMatch": the password of an account is changed only by *)
(* a reset sent with that account's email.                                 *)
ResetNeedsAccountEmail ==
    [][\A n \in Names : users[n] # None /\ users'[n] # users[n] =>
          \E w \in Workers : pc[w] = "UpdatePwd" /\ req[w].user = n
                             /\ req[w].email = users[n].email]_vars

(* const.h, "PasswdErr": a registration answered with a password error has *)
(* not registered anybody.                                                 *)
PasswdErrRegistersNobody ==
    \A w \in Workers : made[w] => \A i \in 1..Len(resp[w]) : resp[w][i] # "PasswdErr"
=============================================================================
