------------------------- MODULE GateAccountsProofs -------------------------
(***************************************************************************)
(* Proofs about the account requests of GateServer, for every number of    *)
(* IO threads, users, emails, passwords and codes.                         *)
(***************************************************************************)
EXTENDS GateAccounts, TLAPS

(* The next-state relation split into one case per operation. *)
WorkerStep(w) == \/ Receive(w) \/ ReceiveBadJson(w) \/ Finish(w)
                 \/ GetVerifyCode(w) \/ CheckCode(w) \/ RegUser(w)
                 \/ CheckEmail(w) \/ UpdatePwd(w) \/ CheckPwd(w) \/ GetChatServer(w)

LEMMA NextCases ==
    ASSUME [Next]_vars
    PROVE  \/ \E w \in Workers : WorkerStep(w)
           \/ \E e \in Emails : Expire(e)
           \/ UNCHANGED vars
  BY DEF Next, WorkerStep

(* What a request carries. *)
LEMMA RequestFields ==
    ASSUME NEW r \in Requests
    PROVE  /\ r.op \in {"get_verifycode", "user_register", "reset_pwd", "user_login"}
           /\ r.op \in {"get_verifycode", "user_register", "reset_pwd"} => r.email \in Emails
           /\ r.op \in {"user_register", "reset_pwd", "user_login"} =>
                 r.user \in Names /\ r.passwd \in Pwds
           /\ r.op \in {"user_register", "reset_pwd"} => r.verifycode \in Codes
  BY DEF Requests

(* The stored value a request is judged by is a code, a password or None. *)
LEMMA WatchedTyped ==
    ASSUME NEW r \in Requests \cup {NoRequest},
           NEW codes \in [Emails -> Codes \cup {None}],
           NEW rows \in [Names -> Rows \cup {None}]
    PROVE  Watched(r, codes, rows) \in Codes \cup Pwds \cup {None}
<1>1. CASE r = NoRequest
  BY <1>1 DEF Watched, NoRequest
<1>2. CASE r \in Requests
  <2>1. CASE r.op = "user_login"
    <3>1. rows[r.user] \in Rows \cup {None}
      BY <1>2, <2>1, RequestFields
    <3> QED
      BY <2>1, <3>1 DEF Watched, Rows
  <2>2. CASE r.op \in {"user_register", "reset_pwd"}
    BY <1>2, <2>2, RequestFields DEF Watched
  <2>3. CASE r.op = "get_verifycode"
    BY <2>3 DEF Watched
  <2> QED
    BY <1>2, <2>1, <2>2, <2>3, RequestFields
<1> QED
  BY <1>1, <1>2

-----------------------------------------------------------------------------
(* Which request can be at which call. *)
Fits(w) ==
    /\ pc[w] = "GetVerifyCode" => req[w].op = "get_verifycode"
    /\ pc[w] = "Get" => req[w].op \in {"user_register", "reset_pwd"}
    /\ pc[w] = "RegUser" => req[w].op = "user_register"
    /\ pc[w] \in {"CheckEmail", "UpdatePwd"} => req[w].op = "reset_pwd"
    /\ pc[w] \in {"CheckPwd", "GetChatServer"} => req[w].op = "user_login"

(* What has been stored while the request was served: what is stored now;  *)
(* past its check, what the request carries.                               *)
Judged(w) ==
    /\ pc[w] \notin {"idle", "done"} => Watched(req[w], verify, users) \in seen[w]
    /\ pc[w] \in {"RegUser", "CheckEmail", "UpdatePwd"} => req[w].verifycode \in seen[w]
    /\ pc[w] = "GetChatServer" => req[w].passwd \in seen[w]

Answered(w) ==
    Succeeded(w) =>
       /\ Asks(w, {"user_register", "reset_pwd"}) => req[w].verifycode \in seen[w]
       /\ Asks(w, {"user_login"}) => req[w].passwd \in seen[w]

Story == \A w \in Workers : Fits(w) /\ Judged(w) /\ Answered(w)

(* A reset whose name has no row, or has one with another email after the  *)
(* comparison, found the name free when it arrived.                        *)
Compared(w) ==
    /\ /\ pc[w] \in {"Get", "CheckEmail"}
       /\ req[w].op = "reset_pwd" /\ users[req[w].user] = None
       => free[w]
    /\ pc[w] = "UpdatePwd" =>
          \/ free[w]
          \/ users[req[w].user] # None /\ users[req[w].user].email = req[w].email

Inv == TypeOK /\ Story /\ RegisteredIsStored /\ \A w \in Workers : Compared(w)

LEMMA InvInit == Init => Inv
<1> SUFFICES ASSUME Init PROVE Inv
  OBVIOUS
<1>1. TypeOK
  BY DEF Init, TypeOK
<1>2. Story
  BY DEF Init, Story, Fits, Judged, Answered, Succeeded
<1>3. RegisteredIsStored
  BY DEF Init, RegisteredIsStored, Succeeded
<1>4. \A w \in Workers : Compared(w)
  BY DEF Init, Compared
<1> QED
  BY <1>1, <1>2, <1>3, <1>4 DEF Inv

(* A response ends with the error code just written. *)
LEMMA Responding ==
    ASSUME TypeOK, NEW w \in Workers, NEW error \in Errors, Respond(w, error)
    PROVE  /\ resp' \in [Workers -> Seq(Errors)]
           /\ pc' = [pc EXCEPT ![w] = "done"] /\ pc'[w] = "done"
           /\ Succeeded(w)' => error = Success
           /\ \A u \in Workers : u # w => pc'[u] = pc[u] /\ resp'[u] = resp[u]
<1> DEFINE r == resp[w]
<1>1. r \in Seq(Errors) /\ resp \in [Workers -> Seq(Errors)]
  BY DEF TypeOK
<1>2. /\ Append(r, error) \in Seq(Errors)
      /\ Append(r, error)[Len(Append(r, error))] = error
  BY <1>1
<1>3. /\ resp' = [resp EXCEPT ![w] = Append(r, error)]
      /\ pc' = [pc EXCEPT ![w] = "done"]
  BY DEF Respond
<1> HIDE DEF r
<1>4. resp'[w] = Append(r, error)
  BY <1>1, <1>3
<1> QED
  BY <1>1, <1>2, <1>3, <1>4 DEF Succeeded, TypeOK

(* Observing keeps what was seen and adds what is stored now. *)
LEMMA Observing ==
    ASSUME TypeOK, Observe, verify' \in [Emails -> Codes \cup {None}],
           users' \in [Names -> Rows \cup {None}]
    PROVE  /\ seen' \in [Workers -> SUBSET (Codes \cup Pwds \cup {None})]
           /\ \A w \in Workers :
                 /\ seen[w] \subseteq seen'[w]
                 /\ pc[w] \notin {"idle", "done"} => Watched(req[w], verify', users') \in seen'[w]
<1>1. ASSUME NEW w \in Workers
      PROVE  /\ Watched(req[w], verify', users') \in Codes \cup Pwds \cup {None}
             /\ seen[w] \in SUBSET (Codes \cup Pwds \cup {None})
  BY <1>1, WatchedTyped DEF TypeOK
<1> QED
  BY <1>1 DEF Observe

(* A step of somebody else. *)
LEMMA Bystander ==
    ASSUME NEW u \in Workers, Fits(u), Judged(u), Answered(u),
           pc'[u] = pc[u], req'[u] = req[u], resp'[u] = resp[u],
           seen[u] \subseteq seen'[u],
           pc[u] \notin {"idle", "done"} => Watched(req[u], verify', users') \in seen'[u]
    PROVE  Fits(u)' /\ Judged(u)' /\ Answered(u)'
<1>1. Fits(u)'
  BY DEF Fits
<1>2. Judged(u)'
  BY DEF Judged, Watched
<1>3. Answered(u)'
  BY DEF Answered, Succeeded, Asks
<1> QED
  BY <1>1, <1>2, <1>3

-----------------------------------------------------------------------------
LEMMA TypeStep == TypeOK /\ Story /\ [Next]_vars => TypeOK'
<1> SUFFICES ASSUME TypeOK, Story, [Next]_vars PROVE TypeOK'
  OBVIOUS
<1>t. /\ verify \in [Emails -> Codes \cup {None}]
      /\ users \in [Names -> Rows \cup {None}]
      /\ req \in [Workers -> Requests \cup {NoRequest}]
      /\ made \in [Workers -> BOOLEAN] /\ free \in [Workers -> BOOLEAN]
      /\ seen \in [Workers -> SUBSET (Codes \cup Pwds \cup {None})]
      /\ resp \in [Workers -> Seq(Errors)]
      /\ pc \in [Workers -> {"idle", "done", "GetVerifyCode", "Get", "RegUser",
                             "CheckEmail", "UpdatePwd", "CheckPwd", "GetChatServer"}]
  BY DEF TypeOK
<1>e. "PasswdErr" \in Errors /\ <<>> \in Seq(Errors) /\ <<"PasswdErr">> \in Seq(Errors)
  BY DEF Errors
<1>p. ASSUME NEW w \in Workers, NEW error \in Errors, Respond(w, error)
      PROVE  /\ resp' \in [Workers -> Seq(Errors)]
             /\ pc' \in [Workers -> {"idle", "done", "GetVerifyCode", "Get", "RegUser",
                             "CheckEmail", "UpdatePwd", "CheckPwd", "GetChatServer"}]
  <2>1. resp' \in [Workers -> Seq(Errors)] /\ pc' = [pc EXCEPT ![w] = "done"]
    BY <1>p, Responding
  <2> QED
    BY <1>t, <2>1
<1>1. ASSUME NEW w \in Workers, Receive(w) PROVE TypeOK'
  <2>1. PICK r \in Requests :
          /\ req' = [req EXCEPT ![w] = r]
          /\ pc' = [pc EXCEPT ![w] = FirstCall[r.op]]
          /\ resp' = [resp EXCEPT ![w] =
                        IF r.op = "user_register" /\ r.passwd # r.confirm
                        THEN <<"PasswdErr">> ELSE <<>>]
          /\ seen' = [seen EXCEPT ![w] = {Watched(r, verify, users)}]
    BY <1>1 DEF Receive
  <2>2. FirstCall[r.op] \in {"GetVerifyCode", "Get", "CheckPwd"}
    BY <2>1, RequestFields DEF FirstCall
  <2>3. Watched(r, verify, users) \in Codes \cup Pwds \cup {None}
    BY <1>t, WatchedTyped
  <2>4. resp' \in [Workers -> Seq(Errors)]
    BY <1>t, <1>e, <2>1
  <2> QED
    BY <1>1, <1>t, <2>1, <2>2, <2>3, <2>4 DEF Receive, TypeOK
<1>2. ASSUME NEW w \in Workers, ReceiveBadJson(w) PROVE TypeOK'
  <2>1. "Error_Json" \in Errors
    BY DEF Errors
  <2> QED
    BY <1>2, <1>t, <1>p, <2>1 DEF ReceiveBadJson, TypeOK
<1>3. ASSUME NEW w \in Workers, Finish(w) PROVE TypeOK'
  BY <1>3, <1>t, <1>e DEF Finish, TypeOK
<1>4. ASSUME NEW w \in Workers, GetVerifyCode(w) PROVE TypeOK'
  <2>1. verify' \in [Emails -> Codes \cup {None}] /\ UNCHANGED <<users, req, made, free>>
    <3>1. /\ UNCHANGED <<users, req, made, free>>
          /\ \/ \E k \in Codes : verify' = [verify EXCEPT ![req[w].email] = k]
             \/ UNCHANGED verify
      BY <1>4 DEF GetVerifyCode
    <3> QED
      BY <1>t, <3>1
  <2>2. PICK error \in {Success, "RPCFailed"} : Respond(w, error)
    BY <1>4 DEF GetVerifyCode
  <2>3. error \in Errors
    BY <2>2 DEF Errors
  <2> QED
    BY <1>4, <1>t, <1>p, <2>1, <2>2, <2>3, Observing DEF GetVerifyCode, TypeOK
<1>5. ASSUME NEW w \in Workers, CheckCode(w) PROVE TypeOK'
  <2>1. \/ \E error \in {"VerifyExpired", "VerifyCodeErr"} : Respond(w, error)
        \/ \E call \in {"RegUser", "CheckEmail"} : Proceed(w, call)
    BY <1>5 DEF CheckCode
  <2>2. {"VerifyExpired", "VerifyCodeErr"} \subseteq Errors
    BY DEF Errors
  <2>3. resp' \in [Workers -> Seq(Errors)] /\ pc' \in [Workers -> {"idle", "done",
          "GetVerifyCode", "Get", "RegUser", "CheckEmail", "UpdatePwd", "CheckPwd", "GetChatServer"}]
    BY <1>t, <1>p, <2>1, <2>2 DEF Proceed
  <2> QED
    BY <1>5, <1>t, <2>3 DEF CheckCode, TypeOK
<1>6. ASSUME NEW w \in Workers, RegUser(w) PROVE TypeOK'
  <2>1. req[w] \in Requests /\ req[w].op = "user_register"
    BY <1>6, <1>t DEF RegUser, Story, Fits, NoRequest
  <2>2. [email |-> req[w].email, pwd |-> req[w].passwd] \in Rows
    BY <2>1, RequestFields DEF Rows
  <2>3. /\ users' \in [Names -> Rows \cup {None}] /\ made' \in [Workers -> BOOLEAN]
        /\ UNCHANGED <<verify, req, free>>
    <3>1. UNCHANGED <<verify, req, free>> /\ (Insert(w) \/ UNCHANGED <<users, made>>)
      BY <1>6 DEF RegUser
    <3>2. CASE Insert(w)
      BY <1>t, <2>2, <3>1, <3>2 DEF Insert
    <3> QED
      BY <1>t, <3>1, <3>2
  <2>4. PICK error \in {Success, "UserExist"} : Respond(w, error)
    BY <1>6 DEF RegUser
  <2>5. error \in Errors
    BY <2>4 DEF Errors
  <2> QED
    BY <1>6, <1>t, <1>p, <2>3, <2>4, <2>5, Observing DEF RegUser, TypeOK
<1>7. ASSUME NEW w \in Workers, CheckEmail(w) PROVE TypeOK'
  <2>1. Respond(w, "EmailNotMatch") \/ Proceed(w, "UpdatePwd")
    BY <1>7 DEF CheckEmail
  <2>2. "EmailNotMatch" \in Errors
    BY DEF Errors
  <2>3. resp' \in [Workers -> Seq(Errors)] /\ pc' \in [Workers -> {"idle", "done",
          "GetVerifyCode", "Get", "RegUser", "CheckEmail", "UpdatePwd", "CheckPwd", "GetChatServer"}]
    BY <1>t, <1>p, <2>1, <2>2 DEF Proceed
  <2> QED
    BY <1>7, <1>t, <2>3 DEF CheckEmail, TypeOK
<1>8. ASSUME NEW w \in Workers, UpdatePwd(w) PROVE TypeOK'
  <2>1. req[w] \in Requests /\ req[w].op = "reset_pwd"
    BY <1>8, <1>t DEF UpdatePwd, Story, Fits, NoRequest
  <2>2. req[w].user \in Names /\ req[w].passwd \in Pwds
    BY <2>1, RequestFields
  <2>3. users' \in [Names -> Rows \cup {None}]
    <3>1. CASE SetPwd(w)
      <4>1. (IF users[req[w].user] = None THEN None
             ELSE [users[req[w].user] EXCEPT !.pwd = req[w].passwd]) \in Rows \cup {None}
        <5>1. users[req[w].user] \in Rows \cup {None} /\ req[w].passwd \in Pwds
          BY <1>t, <2>2
        <5> QED
          BY <5>1 DEF Rows
      <4>2. users' = [users EXCEPT ![req[w].user] =
                        IF users[req[w].user] = None THEN None
                        ELSE [users[req[w].user] EXCEPT !.pwd = req[w].passwd]]
        BY <3>1 DEF SetPwd
      <4> QED
        BY <1>t, <4>1, <4>2
    <3>2. SetPwd(w) \/ UNCHANGED users
      BY <1>8 DEF UpdatePwd
    <3> QED
      BY <1>t, <3>1, <3>2
  <2>4. PICK error \in {Success, "PasswdUpFailed"} : Respond(w, error)
    BY <1>8 DEF UpdatePwd
  <2>5. error \in Errors
    BY <2>4 DEF Errors
  <2> QED
    BY <1>8, <1>t, <1>p, <2>3, <2>4, <2>5, Observing DEF UpdatePwd, TypeOK
<1>9. ASSUME NEW w \in Workers, CheckPwd(w) PROVE TypeOK'
  <2>1. Respond(w, "PasswdInvalid") \/ Proceed(w, "GetChatServer")
    BY <1>9 DEF CheckPwd
  <2>2. "PasswdInvalid" \in Errors
    BY DEF Errors
  <2>3. resp' \in [Workers -> Seq(Errors)] /\ pc' \in [Workers -> {"idle", "done",
          "GetVerifyCode", "Get", "RegUser", "CheckEmail", "UpdatePwd", "CheckPwd", "GetChatServer"}]
    BY <1>t, <1>p, <2>1, <2>2 DEF Proceed
  <2> QED
    BY <1>9, <1>t, <2>3 DEF CheckPwd, TypeOK
<1>10. ASSUME NEW w \in Workers, GetChatServer(w) PROVE TypeOK'
  <2>1. PICK error \in {Success, "RPCFailed"} : Respond(w, error)
    BY <1>10 DEF GetChatServer
  <2>2. error \in Errors
    BY <2>1 DEF Errors
  <2> QED
    BY <1>10, <1>t, <1>p, <2>1, <2>2 DEF GetChatServer, TypeOK
<1>11. ASSUME NEW e \in Emails, Expire(e) PROVE TypeOK'
  <2>1. verify' \in [Emails -> Codes \cup {None}]
    BY <1>11, <1>t DEF Expire
  <2> QED
    BY <1>11, <1>t, <2>1, Observing DEF Expire, TypeOK
<1>12. CASE UNCHANGED vars
  BY <1>12 DEF vars, TypeOK
<1> QED
  BY <1>1, <1>2, <1>3, <1>4, <1>5, <1>6, <1>7, <1>8, <1>9, <1>10, <1>11, <1>12, NextCases
     DEF WorkerStep

(* What a step of one worker leaves of another's request, and adds to what *)
(* that one has seen.                                                      *)
LEMMA OthersUntouched ==
    ASSUME TypeOK, TypeOK', Story, NEW w \in Workers, WorkerStep(w), NEW u \in Workers, u # w
    PROVE  /\ pc'[u] = pc[u] /\ req'[u] = req[u] /\ resp'[u] = resp[u]
           /\ made'[u] = made[u] /\ free'[u] = free[u]
           /\ seen[u] \subseteq seen'[u]
           /\ pc[u] \notin {"idle", "done"} => Watched(req[u], verify', users') \in seen'[u]
<1>t. /\ pc[u] \notin {"idle", "done"} => Watched(req[u], verify, users) \in seen[u]
      /\ verify' \in [Emails -> Codes \cup {None}]
      /\ users' \in [Names -> Rows \cup {None}]
  BY DEF Story, Judged, TypeOK
<1>1. pc'[u] = pc[u] /\ resp'[u] = resp[u]
  <2>1. CASE \E error : Respond(w, error)
    BY <2>1 DEF Respond, TypeOK
  <2>2. CASE \E call : Proceed(w, call)
    BY <2>2 DEF Proceed, TypeOK
  <2>3. CASE Receive(w) \/ Finish(w)
    BY <2>3 DEF Receive, Finish, TypeOK
  <2>4. \/ \E error : Respond(w, error)
        \/ \E call : Proceed(w, call)
        \/ Receive(w) \/ Finish(w)
    BY DEF WorkerStep, ReceiveBadJson, GetVerifyCode, CheckCode, RegUser, CheckEmail,
           UpdatePwd, CheckPwd, GetChatServer
  <2> QED
    BY <2>1, <2>2, <2>3, <2>4
<1>2. req'[u] = req[u] /\ made'[u] = made[u] /\ free'[u] = free[u]
  BY DEF WorkerStep, Receive, ReceiveBadJson, Finish, GetVerifyCode, CheckCode, RegUser,
         Insert, CheckEmail, UpdatePwd, CheckPwd, GetChatServer, TypeOK
<1>3. \/ Observe
      \/ UNCHANGED <<verify, users>> /\ seen'[u] = seen[u]
  BY DEF WorkerStep, Receive, ReceiveBadJson, Finish, GetVerifyCode, CheckCode, RegUser,
         CheckEmail, UpdatePwd, CheckPwd, GetChatServer, TypeOK
<1>4. CASE Observe
  BY <1>1, <1>2, <1>4, <1>t, Observing
<1>5. CASE UNCHANGED <<verify, users>> /\ seen'[u] = seen[u]
  BY <1>1, <1>2, <1>5, <1>t DEF Watched
<1> QED
  BY <1>3, <1>4, <1>5

(* The step of a worker, for its own request. *)
LEMMA OwnStep ==
    ASSUME TypeOK, TypeOK', Story, NEW w \in Workers, WorkerStep(w)
    PROVE  Fits(w)' /\ Judged(w)' /\ Answered(w)'
<1>t. /\ Fits(w) /\ Judged(w)
      /\ pc \in [Workers -> {"idle", "done", "GetVerifyCode", "Get", "RegUser",
                             "CheckEmail", "UpdatePwd", "CheckPwd", "GetChatServer"}]
      /\ verify' \in [Emails -> Codes \cup {None}]
      /\ users' \in [Names -> Rows \cup {None}]
  BY DEF Story, TypeOK
<1>d. ASSUME NEW error \in Errors, Respond(w, error), req'[w] = req[w],
             error = Success =>
                /\ req[w].op \in {"user_register", "reset_pwd"} => req[w].verifycode \in seen'[w]
                /\ req[w].op = "user_login" => req[w].passwd \in seen'[w]
      PROVE  Fits(w)' /\ Judged(w)' /\ Answered(w)'
  <2>1. pc'[w] = "done" /\ (Succeeded(w)' => error = Success)
    BY <1>d, Responding
  <2> QED
    BY <1>d, <2>1 DEF Fits, Judged, Answered, Asks
<1>1. CASE Receive(w)
  <2>1. PICK r \in Requests : /\ req'[w] = r
                              /\ pc'[w] = FirstCall[r.op]
                              /\ seen'[w] = {Watched(r, verify, users)}
    BY <1>1 DEF Receive, TypeOK
  <2>2. /\ r.op = "get_verifycode" => pc'[w] = "GetVerifyCode"
        /\ r.op \in {"user_register", "reset_pwd"} => pc'[w] = "Get"
        /\ r.op = "user_login" => pc'[w] = "CheckPwd"
        /\ r.op \in {"get_verifycode", "user_register", "reset_pwd", "user_login"}
    BY <2>1, RequestFields DEF FirstCall
  <2>3. Watched(req'[w], verify', users') \in seen'[w]
    BY <1>1, <2>1 DEF Receive, Watched
  <2>4. Fits(w)' /\ Answered(w)'
    BY <2>1, <2>2 DEF Fits, Answered, Succeeded
  <2>5. Judged(w)'
    BY <2>2, <2>3 DEF Judged
  <2> QED
    BY <2>4, <2>5
<1>2. CASE ReceiveBadJson(w)
  <2>1. "Error_Json" \in Errors /\ "Error_Json" # Success
    BY DEF Errors, Success
  <2> QED
    BY <1>2, <1>d, <2>1 DEF ReceiveBadJson
<1>3. CASE Finish(w)
  <2>1. pc'[w] = "idle"
    BY <1>3, <1>t DEF Finish
  <2> QED
    BY <2>1 DEF Fits, Judged, Answered, Succeeded
<1>4. CASE GetVerifyCode(w)
  <2>1. PICK error \in {Success, "RPCFailed"} : Respond(w, error)
    BY <1>4 DEF GetVerifyCode
  <2>2. error \in Errors /\ req'[w] = req[w] /\ req[w].op = "get_verifycode"
    BY <1>4, <1>t, <2>1 DEF GetVerifyCode, Errors, Fits
  <2> QED
    BY <1>d, <2>1, <2>2
<1>5. CASE CheckCode(w)
  <2>1. UNCHANGED <<verify, users, req, seen>> /\ pc[w] = "Get"
    BY <1>5 DEF CheckCode
  <2>2. CASE \E error \in {"VerifyExpired", "VerifyCodeErr"} : Respond(w, error)
    <3>1. /\ "VerifyExpired" \in Errors /\ "VerifyExpired" # Success
          /\ "VerifyCodeErr" \in Errors /\ "VerifyCodeErr" # Success
      BY DEF Errors, Success
    <3> QED
      BY <1>d, <2>1, <2>2, <3>1
  <2>3. CASE /\ CodeAccepted(w)
             /\ Proceed(w, IF req[w].op = "user_register" THEN "RegUser" ELSE "CheckEmail")
    <3>1. pc'[w] = IF req[w].op = "user_register" THEN "RegUser" ELSE "CheckEmail"
      BY <1>t, <2>3 DEF Proceed
    <3>2. req[w].op \in {"user_register", "reset_pwd"}
      BY <1>t, <2>1 DEF Fits
    <3>3. Watched(req[w], verify, users) \in seen[w]
      BY <1>t, <2>1 DEF Judged
    <3>4. req[w].verifycode \in seen[w]
      BY <2>3, <3>2, <3>3 DEF Watched, CodeAccepted
    <3>5. Fits(w)' /\ Answered(w)'
      BY <2>1, <3>1, <3>2 DEF Fits, Answered, Succeeded
    <3>6. Judged(w)'
      BY <2>1, <3>1, <3>3, <3>4 DEF Judged, Watched
    <3> QED
      BY <3>5, <3>6
  <2> QED
    BY <1>5, <2>2, <2>3 DEF CheckCode
<1>6. CASE RegUser(w)
  <2>1. PICK error \in {Success, "UserExist"} : Respond(w, error)
    BY <1>6 DEF RegUser
  <2>2. error \in Errors /\ req'[w] = req[w] /\ req[w].op = "user_register"
    BY <1>6, <1>t, <2>1 DEF RegUser, Errors, Fits
  <2>3. req[w].verifycode \in seen'[w]
    BY <1>6, <1>t, Observing DEF RegUser, Judged
  <2> QED
    BY <1>d, <2>1, <2>2, <2>3
<1>7. CASE CheckEmail(w)
  <2>1. UNCHANGED <<verify, users, req, seen>> /\ pc[w] = "CheckEmail"
    BY <1>7 DEF CheckEmail
  <2>2. CASE Respond(w, "EmailNotMatch")
    <3>1. "EmailNotMatch" \in Errors /\ "EmailNotMatch" # Success
      BY DEF Errors, Success
    <3> QED
      BY <1>d, <2>1, <2>2, <3>1
  <2>3. CASE Proceed(w, "UpdatePwd")
    <3>1. pc'[w] = "UpdatePwd"
      BY <1>t, <2>3 DEF Proceed
    <3>2. Fits(w)' /\ Answered(w)'
      BY <1>t, <2>1, <3>1 DEF Fits, Answered, Succeeded
    <3>3. Judged(w)'
      BY <1>t, <2>1, <3>1 DEF Judged, Watched
    <3> QED
      BY <3>2, <3>3
  <2> QED
    BY <1>7, <2>2, <2>3 DEF CheckEmail
<1>8. CASE UpdatePwd(w)
  <2>1. PICK error \in {Success, "PasswdUpFailed"} : Respond(w, error)
    BY <1>8 DEF UpdatePwd
  <2>2. error \in Errors /\ req'[w] = req[w] /\ req[w].op = "reset_pwd"
    BY <1>8, <1>t, <2>1 DEF UpdatePwd, Errors, Fits
  <2>3. req[w].verifycode \in seen'[w]
    BY <1>8, <1>t, Observing DEF UpdatePwd, Judged
  <2> QED
    BY <1>d, <2>1, <2>2, <2>3
<1>9. CASE CheckPwd(w)
  <2>1. /\ UNCHANGED <<verify, users, req, seen>> /\ pc[w] = "CheckPwd"
        /\ req[w].op = "user_login"
    BY <1>9, <1>t DEF CheckPwd, Fits
  <2>2. CASE Respond(w, "PasswdInvalid")
    <3>1. "PasswdInvalid" \in Errors /\ "PasswdInvalid" # Success
      BY DEF Errors, Success
    <3> QED
      BY <1>d, <2>1, <2>2, <3>1
  <2>3. CASE PwdMatches(w) /\ Proceed(w, "GetChatServer")
    <3>1. pc'[w] = "GetChatServer"
      BY <1>t, <2>3 DEF Proceed
    <3>2. Watched(req[w], verify, users) \in seen[w]
      BY <1>t, <2>1 DEF Judged
    <3>3. req[w].passwd \in seen[w]
      BY <2>1, <2>3, <3>2 DEF Watched, PwdMatches
    <3>4. Fits(w)' /\ Answered(w)'
      BY <2>1, <3>1 DEF Fits, Answered, Succeeded
    <3>5. Judged(w)'
      BY <2>1, <3>1, <3>2, <3>3 DEF Judged, Watched
    <3> QED
      BY <3>4, <3>5
  <2> QED
    BY <1>9, <2>2, <2>3 DEF CheckPwd
<1>10. CASE GetChatServer(w)
  <2>1. PICK error \in {Success, "RPCFailed"} : Respond(w, error)
    BY <1>10 DEF GetChatServer
  <2>2. error \in Errors /\ req'[w] = req[w] /\ req[w].op = "user_login"
    BY <1>10, <1>t, <2>1 DEF GetChatServer, Errors, Fits
  <2>3. req[w].passwd \in seen'[w]
    BY <1>10, <1>t DEF GetChatServer, Judged
  <2> QED
    BY <1>d, <2>1, <2>2, <2>3
<1> QED
  BY <1>1, <1>2, <1>3, <1>4, <1>5, <1>6, <1>7, <1>8, <1>9, <1>10 DEF WorkerStep

LEMMA StoryStep == TypeOK /\ Story /\ [Next]_vars => Story'
<1> SUFFICES ASSUME TypeOK, Story, [Next]_vars PROVE Story'
  OBVIOUS
<1>t. TypeOK'
  BY TypeStep
<1>s. \A u \in Workers : Fits(u) /\ Judged(u) /\ Answered(u)
  BY DEF Story
<1>1. ASSUME NEW w \in Workers, WorkerStep(w), NEW u \in Workers
      PROVE  Fits(u)' /\ Judged(u)' /\ Answered(u)'
  <2>1. CASE u = w
    BY <1>1, <1>t, <2>1, OwnStep
  <2>2. CASE u # w
    BY <1>1, <1>t, <1>s, <2>2, OthersUntouched, Bystander
  <2> QED
    BY <2>1, <2>2
<1>2. ASSUME NEW e \in Emails, Expire(e), NEW u \in Workers
      PROVE  Fits(u)' /\ Judged(u)' /\ Answered(u)'
  <2>1. /\ UNCHANGED <<req, pc, resp>> /\ Observe
        /\ verify' \in [Emails -> Codes \cup {None}]
        /\ users' \in [Names -> Rows \cup {None}]
    BY <1>2, <1>t DEF Expire, TypeOK
  <2> QED
    BY <1>s, <2>1, Observing, Bystander
<1>3. ASSUME UNCHANGED vars, NEW u \in Workers PROVE Fits(u)' /\ Judged(u)' /\ Answered(u)'
  BY <1>3, <1>s DEF vars, Fits, Judged, Answered, Succeeded, Asks, Watched
<1> QED
  BY <1>1, <1>2, <1>3, NextCases DEF Story

-----------------------------------------------------------------------------
(* Who writes the table: a registration adds a row under a free name, a    *)
(* reset sets the password of the row of its name, if there is one.        *)
LEMMA TableWrites ==
    ASSUME TypeOK, Story, [Next]_vars, NEW n \in Names, users[n] # None, users'[n] # users[n]
    PROVE  \E w \in Workers :
              /\ pc[w] = "UpdatePwd"
              /\ req[w].user = n
              /\ req[w].verifycode \in seen[w]
              /\ users'[n] = [users[n] EXCEPT !.pwd = req[w].passwd]
<1>1. ASSUME NEW w \in Workers, RegUser(w) PROVE FALSE
  BY <1>1 DEF RegUser, Insert, Taken, TypeOK
<1>2. ASSUME NEW w \in Workers, UpdatePwd(w)
      PROVE  /\ pc[w] = "UpdatePwd" /\ req[w].user = n /\ req[w].verifycode \in seen[w]
             /\ users'[n] = [users[n] EXCEPT !.pwd = req[w].passwd]
  <2>1. SetPwd(w) /\ pc[w] = "UpdatePwd"
    BY <1>2 DEF UpdatePwd
  <2>2. req[w].user = n /\ users'[n] = [users[n] EXCEPT !.pwd = req[w].passwd]
    BY <2>1 DEF SetPwd, TypeOK
  <2> QED
    BY <2>1, <2>2 DEF Story, Judged
<1>3. ASSUME NEW w \in Workers, WorkerStep(w), ~RegUser(w), ~UpdatePwd(w) PROVE FALSE
  BY <1>3 DEF WorkerStep, Receive, ReceiveBadJson, Finish, GetVerifyCode, CheckCode,
              CheckEmail, CheckPwd, GetChatServer
<1>4. ASSUME NEW e \in Emails, Expire(e) PROVE FALSE
  BY <1>4 DEF Expire
<1>5. CASE UNCHANGED vars
  BY <1>5 DEF vars
<1> QED
  BY <1>1, <1>2, <1>3, <1>4, <1>5, NextCases

LEMMA RowsKept ==
    ASSUME TypeOK, Story, [Next]_vars, NEW n \in Names, users[n] # None
    PROVE  users'[n] # None /\ users'[n].email = users[n].email
<1>1. users[n] \in Rows
  BY DEF TypeOK
<1>2. CASE users'[n] # users[n]
  <2>1. PICK w \in Workers : /\ pc[w] = "UpdatePwd"
                             /\ users'[n] = [users[n] EXCEPT !.pwd = req[w].passwd]
    BY <1>2, TableWrites
  <2>2. req[w] \in Requests /\ req[w].op = "reset_pwd"
    BY <2>1 DEF Story, Fits, TypeOK, NoRequest
  <2>3. req[w].passwd \in Pwds
    BY <2>2, RequestFields
  <2>4. users'[n] \in Rows /\ users'[n].email = users[n].email
    BY <1>1, <2>1, <2>3 DEF Rows
  <2> QED
    BY <2>4, NoneIsNothing DEF Rows
<1>3. CASE users'[n] = users[n]
  BY <1>3
<1> QED
  BY <1>2, <1>3

LEMMA StoredStep == Inv /\ [Next]_vars => RegisteredIsStored'
<1> SUFFICES ASSUME Inv, [Next]_vars,
                    NEW v \in Workers, Succeeded(v)', Asks(v, {"user_register"})'
             PROVE  /\ made'[v]
                    /\ users'[req'[v].user] # None
                    /\ users'[req'[v].user].email = req'[v].email
  BY DEF RegisteredIsStored
<1>t. TypeOK /\ Story /\ RegisteredIsStored /\ TypeOK' /\ req'[v].op = "user_register"
  BY TypeStep DEF Inv, Asks
<1>q. ASSUME pc'[v] = pc[v], req'[v] = req[v], resp'[v] = resp[v], made'[v] = made[v]
      PROVE  /\ made'[v]
             /\ users'[req'[v].user] # None
             /\ users'[req'[v].user].email = req'[v].email
  <2>1. Succeeded(v) /\ Asks(v, {"user_register"})
    BY <1>q, <1>t DEF Succeeded, Asks
  <2>2. made[v] /\ users[req[v].user] # None /\ users[req[v].user].email = req[v].email
    BY <1>t, <2>1 DEF RegisteredIsStored
  <2>3. req[v] \in Requests
    BY <1>q, <1>t DEF TypeOK, NoRequest
  <2>4. req[v].user \in Names
    BY <1>q, <1>t, <2>3, RequestFields
  <2> QED
    BY <1>q, <1>t, <2>2, <2>4, RowsKept
<1>1. ASSUME NEW w \in Workers, WorkerStep(w), w # v
      PROVE  /\ made'[v]
             /\ users'[req'[v].user] # None
             /\ users'[req'[v].user].email = req'[v].email
  BY <1>1, <1>q, <1>t, OthersUntouched
<1>2. CASE RegUser(v)
  <2>1. PICK error \in {Success, "UserExist"} : Respond(v, error)
    BY <1>2 DEF RegUser
  <2>2. error \in Errors /\ "UserExist" # Success
    BY <2>1 DEF Errors, Success
  <2>3. ~Respond(v, "UserExist")
    <3>1. "UserExist" \in Errors
      BY DEF Errors
    <3> QED
      BY <1>t, <2>2, <3>1, Responding
  <2>4. Insert(v) /\ req'[v] = req[v]
    BY <1>2, <2>3 DEF RegUser
  <2>5. req[v] \in Requests
    BY <1>t, <2>4 DEF TypeOK, NoRequest
  <2>6. req[v].user \in Names /\ req[v].email \in Emails /\ req[v].passwd \in Pwds
    BY <1>t, <2>4, <2>5, RequestFields
  <2>7. /\ made'[v]
        /\ users'[req[v].user] = [email |-> req[v].email, pwd |-> req[v].passwd]
    BY <1>t, <2>4, <2>6 DEF Insert, TypeOK
  <2>8. users'[req[v].user] # None
    BY <2>6, <2>7, NoneIsNothing
  <2> QED
    BY <2>4, <2>7, <2>8
<1>3. ASSUME Receive(v) \/ Finish(v) PROVE FALSE
  <2>1. CASE Finish(v)
    BY <1>t, <2>1 DEF Finish, Succeeded, TypeOK
  <2>2. CASE Receive(v)
    <3>1. PICK r \in Requests : pc'[v] = FirstCall[r.op]
      BY <1>t, <2>2 DEF Receive, TypeOK
    <3> QED
      BY <3>1, RequestFields DEF FirstCall, Succeeded
  <2> QED
    BY <1>3, <2>1, <2>2
<1>4. ASSUME ReceiveBadJson(v) \/ CheckCode(v) \/ CheckEmail(v) \/ CheckPwd(v) PROVE FALSE
  <2>1. \/ \E error \in {"Error_Json", "VerifyExpired", "VerifyCodeErr", "EmailNotMatch",
                         "PasswdInvalid"} : Respond(v, error)
        \/ \E call \in {"RegUser", "CheckEmail", "UpdatePwd", "GetChatServer"} : Proceed(v, call)
    BY <1>4 DEF ReceiveBadJson, CheckCode, CheckEmail, CheckPwd
  <2>2. CASE \E call \in {"RegUser", "CheckEmail", "UpdatePwd", "GetChatServer"} :
                Proceed(v, call)
    BY <1>t, <2>2 DEF Proceed, Succeeded, TypeOK
  <2>3. CASE \E error \in {"Error_Json", "VerifyExpired", "VerifyCodeErr", "EmailNotMatch",
                           "PasswdInvalid"} : Respond(v, error)
    <3>1. PICK error \in {"Error_Json", "VerifyExpired", "VerifyCodeErr", "EmailNotMatch",
                          "PasswdInvalid"} : Respond(v, error)
      BY <2>3
    <3>2. error \in Errors /\ error # Success
      BY <3>1 DEF Errors, Success
    <3> QED
      BY <1>t, <3>1, <3>2, Responding
  <2> QED
    BY <2>1, <2>2, <2>3
<1>5. ASSUME GetVerifyCode(v) \/ UpdatePwd(v) \/ GetChatServer(v) PROVE FALSE
  BY <1>5, <1>t DEF GetVerifyCode, UpdatePwd, GetChatServer, Story, Fits
<1>6. ASSUME NEW e \in Emails, Expire(e)
      PROVE  /\ made'[v]
             /\ users'[req'[v].user] # None
             /\ users'[req'[v].user].email = req'[v].email
  BY <1>6, <1>q DEF Expire
<1>7. CASE UNCHANGED vars
  BY <1>7, <1>q DEF vars
<1> QED
  BY <1>1, <1>2, <1>3, <1>4, <1>5, <1>6, <1>7, NextCases DEF WorkerStep

(* The row of a reset's name can appear while the reset is served, and is  *)
(* then neither removed nor moved to another email.                        *)
LEMMA ComparedStep ==
    ASSUME Inv, [Next]_vars, NEW v \in Workers
    PROVE  Compared(v)'
<1>t. TypeOK /\ Story /\ TypeOK' /\ Story' /\ Compared(v)
  BY TypeStep, StoryStep DEF Inv
<1>r. pc[v] \in {"Get", "CheckEmail", "UpdatePwd"} =>
         /\ req[v] \in Requests
         /\ req[v].op \in {"user_register", "reset_pwd"} /\ req[v].user \in Names
  <2>1. pc[v] \in {"Get", "CheckEmail", "UpdatePwd"} =>
           /\ req[v].op \in {"user_register", "reset_pwd"}
           /\ req[v] \in Requests
    BY <1>t DEF Story, Fits, TypeOK, NoRequest
  <2> QED
    BY <2>1, RequestFields
<1>q. ASSUME pc'[v] = pc[v], req'[v] = req[v], free'[v] = free[v] PROVE Compared(v)'
  <2>1. pc[v] \in {"Get", "CheckEmail", "UpdatePwd"} /\ users[req[v].user] # None =>
           users'[req[v].user] # None /\ users'[req[v].user].email = users[req[v].user].email
    BY <1>t, <1>r, RowsKept
  <2> QED
    BY <1>q, <1>t, <1>r, <2>1 DEF Compared
<1>d. ASSUME pc'[v] \notin {"Get", "CheckEmail", "UpdatePwd"} PROVE Compared(v)'
  BY <1>d DEF Compared
<1>1. ASSUME NEW w \in Workers, WorkerStep(w), w # v PROVE Compared(v)'
  BY <1>1, <1>q, <1>t, OthersUntouched
<1>2. ASSUME Receive(v) PROVE Compared(v)'
  <2>1. PICK x \in Requests : /\ req'[v] = x
                              /\ pc'[v] = FirstCall[x.op]
                              /\ free'[v] = (x.op = "reset_pwd" /\ users[x.user] = None)
                              /\ users' = users
    BY <1>2, <1>t DEF Receive, TypeOK
  <2>2. pc'[v] # "UpdatePwd"
    BY <2>1, RequestFields DEF FirstCall
  <2> QED
    BY <2>1, <2>2 DEF Compared
<1>3. ASSUME CheckCode(v) PROVE Compared(v)'
  <2>1. /\ users' = users /\ req' = req /\ free' = free /\ pc[v] = "Get"
        /\ pc'[v] \in {"done", "RegUser", "CheckEmail"}
    BY <1>3, <1>t DEF CheckCode, Respond, Proceed, TypeOK
  <2> QED
    BY <1>t, <2>1 DEF Compared
<1>4. ASSUME CheckEmail(v) PROVE Compared(v)'
  <2>1. /\ users' = users /\ req' = req /\ free' = free /\ pc[v] = "CheckEmail"
        /\ \/ pc'[v] = "done"
           \/ pc'[v] = "UpdatePwd" /\ EmailValid(v)
    BY <1>4, <1>t DEF CheckEmail, Respond, Proceed, TypeOK
  <2>2. req[v].op = "reset_pwd"
    BY <1>t, <2>1 DEF Story, Fits
  <2> QED
    BY <1>t, <2>1, <2>2 DEF Compared, EmailValid
<1>5. ASSUME \/ ReceiveBadJson(v) \/ Finish(v) \/ GetVerifyCode(v) \/ RegUser(v)
             \/ UpdatePwd(v) \/ CheckPwd(v) \/ GetChatServer(v)
      PROVE  Compared(v)'
  <2>1. pc'[v] \in {"idle", "done", "GetChatServer"}
    BY <1>5, <1>t DEF ReceiveBadJson, Finish, GetVerifyCode, RegUser, UpdatePwd, CheckPwd,
                      GetChatServer, Respond, Proceed, TypeOK
  <2> QED
    BY <1>d, <2>1
<1>6. ASSUME NEW e \in Emails, Expire(e) PROVE Compared(v)'
  BY <1>6, <1>q DEF Expire
<1>7. CASE UNCHANGED vars
  BY <1>7, <1>q DEF vars
<1> QED
  BY <1>1, <1>2, <1>3, <1>4, <1>5, <1>6, <1>7, NextCases DEF WorkerStep

LEMMA InvStep == Inv /\ [Next]_vars => Inv'
  BY TypeStep, StoryStep, StoredStep, ComparedStep DEF Inv

-----------------------------------------------------------------------------
(* Every call of every handler keeps the types of the state.               *)
THEOREM TypeCorrect == Spec => []TypeOK
<1>1. Inv => TypeOK
  BY DEF Inv
<1> QED
  BY <1>1, InvInit, InvStep, PTL DEF Spec

(* A registration or reset that succeeds carried a code that Redis held    *)
(* for its email while it was served.                                      *)
THEOREM CodesJudged == Spec => []CodeHeldMeanwhile
<1>1. Inv => CodeHeldMeanwhile
  BY DEF Inv, Story, Answered, CodeHeldMeanwhile
<1> QED
  BY <1>1, InvInit, InvStep, PTL DEF Spec

(* A login that succeeds carried a password that the account had while it  *)
(* was served.                                                             *)
THEOREM PasswordsJudged == Spec => []PwdHeldMeanwhile
<1>1. Inv => PwdHeldMeanwhile
  BY DEF Inv, Story, Answered, PwdHeldMeanwhile
<1> QED
  BY <1>1, InvInit, InvStep, PTL DEF Spec

(* A registration answered Success has inserted its row, and the row is    *)
(* still there under its email.                                            *)
THEOREM RegistrationsStored == Spec => []RegisteredIsStored
<1>1. Inv => RegisteredIsStored
  BY DEF Inv
<1> QED
  BY <1>1, InvInit, InvStep, PTL DEF Spec

(* A stored row changes only by a reset for its name whose code was        *)
(* accepted, and only in its password; the reset carries the row's email   *)
(* unless the row was registered after the reset had arrived.              *)
THEOREM RowsChangeByReset == Spec => OnlyResetsChangeRows
<1> DEFINE By(w, n) == /\ pc[w] = "UpdatePwd"
                       /\ req[w].user = n
                       /\ req[w].verifycode \in seen[w]
                       /\ req[w].email # users[n].email => free[w]
                       /\ users'[n] = [users[n] EXCEPT !.pwd = req[w].passwd]
           P == \A n \in Names : users[n] # None /\ users'[n] # users[n] =>
                   \E w \in Workers : By(w, n)
<1>1. Inv /\ [Next]_vars => [P]_vars
  <2>1. SUFFICES ASSUME Inv, [Next]_vars, NEW n \in Names,
                        users[n] # None, users'[n] # users[n]
                 PROVE  \E w \in Workers : By(w, n)
    OBVIOUS
  <2>2. PICK w \in Workers : /\ pc[w] = "UpdatePwd"
                             /\ req[w].user = n
                             /\ req[w].verifycode \in seen[w]
                             /\ users'[n] = [users[n] EXCEPT !.pwd = req[w].passwd]
    BY <2>1, TableWrites DEF Inv
  <2>3. req[w].email # users[n].email => free[w]
    BY <2>1, <2>2 DEF Inv, Compared
  <2> QED
    BY <2>2, <2>3
<1> QED
  BY <1>1, InvInit, InvStep, PTL DEF Spec, OnlyResetsChangeRows
=============================================================================
