# A TLA+ model of QuickChat

QuickChat is a chat back end of four processes: **GateServer** (HTTP, accounts),
**VerifyServer** (verification codes, Python), **StatusServer** (gRPC, assigns chat
servers and tokens) and **ChatServer** (TCP sessions). They share a small C++ library
(`servers/common`): connection pools for gRPC, Redis and MySQL, an io_context pool,
configuration and singletons.

This directory holds TLA+ modules for the parts that keep state and run
concurrently, TLC configurations that check them on small instances, and
TLAPS proofs for every value of the constants. File names below are relative to
`src/servers/`.

## 1. Inventory

| component | state | operations | talks to | hard because of |
|---|---|---|---|---|
| gRPC stub pool `RPConPool` and the clients `StatusGrpcClient`, `VerifyGrpcClient` | queue of stubs, `b_stop_`, condition variable | `getConnection`, `returnConnection`, destructor; one client method each | called by Gate's IO threads | wakeups, every error path must return the stub, destruction under running threads |
| Redis pool and `RedisMgr` | queue of connections, `b_stop_`, check thread, `counter_` | 12 commands, `checkThread`, `Close` | called by Gate and Status handlers | commands never return connections, `Close` without the mutex, join, shutdown order |
| MySQL pool and `MysqlDao` | queue of connections, `b_stop_`, detached check thread | `RegUser`, `CheckEmail`, `UpdatePwd`, `CheckPwd`, `checkConnection`, `Close` | called by Gate handlers | outages, lost connections, predicate false on a stopped pool |
| Gate handlers `GateServer/src/LogicSystem.cpp` | none of their own; codes in Redis, rows in MySQL | get_verifycode, user_register, reset_pwd, user_login | VerifyServer, Redis, MySQL, StatusServer | several calls per request, each can fail, other requests in between |
| Chat `LogicSystem` | message queue, `b_stop_`, worker thread | `PostMsgToQue`, `DealMsg`, destructor | sessions post to it | notify only on the first message, stop without the mutex, drain |
| Chat `CSession`, `MsgNode` | read buffer, current node, send queue | read head, read body, send, write handler, close | posts to LogicSystem, clears itself at `CServer` | partial reads, signed lengths, exceptions swallowed by the handlers, one write at a time and no timeout on it, close against queued completions |
| Chat `CServer` and `main` | `sessions_`, the acceptor, the order of the process's end | accept, insert, `ClearSession`, signal handler, destructors | sessions call it by a raw pointer; stops the io_context pool | insertion after start, look-up without the mutex, destruction while handlers run, `Stop` twice |
| `UserMgr` | uid to session | set, get, remove | `CServer` removes | a removal that does not look at the session (the map is empty at this commit: nobody sets) |
| `StatusServiceImpl` | server table, tokens and login counts in Redis | `GetChatServer`, `Login` | Redis pool; called by Gate | reference used outside the lock, assignment through a reference, `Get` reporting success taken for failure |
| `HttpConnection`, Gate `CServer` | request, response, deadline | accept, read, dispatch, write, deadline | Gate handlers; io_context pool | deadline against write, object kept alive by its pending handlers only, a handler that never returns |
| `AsioIOServicePool` | io_contexts, work guards, threads, next index | `GetIOService`, `Stop` | both C++ servers | `Stop` twice, joins from a signal handler |
| `ConfigMgr`, `Singleton`, start-up code, generated code, scripts | constant after start | – | – | – |

What makes each of them correct: a pooled connection has one owner and is not lost;
nobody sleeps beside a free connection; shutting down ends; an answer `Success`
means what the handler checked really held; messages are neither lost, repeated nor
reordered. `PROJECT.json` lists the hazards one by one at their lines ("hazards"), with
the property that covers each, or why none does yet.

## 2. Modules

| module | models | checked by | proofs |
|---|---|---|---|
| `AbstractPool` | the promise common to the three pools | refinement target | |
| `AbstractChannel` | what a session promises the two sides it stands between | refinement target | |
| `RpcPool` | `common/include/RPConPool.h`, the two gRPC clients | `MCRpcPool` | `RpcPoolProofs` |
| `RedisPool` | `common/src/RedisMgr.cpp`, `StatusServer/src/main.cpp` | `MCRedisPool` (two configurations) | `RedisPoolProofs` |
| `MysqlPool` | `common/src/MysqlDao.cpp` | `MCMysqlPool` | `MysqlPoolProofs` |
| `GateAccounts` | `GateServer/src/LogicSystem.cpp`, `VerifyServer/verify_server.py`, the effect of the SQL statements | `MCGateAccounts` (three configurations) | `GateAccountsProofs` |
| `ChatLogic` | `ChatServer/src/LogicSystem.cpp` | `MCChatLogic` | `ChatLogicProofs` |
| `ChatSession` | `ChatServer/src/CSession.cpp`, `MsgNode.cpp`; one session's share of `CServer.cpp` | `MCChatSession` | `ChatProofs` |
| `ChatServer` | `ChatServer/src/CServer.cpp`, `main.cpp`, `UserMgr.cpp`, the handlers of several sessions, `common/src/AsioIOServicePool.cpp` | `MCChatServer` | `ChatProofs` |
| `StatusService` | `StatusServer/src/StatusServiceImpl.cpp` on a Redis pool that runs out | `MCStatusService` | `StatusServiceProofs` |
| `HttpConnection` | `GateServer/src/HttpConnection.cpp`, `CServer.cpp`, `GetIOService` | `MCHttpConnection` | `HttpConnectionProofs` |

How they fit together. `AbstractPool` is implemented by the three pools, `AbstractChannel` by a
session, once in each direction: from the peer to `LogicSystem` and from the callers of `Send` to
the peer. Where one
module needs a result of another, it takes the *checked* result as its interface:
`StatusService` keeps only the number of Redis connections left, by `CommandsBounded` of
`RedisPool`; `ChatServer` lets the destructor of `LogicSystem` block, by
`JoinBlocksOnlyIfMissed` of `ChatLogic`, and assigns contexts round robin, by `RoundRobin` of
`HttpConnection`; `ChatLogic` starts its destructor after the pool's threads were joined, by
`HandlersInsideServer` of `ChatServer`; `HttpConnection` treats the handlers that
`GateAccounts` models as one step that may throw or never return, which is what `RpcPool`,
`RedisPool` and `MysqlPool` show of their calls.

Conventions. Variables and actions keep the source's names. A critical section of a
mutex that everybody takes is one action. Where some code does *not* take the mutex
(`Close()` of the Redis and MySQL pools, `~LogicSystem`), `mutex_` is a variable and
`cond_.wait` is split: *call/enter* (about to lock), *block* (predicate false, mutex held,
not yet asleep), *wait* (asleep), *pass* (predicate true, mutex held). The gap
between *block* and *wait* is where an unlocked flag and notify can fall. `Take` of the Redis
and MySQL pools is one step although the unlocked `Close()` may set `b_stop_` between its second
reading of the flag and the pop: the pop touches only what `mutex_` protects, so nothing can tell
this order from the one in which the flag is set after the pop. A condition
variable may wake spuriously everywhere. Operators with a comment "Mutant of X" are
defective variants of X; they are used only to check that the properties notice
such a defect, and no specification refers to them.

**RpcPool.** `pc` is a caller's place in `GetChatServer`/`GetVerifyCode`: *idle, call, wait,
rpc, back*. Everything runs under `mutex_` here, so steps are critical sections. A closed
pool returns `nullptr`, which both clients use untested: `ReturnNull` ends the process
(`aborted`). `Rpc` may never happen: neither client sets a deadline on its `ClientContext`, and
the other servers have handlers that sleep for ever.

**RedisPool.** `host` tells whether the pool lives in GateServer (closed once, by a static
destructor, while the other IO threads still run) or StatusServer (Shutdown, Wait, `Close()`, and a
second `Close()` from `~RedisMgr`, which ends the process: join of a thread that is no
longer joinable). `GetInstance()` returns a `shared_ptr` by value (`Singleton.h:18`), so a
command in progress, a sleeping one too, keeps `RedisMgr` alive: `Drained` lets `~RedisMgr` and
its `Close()` begin only when every caller is outside. The IO threads of an exiting GateServer may
still issue commands later, with a destroyed singleton; that is undefined, and modelled as a
command that either finds the pool still in place or ends the process (`LateCommandCrashes`).
`Command` stands for all twelve commands: whatever they send and
whatever the reply, the connection is dropped. The reconnecting `catch` branch of
`checkThread` cannot be entered (hiredis does not throw) and is not modelled. The comment at
`RedisMgr.cpp:348` says 30 s; the code's period is 60 ticks of a second, the constant
`CheckPeriod`. Connections that could not be opened start as `leaked`.

**MysqlPool.** `Run` is a statement that leads to `returnConnection`, with or without an
exception; `Miss` is `CheckEmail` without a row, which loses the connection. A
constructor that throws keeps what it opened and starts no check thread (`chk = "none"`). A
reconnect that fails ends the process (`life = "terminated"`). `returnConnection` is
called while the statement objects still live; that their destructors may disturb the
connection's next user is a nondeterministic break of the returned connection. The
5-second test of `checkConnection` skips every connection in the first round and none
later (the rounds are 60 s apart and only `checkConnection` sets the time stamp).

**GateAccounts.** A handler is a sequence of calls; between two of them anything may
happen. Each call may fail before or after it took effect. `verify` is Redis, `users`
the table, `resp` the error codes written to one response body. The stored procedure
`reg_user` is not in the repository; from its use and the log text "user or email exist"
it is modelled as an insert that fails when the name or the email is taken.
`seen[w]` is a history of the values that request `w` could legitimately have been
judged by, `free[w]` whether a reset's name had no row when it arrived.

**ChatLogic.** `PostMsgToQue` is one step up to its unlock; `Notify` comes later. The
destructor runs after the IO threads were joined (`StopPosters`), as ChatServer's signal
handler does.

**ChatSession.** The stream is a sequence of bytes; heads are encoded and decoded digit by
digit in network order with `Base` values per byte. As in the code an id and a length are signed
shorts (`Signed`, `Unsigned`), and `HandleHead` tests only the upper limit: a length below -1 makes
the allocation in `RecvNode` throw, which the handler's `catch` only logs (`phase` is *swallowed*:
nothing is read any more, nothing closed or cleared); -1 becomes a `size_t` that no read reaches
(`Endless`), so the body is read over the end of `data_`. What follows such a write is undefined,
and the model ends there (`Intact`). A transfer (`TransferRead`,
`TransferWrite`) and its handler are two steps because `Close()` cancels pending
transfers but not queued completions. Posted messages are references into `nodes`, so that
a reused node would be seen. Send has no caller in the repository yet; it is modelled as an
operation any thread may call once it has got the session from a posted message.
`HandleAccept` starts the session before inserting it: `Start` and `Insert` are two steps.
Two refinements map it to `AbstractChannel`: `sent` to `Received` (what the references posted to
`LogicSystem` show now, so that a later write to a posted node would be seen), and `accepted` to
`out`.

**ChatServer.** The complement of `ChatSession`: what a session reads is abstracted to "the
handler goes on, fails, or ends in an exception that is swallowed" (`Continue`, `Fail`, `Swallow`),
what several of them do to `sessions_` is explicit. `handler[s]` is the
place of session `s`: an operation is *pending*, its completion *queued* on the session's
context, its handler *running*, or in one of the three parts of `ClearSession` (*find*,
*remove*, *erase*). The look-up has no lock: a session whose look-up overlaps a change of
the map is in `raced`, and may then find or miss its session, or crash. `main` goes from *run*
through *signal, join* (the pool's `Stop()` in the signal handler) and *unwound* (`CServer`
destroyed) to *rejoin* (`Stop()` in the pool's destructor). `Stop()` uses the work guards it
resets, so the second call is undefined; the model ends the process there (`crashed`). A
taken port makes `CServer`'s constructor throw: `main` starts *unwound*. `RmvUserSession` is a
step that changes nothing, since no caller of `SetUserSession` or `SetUserId` exists.

**StatusService.** `minServer` in `getChatServer` is a reference to the table's first row, so
`minServer = server.second` overwrites that row. The copy is two steps (`NextCount` its host,
`CopyRow` port and name), because `GetChatServer` reads host and port through the returned
reference after the guard is gone. `HGet` answers the field, or "" for an absent field and for
an error alike; both become `INT_MAX` (`MaxCount + 1`). `scan`, `dirty`, `issued` and `answers`
record what was read, which readers were overtaken, and how much was answered. Each command
uses up one of `PoolSize` connections; a handler that finds none stays where it is for ever.
`Login` treats a token that is found as an error, and compares the empty string with the
client's when none is found. Not modelled: an error *reply* of Redis makes `HGet` return its text,
on which `std::stoi` throws; a torn `std::string` (a read in the middle of a member's copy is
undefined; the model interleaves whole members).

**HttpConnection.** A connection is one record: what it does with its request (`phase`), its
pending write (`wr`), its wait for `deadline_` (`tm`), whether 60 s have passed (`due`) and
whether the socket is open. The object goes when no handler refers to it any more (`Left`). The
deadline runs from the *accept* (the timer is a member set in the constructor) but is awaited
only after `HandleReq`. `Conns` bounds the connections that exist at once; records are reused.

## 3. Runs

| run | instance | result |
|---|---|---|
| `rpc_pool` | 4 callers, 2 stubs | holds (1 343 states) |
| `redis_pool` | 3 callers, 0–2 connections, check every 2nd tick | holds (34 028) |
| `redis_shutdown` | 3 callers, 2 connections | **violated**: `GracefulShutdown` |
| `mysql_pool` | 3 callers, 0–2 connections, 1 outage | holds (99 507) |
| `gate_accounts` | 2 IO threads, 1 name, 2 emails, 2 passwords, 2 codes | holds (783 288 up to symmetry) |
| `gate_reset` | same | **violated**: `ResetNeedsAccountEmail` |
| `gate_passwd` | same | **violated**: `PasswdErrRegistersNobody` |
| `chat_logic` | 2 IO threads, 3 messages each | holds (7 616) |
| `chat_session` | 2 frames of 6 kinds, 4 sends, `MAX_SENDQUE` 1 | holds (88 971) |
| `status_service` | 3 servers, 2 handlers, counts 0–1 and absent, 7 connections | holds (491 832) |
| `http_connection` | 3 connections at once, 2 contexts | holds (24 210) |
| `chat_server` | 3 sessions, 2 contexts | holds (777 537) |

What they show:

* `rpc_pool`. `StubOwnership`: a stub is in one place and none is lost while the pool is
  open. `NoLostWakeup`: while somebody sleeps, as many threads are on their way as stubs
  are queued. `CallsReturn`: once no new call arrives, calls return if no RPC hangs (`RpcsEnd`).
  Without the first condition they need not, since a newcomer may overtake a woken waiter for ever;
  the second is a hypothesis on the other servers, which no deadline of the clients replaces.
* `redis_pool`. `CommandsBounded`: a process executes at most `PoolSize` commands, ever.
  `ConnOwnership`: the checker never holds a connection a command holds.
  `SleepersMissedNotify`: after `Close()` only those caught between predicate and sleep
  can be asleep; only GateServer's late commands can be. `CloseReturns`: an exiting GateServer
  gets to `Close()` and through its join if Redis answers, no new command arrives and no command
  sleeps on the used-up pool for ever. The last condition is the interesting one: by
  `CommandsBounded` a sleeper is the normal end of this pool, and it keeps `RedisMgr` alive, so that
  the `Close()` which would wake it never runs.
* `redis_shutdown`. A handler asleep on the exhausted pool keeps `Shutdown()` waiting; the
  `Close()` that would wake it comes later in `main`. Threads run, `mutex_` starves nobody and
  Redis answers in the counterexample.
* `mysql_pool`. `ConnAccounting`: lost connections are exactly those that never opened
  plus one per `Miss`. `StoppedCallersStay`: no caller gets out of `getConnection` of a
  stopped pool, `notify_all` or not. `StatementsReturn`, `ConnectionsHeal`: progress and
  recovery after an outage.
* `gate_accounts`. `CodeHeldMeanwhile`, `PwdHeldMeanwhile`: a `Success` rests on a code or a
  password that was current at some moment of the request. `RegisteredIsStored`: a
  registration answered `Success` has its row. `OnlyResetsChangeRows`: rows keep their email
  and change only by an accepted reset of that name, which carries that email unless the name was
  registered after the reset had arrived (what `gate_reset` shows is the only way).
* `gate_reset`. `CheckEmail` passes a name without a row; a registration of the name before
  `UpdatePwd` gives it one, with another email.
* `gate_passwd`. The `PasswdErr` branch of user_register does not return.
* `chat_logic`. Order, no lost wakeup, nothing left at exit. The destructor can block in
  `join` (its flag and notify may fall into the worker's window); `JoinBlocksOnlyIfMissed`
  and `DtorReturns` say that this is the only way.
* `chat_session`. `Reassembly`: posted messages are and stay the first frames sent, for every way
  to cut the stream, and only a length of -1 outgrows `data_`. `SendOrder`: one write at a time,
  in order, from a live buffer, at most `MAX_SENDQUE + 1` queued (the test is made before
  queueing and with `>`, so one more than the log line "send que fulled, size is" names).
  `StoppedIsCleared`: a stopped session leaves `sessions_` unless it was cleared before it was
  inserted, and reading ends without a clearing only for a length below -1. `ImplementsChannels`:
  in both directions the session is an `AbstractChannel`: whole, in order, once, and never taken
  back. `FramesArrive`, `SendsFlushed`: what was sent is posted unless the session stops or a
  negative length came first, what was accepted is written if the peer reads (`PeerReads`),
  unless the socket is closed. (`socket_` stays open after a length that is too long:
  `HandleHead` clears the session without `Close()`.)
* `status_service`. `ScanChoosesMin`: although the table's first row is overwritten on the way
  and other calls overwrote it before, a call ends with the smallest count it read.
  `MixedNeedsOverlap`: host and port of a reply belong to two servers only if another call
  overwrote the row in between, and the row is whole whenever the mutex is free.
  `FirstStaysLost`: once the first server's row is overwritten, that server is never offered again.
  `LoginOnlyEmptyToken`: a login succeeds with the empty token only. `AnswersBounded`: the number
  of chat servers handed out in the life of the process is bounded by the pool.
* `http_connection`. `DeadlineGuardsWrite`: a response the peer does not take is watched by a
  deadline or its socket is closed, and no finished connection sits out its 60 s.
  `RequestsReleased`: no request stays for ever, whatever its peer does, as long as the handlers
  on its context keep returning. Nothing of the kind holds before the request is read (no
  deadline is awaited then).
* `chat_server`. `RegistrySound`: no handler of a session runs once `CServer` is destroyed, and a
  session without a handler stays in `sessions_` only if it was cleared before it was inserted or
  a handler of it ended in a swallowed exception, whatever the unlocked look-ups found.
  `SignalEndsInCrash`: a signal ends the process, but through the second `Stop()`, or it hangs in
  the destructor of `LogicSystem`.

The type invariant of each module is a theorem (section 4), so no run spends time on it;
`PostedStays` and `NeverIdle` of `ChatProofs`, `RoundRobin` and `AlwaysAccepting` of
`HttpConnection` are theorems only.

### Bounds, and why they suffice

* Pools: more callers than connections, so that callers sleep; with four callers and two
  stubs two can be awake and coming while a third sleeps, the case that decides
  between notifying per stub and notifying per empty queue. Pool sizes in the code are 5.
* `CheckPeriod` 2 gives rounds and idle ticks. `MaxOutages` 1: connections break
  again by being returned, so healing repeats anyway.
* `GateAccounts`: two requests at a time suffice for each race of check and use between two
  calls; workers serve any number of requests one after the other. One name with two emails
  gives both kinds of conflict. All sets are symmetric; only safety is checked there.
* `ChatLogic`: three messages each let a poster be overtaken between unlock and notify,
  and the queue run empty and fill again. `MaxPosts` only ends the run.
* `ChatSession`: an empty body, a short one, one of exactly `MAX_LENGTH`, one too long, and lengths
  of -1 and -2; two frames show a lost boundary. `MAX_LENGTH` = `HEAD_TOTAL_LEN` = 4 is the smallest
  size `data_` can have, and `Base` 4 makes a short range over -8..7. A session may end, so this
  run does not check for deadlock.
* `StatusService`: with three servers the first row can be overwritten twice in one call, and a
  row can come to carry the name of the first. Seven connections let two overlapping calls
  complete. Handlers that wait for a connection for ever still leave `CountChanges` enabled, so
  deadlock is checked.
* `HttpConnection`: with three connections one accepts while two share a context or have one each;
  the turn of a context comes round after two.
* `ChatServer`: sessions 1 and 3 share a context, session 2 runs beside them. The process ends, so
  deadlock is not checked there.

### Fairness

Weak fairness of each thread's own next step: the operating system runs a thread that can
run; SQL statements end and the network moves bytes. Nothing is assumed of new requests,
of spurious wakeups, of signals, of outages, or of whoever is at the other end of a connection
without a timeout. Where a property needs that, it says so as a hypothesis: `RpcsEnd` in
`CallsReturn`, `RedisAnswers` in `CloseReturns` and `GracefulShutdown`, `PeerReads` in
`SendsFlushed`. `RedisPool` adds strong fairness of taking `mutex_`: the checker sleeps a second between
two rounds and commands do their work without it, so a thread that wants it gets it, and the violated
`GracefulShutdown` is not an artefact of starvation. `HttpConnection` assumes strong
fairness of a connection's queued handlers, since an io_context runs its queue in order while a
handler occupies the thread in between, and weak fairness of time and of operations on a
closed socket; a peer may stop reading for ever, and a handler may never return. `ChatServer`
assumes weak fairness of `main` and of each session's handlers. `StatusService` and
`GateAccounts` state safety only.

## 4. Proofs

Eight modules of proofs are checked by TLAPS for every value of the constants. They assume:
finite sets of callers and handlers that do not contain the markers `"nobody"` and `"checker"`
(a thread is not a marker); positive pool sizes, `CheckPeriod` and numbers of contexts; natural
`MaxPosts`, `MaxOutages`, `MaxCount`, `MAX_SENDQUE`, `MaxFrames`, `MaxSends`; at least one value of a
byte (`BaseNat`), frames whose id and length two bytes can hold (`FramesFit`) and a `data_` that can
hold a head (`HeadFits`); a non-empty list of distinct chat servers; and that `None`
is neither a code, a password nor a row. Every assumption is named in the module that declares
the constant.

*RpcPool.* `TypeCorrect` needs `HolderKnown`, because `returnConnection` queues what its
caller holds. `OwnershipSafe`: `StubOwnership` with the types is inductive; the two lemmas
`PopFront` and `PushBack` say what a queue without repetitions becomes. `WakeupsSafe`:
`NoLostWakeup` with the types; every step changes the number of callers on their way, or the
queue's length, by at most one (`OneMoreAtCall`, `OneLessAtCall`). `PoolRefinement`: each step
under the ownership invariant is a step of `AbstractPool` or leaves its variables alone.

*RedisPool.* `Typing` adds to the types what a position says: who owns `mutex_`, that a caller
past its predicate has a connection to take (the mutex kept everybody else out), and that
the checker's remaining rounds do not exceed the queue. `Budget` counts completed commands,
queued, used and PINGed connections together; it bounds the commands (`CommandsRunOut`) and the
checker's rounds (`TypeCorrect`). `ConnOwnership` with `Typing` is inductive (`OwnershipHolds`) and
gives `PoolRefinement`, where the checker is one more user. `SleepersKnown` rests on `Blind`:
once `Close()` has notified, everybody on the way to sleep was in the blind window then, because
a predicate read after `b_stop_` is true.

*MysqlPool.* The same shape: `PredicateHeld` carries the predicate from its evaluation to the
sleep or the take. `AccountsBalance` needs `Placed`, `NoRepeats` and the cardinality of the lost
connections; `WakeupsSafe` compares the callers on their way with the queue step by step;
`StopStrandsCallers` is an action property; `PoolRefinement` holds although `Close()` takes no
lock.

*GateAccounts.* `Inv` has one part per request: `Fits` (which request can be at which call),
`Judged` (the value currently stored has been seen; past its check, so has the value the
request carries) and `Answered` (the properties for answered requests). A step of one worker
proves its own part (`OwnStep`); everybody else's follows from what any step leaves of them
(`OthersUntouched`, `Bystander`). `TableWrites` says who changes a row, from which,
with `RowsKept`, `RegistrationsStored` follows. `RowsChangeByReset` needs `Compared` besides: from its
arrival to its comparison a reset whose name has no row found it free, and what it was compared
with stays.

*ChatLogic.* One invariant, `LogicInv`, gives all five theorems: types, order
(`handled \o msg_que_ = posted`), that the mutex is the worker's exactly in the places
where it holds it, that a sleeping or about-to-sleep worker beside a non-empty queue has a
notifier on its way, and how the destructor's progress bounds what the worker can be doing.

*StatusService.* `ScanChoosesMin` needs that the scanning handler owns the mutex and that the row
being copied is the one whose count was noted; `MixedNeedsOverlap` that a reader that was not
overtaken still sees the row it was given; `AnswersBounded` that rows after the first never
change (`RowsKept`), so a scan skips at most one, and counts what every unfinished call has used
(`Budget`).

*HttpConnection.* `Guarded`, a predicate of one connection, is kept by every handler;
`TurnsTaken` describes `recent` by arithmetic on `nextIOService_`; `NeverDeaf` says that each
acceptor's step replaces the accepting connection by exactly one.

*ChatSession* (in `ChatProofs`). Four invariants of its own, one per concern. `SendInv` is
`SendOrder` with the types and is inductive: of a transfer and the handler of one there is at
most one (`OneWriter`), so what `TransferWrite` moves to the peer is the head of the queue and
what `HandleWrite` pops was moved before. `ConnInv` adds to the first half of `StoppedIsCleared`
that a session that stops before it is inserted is known to be early. `ReadInv` bounds what is
read: what is in `data_` does not outgrow what is wanted if that is not negative, and what is
wanted is at most `MAX_LENGTH` and at least -1, because a node is only made for such a length; so
only a body of length -1 outgrows `data_` (`OutgrownByMinusOne`). `FrameInv` is the argument for
the reassembly, and needs no induction: *there are* a sequence `stream` and cuts of it such that
the stream between two cuts is a frame that was sent (`Framed`), such that `data_` followed by
`wire` is its end (`Unread`), and such that this end begins where the frame being read begins, or
at its body (`AtFrame`); and the nodes posted are the frames before (`Copied`). `PeerSend`
lengthens the witness (`FramedExtends`), a transfer moves bytes across the boundary of `data_`
and `wire`, and a handler empties `data_`, which moves the beginning to the body of the frame
(`HandleHead`, by `SendNodeLayout`: what a head says is what `SendNode` put there, by `TwoBytes`
digit by digit and by `SignedUnsigned` with its sign; hence the length that made the code stop,
throw or overrun is the one the peer sent) or to the next cut (`HandleBody`). From them follow
`Reassembles`, `SendsInOrder`, `StoppedCleared`; `SessionRefinement`, where `HandleBody` and
`TransferWrite` are the steps that take from the two channels; the action property `PostedKept`
(no step writes to a node that `LogicSystem` may be reading); and `QueueIsServed`, the safety
half of `SendsFlushed`: while the socket is open a queued message always has a write or its
handler.

*ChatServer* (at the end of `ChatProofs`, which extends the modules of the session and of the server
it is registered with; names that both would have carry `Server` in the latter).
`Inserted` (who can be in the map), `Halted` and `Unmanned` (what the two stages of `Stop()` leave)
are inductive with the types and give `RegistryHolds`; a session that leaves its handler without
clearing is put into `swallowed`. `NoCleanEnd`, the safety half of
`SignalEndsInCrash`: after a signal `main` gets no further than the second `Stop()`, whose guards the
first one reset (`Doomed`).

Only model-checked: the liveness properties (`CallsReturn`, `CloseReturns`, `StatementsReturn`,
`ConnectionsHeal`, `EveryMessageHandled`, `DtorReturns`, `FramesArrive`, `SendsFlushed`,
`RequestsReleased`, `SignalEndsInCrash`): they rest on fairness and so on ENABLED, which is outside the
prover's reach. Every invariant, action property and refinement that a run checks is a
theorem as well.

## 5. Not modelled

* URL coding and `PreParseGetParam` (it runs for every GET request, but only `get_test` uses what
  it leaves, and echoes it), JSON and SQL text, logging, `ConfigMgr`, the creation of singletons,
  start-up, generated code and scripts: no state that several actors share.
* The order in which GateServer's statics are destroyed: `RedisPool` and `RpcPool` model what it
  does to the pools while IO threads run, `HttpConnection` stops before it.
* `UserMgr::SetUserSession` and `GetSession`: no caller.
* What undefined behaviour goes on to do: a write over the end of `data_` ends the model of a
  session, a command on a destroyed `RedisMgr` works or ends the process.
* Torn values: a `std::string` copy is not atomic.
  Data races on plain variables are modelled by interleaving single accesses where a property is
  about them (`b_stop_`, the table's rows) and by a nondeterministic outcome for the unlocked
  look-up in `ClearSession`; concurrent use of one socket by `Send` and `Close` is not.
* An empty list of chat servers (undefined behaviour on the first call; `ListedDistinct`).

## 6. Plan

Done: the three pools with their abstract specification, the account handlers, the message
queue, session, registry and end of ChatServer, StatusServer's service, GateServer's
connections and the io_context pool; a second abstract specification, the channel, for a
session; proofs of the safety of all of them.

Left: safety halves of more of the liveness properties, as `QueueIsServed` and `NoCleanEnd` are of
two; URL coding as operators against a reference definition, when `get_test` grows into
something that keeps state; `UserMgr` as soon as something calls `SetUserSession`.
