--------------------------- MODULE HttpConnection ---------------------------
(***************************************************************************)
(* GateServer's HTTP side: CServer's accept loop, the contexts of the      *)
(* AsioIOServicePool, each run by one thread, and the HttpConnections.     *)
(*                                                                         *)
(*  - A connection lives as long as a pending handler refers to it.  The   *)
(*    handlers of the connections of one context run one at a time.        *)
(*  - deadline_ is set to 60 s when the connection is made, that is when   *)
(*    its accept is issued, and awaited only after HandleReq.              *)
(*  - HandleReq waits for Redis, MySQL and gRPC, and may never return.     *)
(*  - The peer may send, take what it is sent, or do neither, for ever.    *)
(***************************************************************************)
EXTENDS Naturals, Sequences, FiniteSets

CONSTANTS Conns,  \* bound: connections that exist at once
          Size    \* io_contexts of the pool

ASSUME SizePositive == Size \in Nat \ {0}
ASSUME ConnsNonempty == Conns # {}

Contexts == 0..(Size - 1)

VARIABLES con,             \* HttpConnections; Gone: no object
          nextIOService_,
          recent           \* history: the last contexts handed out, at most Size

vars == <<con, nextIOService_, recent>>

(* HttpConnection(): phase is what it does with its request, wr the state  *)
(* of its async_write and tm of its wait for deadline_: "ready", "expired" *)
(* and "aborted" are queued handlers.                                      *)
New(k) == [phase |-> "accept", ctx |-> k, due |-> FALSE, open |-> TRUE,
           wr |-> "none", tm |-> "none"]
Gone == [New(0) EXCEPT !.phase = "gone"]

(* The object goes with its last handler. *)
Left(r) == IF r.wr \in {"none", "over"} /\ r.tm = "over" THEN Gone ELSE r

Wrap(n) == IF n = Size THEN 0 ELSE n

(* GetIOService: the context is nextIOService_. *)
GetIOService ==
    /\ nextIOService_' = Wrap(nextIOService_ + 1)
    /\ recent' = Append(IF Len(recent) = Size THEN Tail(recent) ELSE recent,
                        nextIOService_)

(* CServer's constructor and first Start. *)
Init == /\ \E c \in Conns : con = [d \in Conns |-> IF d = c THEN New(0) ELSE Gone]
        /\ nextIOService_ = Wrap(1)
        /\ recent = <<0>>

-----------------------------------------------------------------------------
(* The acceptor, in the main thread. *)

(* A peer connects: its connection reads, and Start makes the next one.    *)
Accept(c, d) ==
    /\ con[c].phase = "accept" /\ con[d].phase = "gone"
    /\ con' = [con EXCEPT ![c].phase = "read", ![d] = New(nextIOService_)]
    /\ GetIOService

(* async_accept fails: Start again, with a new connection. *)
AcceptFails(c) == /\ con[c].phase = "accept"
                  /\ con' = [con EXCEPT ![c] = New(nextIOService_)]
                  /\ GetIOService

-----------------------------------------------------------------------------
(* What happens to a connection outside its handlers. *)

Change(c, r) == con' = [con EXCEPT ![c] = r] /\ UNCHANGED <<nextIOService_, recent>>

(* The 60 seconds have passed. *)
Elapse(c) == /\ con[c].phase # "gone" /\ ~con[c].due
             /\ Change(c, [con[c] EXCEPT !.due = TRUE])

(* A request has come, or the read has failed. *)
ReadEnds(c) == /\ con[c].phase = "read"
               /\ \E result \in {"request", "failed"} :
                     Change(c, [con[c] EXCEPT !.phase = result])

(* The peer took the response, or the write has failed; it does when the   *)
(* socket is closed.                                                       *)
WriteEnds(c) == /\ con[c].wr = "pending"
                /\ Change(c, [con[c] EXCEPT !.wr = "ready"])
WriteAborted(c) == ~con[c].open /\ WriteEnds(c)

TimerFires(c) == /\ con[c].tm = "waiting" /\ con[c].due
                 /\ Change(c, [con[c] EXCEPT !.tm = "expired"])

-----------------------------------------------------------------------------
(* Handlers, in the thread of the connection's context. *)

Idle(k) == \A c \in Conns : con[c].ctx = k => con[c].phase # "handling"

OnFailedRead(c) == /\ con[c].phase = "failed" /\ Idle(con[c].ctx)
                   /\ Change(c, Gone)

OnRequest(c) == /\ con[c].phase = "request" /\ Idle(con[c].ctx)
                /\ Change(c, [con[c] EXCEPT !.phase = "handling"])

(* Mutant of Responds: CheckDeadline is not called. *)
RespondsUnwatched(c) ==
    /\ con[c].phase = "handling"
    /\ Change(c, [con[c] EXCEPT !.phase = "handled", !.wr = "pending"])

(* HandleReq of a GET or POST, with a handler or not found: WriteResponse, *)
(* then CheckDeadline.                                                     *)
Responds(c) ==
    /\ con[c].phase = "handling"
    /\ Change(c, [con[c] EXCEPT !.phase = "handled", !.wr = "pending", !.tm = "waiting"])

(* Another method is not answered; CheckDeadline all the same. *)
RespondsNothing(c) ==
    /\ con[c].phase = "handling"
    /\ Change(c, [con[c] EXCEPT !.phase = "handled", !.tm = "waiting"])

(* HandleReq throws, before any write. *)
Throws(c) == con[c].phase = "handling" /\ Change(c, Gone)

(* Mutant of OnWritten: the deadline is not cancelled. *)
OnWrittenUncancelled(c) ==
    /\ con[c].wr = "ready" /\ Idle(con[c].ctx)
    /\ Change(c, Left([con[c] EXCEPT !.wr = "over"]))

(* async_write's handler: the cancel comes too late for a timer whose      *)
(* handler is queued.                                                      *)
OnWritten(c) ==
    /\ con[c].wr = "ready" /\ Idle(con[c].ctx)
    /\ Change(c, Left([con[c] EXCEPT
          !.wr = "over",
          !.tm = IF con[c].tm = "waiting" THEN "aborted" ELSE con[c].tm]))

(* Mutant of OnDeadline: the socket is left open. *)
OnDeadlineOpen(c) ==
    /\ con[c].tm \in {"expired", "aborted"} /\ Idle(con[c].ctx)
    /\ Change(c, Left([con[c] EXCEPT !.tm = "over"]))

(* deadline_'s handler closes the socket unless it was cancelled. *)
OnDeadline(c) ==
    /\ con[c].tm \in {"expired", "aborted"} /\ Idle(con[c].ctx)
    /\ Change(c, Left([con[c] EXCEPT
          !.tm = "over", !.open = con[c].open /\ con[c].tm = "aborted"]))

-----------------------------------------------------------------------------
Queued(c) == OnFailedRead(c) \/ OnRequest(c) \/ OnWritten(c) \/ OnDeadline(c)

Returns(c) == Responds(c) \/ RespondsNothing(c) \/ Throws(c)

Next == \E c \in Conns :
           \/ \E d \in Conns : Accept(c, d)
           \/ AcceptFails(c) \/ Elapse(c) \/ ReadEnds(c) \/ WriteEnds(c)
           \/ TimerFires(c) \/ Queued(c) \/ Returns(c)

(* Time passes, due timers fire, operations on a closed socket end, and an *)
(* io_context runs its queue in order: a handler whose context is idle     *)
(* again and again gets its turn.  Nothing is assumed of the peers.        *)
Fairness == \A c \in Conns :
               /\ WF_vars(Elapse(c) \/ TimerFires(c) \/ WriteAborted(c))
               /\ SF_vars(Queued(c))

Spec == Init /\ [][Next]_vars /\ Fairness

-----------------------------------------------------------------------------
TypeOK ==
    /\ con \in [Conns ->
          [phase : {"gone", "accept", "read", "request", "failed", "handling", "handled"},
           ctx : Contexts, due : BOOLEAN, open : BOOLEAN,
           wr : {"none", "pending", "ready", "over"},
           tm : {"none", "waiting", "expired", "aborted", "over"}]]
    /\ nextIOService_ \in Contexts
    /\ recent \in Seq(Contexts) /\ Len(recent) \in 1..Size

(* A context is handed out again only after all the others, although a     *)
(* failed accept uses up a turn.                                           *)
RoundRobin == \A i, j \in 1..Len(recent) : recent[i] = recent[j] => i = j

(* The server is always accepting, with one connection: no error of        *)
(* async_accept and no connection's end leaves it deaf, or accepting twice.*)
AlwaysAccepting == \E c \in Conns : \A d \in Conns : con[d].phase = "accept" <=> d = c

(* A response a peer does not take is held by a deadline that has not been *)
(* cancelled, or its socket is closed; and no connection sits out its 60   *)
(* seconds once the write has ended.                                       *)
DeadlineGuardsWrite ==
    \A c \in Conns :
        /\ con[c].wr = "pending" /\ con[c].open => con[c].tm \in {"waiting", "expired"}
        /\ con[c].wr = "over" => con[c].tm \in {"aborted", "expired"}

(* A request that was read is done with, whatever its peer does: its       *)
(* connection is not kept for ever, provided that HandleReq of the         *)
(* requests on its context keeps returning.                                *)
Requested(c) == con[c].phase \in {"request", "handling", "handled"}

RequestsReleased ==
    \A k \in Contexts, c \in Conns :
        ([]<>Idle(k)) => []<>~(Requested(c) /\ con[c].ctx = k)
=============================================================================
