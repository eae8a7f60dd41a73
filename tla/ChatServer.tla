----------------------------- MODULE ChatServer -----------------------------
(***************************************************************************)
(* The ChatServer process: main, CServer with its registry of sessions,    *)
(* the AsioIOServicePool, and how a signal ends them.                      *)
(*                                                                         *)
(*  - main runs the acceptor; each io_context of the pool has one thread,  *)
(*    which runs the handlers of its sessions one at a time.               *)
(*  - Handlers refer to CServer, a local variable of main, by a pointer.   *)
(*  - ClearSession looks its session up without mutex_: while another      *)
(*    thread changes the map it may miss it or crash.                      *)
(*  - RmvUserSession changes nothing: no caller of SetUserSession and      *)
(*    SetUserId exists, so the user map is empty.                          *)
(*                                                                         *)
(* Names that ChatSession has too carry "Server" or "Session" here: both   *)
(* are parts of one program, and ChatProofs reasons about both.            *)
(***************************************************************************)
EXTENDS Naturals, FiniteSets

CONSTANTS MaxSessions,  \* bound: connections tried
          Size          \* io_contexts of the pool

ASSUME Bounds == MaxSessions \in Nat \ {0} /\ Size \in Nat \ {0}

Sessions == 1..MaxSessions
Context(s) == (s - 1) % Size   \* round robin, see HttpConnection

VARIABLES main,       \* where main is, see the actions and ServerTypeOK
          works_,     \* the work guards have not been reset
          stopped,    \* the contexts have been stopped
          accepting,  \* session of the pending accept
          handler,    \* each session: "none", "pending", "queued", "running",
                      \* "find", "remove", "erase"
          sessions_,
          raced,      \* look-ups during which the map was changed
          earlySessions, \* history: sessions erased before they were inserted
          swallowed   \* history: sessions a handler of which ended in an exception

mainVars == <<main, works_, stopped, accepting>>
serverVars == <<mainVars, handler, sessions_, raced, earlySessions, swallowed>>

(* main() up to io_context.run(); CServer's constructor throws when the    *)
(* port is taken, and main returns.                                        *)
ServerInit ==
    /\ main \in {"run", "unwound"}
    /\ works_ = TRUE
    /\ stopped = FALSE
    /\ accepting = 1
    /\ handler = [s \in Sessions |-> "none"]
    /\ sessions_ = {} /\ raced = {} /\ earlySessions = {} /\ swallowed = {}

Looking == {s \in Sessions : handler[s] \in {"find", "remove"}}
InHandler(s) == handler[s] \in {"running", "find", "remove", "erase"}
Moves(s, from, to) == handler[s] = from /\ handler' = [handler EXCEPT ![s] = to]
Crash == main' = "crashed" /\ UNCHANGED <<works_, stopped, accepting>>

-----------------------------------------------------------------------------
(* The acceptor. *)

(* HandleAccept: Start() reads on the session's own context. *)
Accept == /\ main = "run" /\ accepting \in Sessions
          /\ Moves(accepting, "none", "pending")
          /\ main' = "started"
          /\ UNCHANGED <<works_, stopped, accepting, sessions_, raced, earlySessions,
                         swallowed>>

(* ... the insertion, under mutex_, and StartAccept. *)
InsertSession == /\ main = "started"
                 /\ sessions_' = sessions_ \cup {accepting}
                 /\ raced' = raced \cup Looking
                 /\ main' = "run" /\ accepting' = accepting + 1
                 /\ UNCHANGED <<works_, stopped, handler, earlySessions, swallowed>>

(* HandleAccept with an error: StartAccept. *)
AcceptFails == /\ main = "run" /\ accepting \in Sessions
               /\ accepting' = accepting + 1
               /\ UNCHANGED <<main, works_, stopped, handler, sessions_, raced, earlySessions,
                              swallowed>>

-----------------------------------------------------------------------------
(* A session's handlers, in the thread of its context. *)

(* A read or write ends. *)
Complete(s) == /\ Moves(s, "pending", "queued")
               /\ UNCHANGED <<mainVars, sessions_, raced, earlySessions, swallowed>>

Dispatch(s) == /\ Moves(s, "queued", "running")
               /\ ~stopped
               /\ \A t \in Sessions : Context(t) = Context(s) => ~InHandler(t)
               /\ UNCHANGED <<mainVars, sessions_, raced, earlySessions, swallowed>>

(* The handler starts the next operation, or was the last one: a write of  *)
(* a session that reads no more.                                           *)
Continue(s) == /\ \/ Moves(s, "running", "pending")
                  \/ s \in swallowed /\ Moves(s, "running", "none")
               /\ UNCHANGED <<mainVars, sessions_, raced, earlySessions, swallowed>>

(* It throws, and the catch clause at its end only logs: ClearSession is   *)
(* not called, and nothing reads on.  A write may still be pending.        *)
Swallow(s) == /\ \E next \in {"none", "pending"} : Moves(s, "running", next)
              /\ swallowed' = swallowed \cup {s}
              /\ UNCHANGED <<mainVars, sessions_, raced, earlySessions>>

(* It fails, and calls ClearSession. *)
Fail(s) == /\ Moves(s, "running", "find")
           /\ UNCHANGED <<mainVars, sessions_, raced, earlySessions, swallowed>>

(* Mutant of Find: ClearSession returns when it finds nothing. *)
FindOrReturn(s) == /\ \E found \in BOOLEAN :
                         /\ s \notin raced => found = (s \in sessions_)
                         /\ Moves(s, "find", IF found THEN "remove" ELSE "none")
                   /\ raced' = raced \ {s}
                   /\ earlySessions' = earlySessions \cup ({s} \ sessions_)
                   /\ UNCHANGED <<mainVars, sessions_, swallowed>>

(* sessions_.find *)
Find(s) == /\ \E found \in BOOLEAN :
                 /\ s \notin raced => found = (s \in sessions_)
                 /\ Moves(s, "find", IF found THEN "remove" ELSE "erase")
           /\ raced' = raced \ {s}
           /\ UNCHANGED <<mainVars, sessions_, earlySessions, swallowed>>

(* sessions_[uuid]->GetUserId(), RmvUserSession; a miss makes a null pointer. *)
RmvUserSession(s) == /\ Moves(s, "remove", "erase")
                     /\ s \in raced \cup sessions_
                     /\ raced' = raced \ {s}
                     /\ UNCHANGED <<mainVars, sessions_, earlySessions, swallowed>>

(* A race in the map, or the null pointer. *)
LookupCrashes(s) == /\ \/ handler[s] \in {"find", "remove"} /\ s \in raced
                       \/ handler[s] = "remove" /\ s \notin sessions_
                    /\ Crash
                    /\ UNCHANGED <<handler, sessions_, raced, earlySessions, swallowed>>

(* sessions_.erase, under mutex_.  A write may still be pending. *)
Erase(s) == /\ \E next \in {"none", "pending"} : Moves(s, "erase", next)
            /\ sessions_' = sessions_ \ {s}
            /\ raced' = raced \cup Looking
            /\ earlySessions' = earlySessions \cup ({s} \ sessions_)
            /\ UNCHANGED <<mainVars, swallowed>>

Handler(s) == \/ Dispatch(s) \/ Continue(s) \/ Swallow(s) \/ Fail(s) \/ Find(s)
              \/ RmvUserSession(s) \/ LookupCrashes(s) \/ Erase(s)

-----------------------------------------------------------------------------
(* The end of the process. *)

Rest == UNCHANGED <<accepting, handler, sessions_, raced, earlySessions, swallowed>>

Signal == main = "run" /\ main' = "signal" /\ UNCHANGED <<works_, stopped>> /\ Rest

(* Mutant of Stop: the guards are tested before they are used. *)
StopChecked(from, to) == /\ main = from /\ main' = to
                         /\ stopped' = TRUE /\ works_' = FALSE
                         /\ Rest

(* Stop() up to the joins: it uses each work guard and resets it. *)
Stop(from, to) ==
    /\ main = from
    /\ IF works_ THEN main' = to /\ stopped' = TRUE /\ works_' = FALSE
                 ELSE main' = "crashed" /\ UNCHANGED <<stopped, works_>>
    /\ Rest

Joinable == \A s \in Sessions : ~InHandler(s)

(* Each thread ends once the handler it is in has returned. *)
Join(from, to) == /\ main = from /\ Joinable
                  /\ main' = to
                  /\ UNCHANGED <<works_, stopped>> /\ Rest

(* ~LogicSystem, in whatever order the singletons are destroyed, may block *)
(* for ever (JoinBlocksOnlyIfMissed of ChatLogic).                         *)
LogicBlocks == /\ main = "unwound" /\ accepting > 1
               /\ main' = "stuck"
               /\ UNCHANGED <<works_, stopped>> /\ Rest

(* The signal handler stops the pool; then run() returns and CServer is    *)
(* destroyed, and ~AsioIOServicePool stops the pool again.                 *)
Exit == \/ LogicBlocks
        \/ Stop("signal", "join") \/ Join("join", "unwound")
        \/ Stop("unwound", "rejoin") \/ Join("rejoin", "exit")

-----------------------------------------------------------------------------
ServerNext == /\ main # "crashed"
              /\ \/ Accept \/ InsertSession \/ AcceptFails \/ Signal \/ Exit
                 \/ \E s \in Sessions : Complete(s) \/ Handler(s)

(* main and the pool's threads keep running; nothing is assumed of peers   *)
(* and signals.                                                            *)
ServerFairness == /\ WF_serverVars(main # "crashed" /\ (InsertSession \/ Exit))
                  /\ \A s \in Sessions : WF_serverVars(main # "crashed" /\ Handler(s))

ServerSpec == ServerInit /\ [][ServerNext]_serverVars /\ ServerFairness

-----------------------------------------------------------------------------
ServerTypeOK ==
    /\ main \in {"run", "started", "signal", "join", "unwound", "rejoin", "exit",
                 "crashed", "stuck"}
    /\ works_ \in BOOLEAN /\ stopped \in BOOLEAN
    /\ accepting \in 1..(MaxSessions + 1)
    /\ handler \in [Sessions -> {"none", "pending", "queued", "running", "find",
                                 "remove", "erase"}]
    /\ sessions_ \subseteq Sessions /\ raced \subseteq Sessions
    /\ earlySessions \subseteq Sessions /\ swallowed \subseteq Sessions

(* No handler runs, or can still be run, once CServer is destroyed. *)
HandlersInsideServer ==
    main \in {"unwound", "rejoin", "exit", "stuck"} =>
        \A s \in Sessions : ~InHandler(s) /\ (handler[s] = "queued" => stopped)

(* A session that will have no handler again stays registered only if it   *)
(* was cleared between its Start() and its insertion, or if a handler of   *)
(* it ended in an exception, however its look-up in the changing map went. *)
ForgottenOnlyIfKnown ==
    \A s \in sessions_ : handler[s] = "none" => s \in earlySessions \cup swallowed

(* Both of CServer's promises to its sessions. *)
RegistrySound == HandlersInsideServer /\ ForgottenOnlyIfKnown

(* A signal ends the process, but never cleanly: the destructor's Stop()   *)
(* uses the work guards the first one reset, unless ~LogicSystem is stuck. *)
SignalEndsInCrash == main = "signal" ~> main \in {"crashed", "stuck"}
=============================================================================
