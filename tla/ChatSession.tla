---------------------------- MODULE ChatSession ----------------------------
(***************************************************************************)
(* One CSession of ChatServer (ChatServer/src/CSession.cpp, MsgNode.cpp)   *)
(* with the part of CServer that registers and clears it: the reassembly   *)
(* of frames from a TCP stream that arrives in arbitrary pieces, and the   *)
(* queue of outgoing messages.                                             *)
(*                                                                         *)
(*  - The session's handlers run on the one thread of its io_context;      *)
(*    HandleAccept runs on the main thread, Send on any thread.            *)
(*  - A transfer and the handler of its completion are two steps: Close()  *)
(*    fails the transfers that are pending, not the completions that are   *)
(*    already queued.                                                      *)
(*  - A frame is a head of HEAD_TOTAL_LEN bytes (id and length, two bytes  *)
(*    each, in network order) and the body.  The code reads both as signed *)
(*    shorts: a peer whose length field says 0x8000 or more has sent a     *)
(*    negative length, and that is not checked.                            *)
(*  - Posted messages are references to RecvNodes, as in the code.         *)
(*  - What follows a write beyond data_ is undefined; there the model ends *)
(*    (Intact).                                                            *)
(***************************************************************************)
EXTENDS Integers, SequencesExt

CONSTANTS Frames,       \* what peers send: [id, total_len_, body]
          Base,         \* values of a byte (256)
          MAX_LENGTH,   \* longest body, and the size of data_ (2048)
          MAX_SENDQUE,  \* see Send (1000)
          MaxFrames,    \* bound: frames the peer sends
          MaxSends      \* bound: calls of Send

HEAD_TOTAL_LEN == 4
Bytes == 0..(Base - 1)

ASSUME BaseNat == Base \in Nat \ {0}
(* The values of a short (as many negative as others, Base being even). *)
Half == (Base * Base) \div 2
Shorts == (Half - Base * Base)..(Half - 1)

(* A length that is not negative is that of the body. *)
ASSUME FramesFit ==
    /\ Frames \subseteq [id : Shorts, total_len_ : Shorts, body : Seq(Bytes)]
    /\ \A f \in Frames : f.total_len_ >= 0 => f.total_len_ = Len(f.body)
ASSUME HeadFits == MAX_LENGTH \in Nat /\ MAX_LENGTH >= HEAD_TOTAL_LEN
ASSUME QueueNat == MAX_SENDQUE \in Nat
ASSUME BoundsNat == MaxFrames \in Nat /\ MaxSends \in Nat

VARIABLES acc,        \* CServer::HandleAccept: "listen", "started", "done"
          registered, \* the session is in sessions_
          early,      \* history: ClearSession ran before the insertion
          open,       \* socket_ has not been closed
          peer,       \* "up", "fin" (orderly end) or "reset"
          wire,       \* bytes sent by the peer and not yet read
          sent,       \* history: frames the peer sent
          phase,      \* what is being read: "none", "head", "body"; no more
                      \* since it "stopped" or an exception was "swallowed"
          data_,      \* the bytes of it that are there
          ready,      \* a read completion is queued
          nodes,      \* the RecvNodes made so far, the last is recv_msg_node_
          posted,     \* nodes posted to LogicSystem, in order
          send_que_,
          writing,    \* messages handed to async_write, not yet transferred
          written,    \* write completions queued
          accepted,   \* history: messages Send has queued
          sends,      \* history: calls of Send
          out         \* messages transferred to the peer

connVars == <<acc, registered, early, open>>
peerVars == <<peer, wire, sent>>
readVars == <<phase, data_, ready, nodes, posted>>
sendVars == <<send_que_, writing, written, accepted, sends, out>>
vars == <<connVars, peerVars, readVars, sendVars>>

Init == /\ acc = "listen" /\ registered = FALSE /\ early = FALSE /\ open = TRUE
        /\ peer = "up" /\ wire = <<>> /\ sent = <<>>
        /\ phase = "none" /\ data_ = <<>> /\ ready = FALSE
        /\ nodes = <<>> /\ posted = <<>>
        /\ send_que_ = <<>> /\ writing = <<>> /\ written = 0
        /\ accepted = <<>> /\ sends = 0 /\ out = <<>>

-----------------------------------------------------------------------------
(* The frame format (SendNode, and the head parsed by AsyncReadHead). *)

Unsigned(v) == IF v < 0 THEN v + Base * Base ELSE v
Signed(u) == IF u < Half THEN u ELSE u - Base * Base

host_to_network_short(v) == <<Unsigned(v) \div Base, Unsigned(v) % Base>>

network_to_host_short(hi, lo) == Signed(hi * Base + lo)

SendNode(f) == host_to_network_short(f.id)
               \o host_to_network_short(f.total_len_) \o f.body

RecvNode(head) == [id |-> network_to_host_short(head[1], head[2]),
                   total_len_ |-> network_to_host_short(head[3], head[4]),
                   body |-> <<>>]

-----------------------------------------------------------------------------
(* The peer. *)

PeerSend == /\ peer = "up"
            /\ Len(sent) < MaxFrames
            /\ \E f \in Frames : /\ wire' = wire \o SendNode(f)
                                 /\ sent' = Append(sent, f)
            /\ UNCHANGED <<peer, connVars, readVars, sendVars>>

PeerEnd == /\ peer = "up"
           /\ peer' \in {"fin", "reset"}
           /\ UNCHANGED <<wire, sent, connVars, readVars, sendVars>>

-----------------------------------------------------------------------------
(* CServer. *)

(* HandleAccept: Start() issues the first read ... *)
Start == /\ acc = "listen"
         /\ acc' = "started"
         /\ phase' = "head"
         /\ UNCHANGED <<registered, early, open, data_, ready, nodes, posted,
                        peerVars, sendVars>>

(* ... and then the session is inserted; its handlers may already run. *)
Insert == /\ acc = "started"
          /\ acc' = "done"
          /\ registered' = TRUE
          /\ UNCHANGED <<early, open, peerVars, readVars, sendVars>>

ClearSession == /\ registered' = FALSE
                /\ early' = (early \/ acc = "started")
                /\ UNCHANGED acc

(* Close() and ClearSession(), the way every error ends. *)
CloseAndClear == open' = FALSE /\ ClearSession

-----------------------------------------------------------------------------
(* Reading. *)

Need == IF phase = "head" THEN HEAD_TOTAL_LEN ELSE nodes[Len(nodes)].total_len_
Reading == phase \in {"head", "body"} /\ ~ready

(* A negative length becomes a size_t that no read reaches. *)
Endless == Need < 0
Full == ready /\ ~Endless /\ Len(data_) >= Need

(* Nothing has been written beyond data_. *)
Intact == Len(data_) <= MAX_LENGTH

(* async_read_some completes with some of the bytes that are still wanted; *)
(* a read for no bytes completes at once.                                  *)
TransferRead ==
    /\ Reading /\ open
    /\ \E n \in 0..Len(wire) :
          /\ Endless \/ n <= Need - Len(data_)
          /\ n = 0 => Need = 0
          /\ data_' = data_ \o SubSeq(wire, 1, n)
          /\ wire' = SubSeq(wire, n + 1, Len(wire))
    /\ ready' = TRUE
    /\ UNCHANGED <<phase, nodes, posted, peer, sent, connVars, sendVars>>

(* asyncReadLen: too few bytes, read on. *)
ReadMore == /\ ready /\ ~Full
            /\ ready' = FALSE
            /\ UNCHANGED <<phase, data_, nodes, posted, connVars, peerVars, sendVars>>

(* Mutant of HandleHead: one RecvNode is used for all messages. *)
HandleHeadReuse ==
    /\ Full /\ phase = "head"
    /\ nodes' = <<RecvNode(data_)>>
    /\ phase' = "body"
    /\ ready' = FALSE /\ data_' = <<>>
    /\ UNCHANGED <<posted, connVars, peerVars, sendVars>>

(* Mutant of HandleHead: the length is not checked. *)
HandleHeadUnchecked ==
    /\ Full /\ phase = "head"
    /\ nodes' = Append(nodes, RecvNode(data_))
    /\ phase' = "body"
    /\ ready' = FALSE /\ data_' = <<>>
    /\ UNCHANGED <<posted, connVars, peerVars, sendVars>>

(* The handler of AsyncReadHead: a length above MAX_LENGTH ends the        *)
(* session, without Close(); one below -1 makes the allocation in RecvNode *)
(* throw, and the catch clause only logs; otherwise a new RecvNode and     *)
(* AsyncReadBody.  (An id above MAX_LENGTH is only logged.  For -1 the     *)
(* terminator goes in front of an allocation of no bytes, into a byte of   *)
(* its chunk's size that is 0 already.)                                    *)
HandleHead ==
    /\ Full /\ phase = "head"
    /\ \/ /\ RecvNode(data_).total_len_ > MAX_LENGTH
          /\ phase' = "stopped"
          /\ ClearSession
          /\ UNCHANGED nodes
       \/ /\ RecvNode(data_).total_len_ < -1
          /\ phase' = "swallowed"
          /\ UNCHANGED <<nodes, acc, registered, early>>
       \/ /\ RecvNode(data_).total_len_ \in -1..MAX_LENGTH
          /\ nodes' = Append(nodes, RecvNode(data_))
          /\ phase' = "body"
          /\ UNCHANGED <<acc, registered, early>>
    /\ ready' = FALSE /\ data_' = <<>>
    /\ UNCHANGED <<posted, open, peerVars, sendVars>>

(* Mutant of HandleBody: the next head is not read. *)
HandleBodyOnce ==
    /\ Full /\ phase = "body"
    /\ nodes' = [nodes EXCEPT ![Len(nodes)].body = data_]
    /\ posted' = Append(posted, Len(nodes))
    /\ phase' = "none"
    /\ ready' = FALSE /\ data_' = <<>>
    /\ UNCHANGED <<connVars, peerVars, sendVars>>

(* The handler of AsyncReadBody: copy, PostMsgToQue, AsyncReadHead. *)
HandleBody ==
    /\ Full /\ phase = "body"
    /\ nodes' = [nodes EXCEPT ![Len(nodes)].body = data_]
    /\ posted' = Append(posted, Len(nodes))
    /\ phase' = "head"
    /\ ready' = FALSE /\ data_' = <<>>
    /\ UNCHANGED <<connVars, peerVars, sendVars>>

(* Mutant of ReadError: the session stays in sessions_. *)
ReadErrorKeep == /\ Reading
                 /\ ~open \/ peer = "reset" \/ (peer = "fin" /\ wire = <<>>)
                 /\ open' = FALSE
                 /\ phase' = "stopped"
                 /\ UNCHANGED <<acc, registered, early, data_, ready, nodes,
                                posted, peerVars, sendVars>>

(* The read fails: end of stream, connection reset, or socket_ closed. *)
ReadError == /\ Reading
             /\ ~open \/ peer = "reset" \/ (peer = "fin" /\ wire = <<>>)
             /\ CloseAndClear
             /\ phase' = "stopped"
             /\ UNCHANGED <<data_, ready, nodes, posted, peerVars, sendVars>>

-----------------------------------------------------------------------------
(* Writing. *)

(* Mutant of Send: every message is written at once. *)
SendEager ==
    /\ posted # <<>>
    /\ sends < MaxSends
    /\ sends' = sends + 1
    /\ send_que_' = Append(send_que_, sends')
    /\ accepted' = Append(accepted, sends')
    /\ writing' = Append(writing, sends')
    /\ UNCHANGED <<written, out, connVars, peerVars, readVars>>

(* Send, under send_lock_: dropped when the queue is over MAX_SENDQUE;     *)
(* written at once when it was empty.  Others know the session from the    *)
(* LogicNode of a message it has posted.                                   *)
Send ==
    /\ posted # <<>>
    /\ sends < MaxSends
    /\ sends' = sends + 1
    /\ \/ /\ Len(send_que_) > MAX_SENDQUE
          /\ UNCHANGED <<send_que_, accepted, writing>>
       \/ /\ Len(send_que_) <= MAX_SENDQUE
          /\ send_que_' = Append(send_que_, sends')
          /\ accepted' = Append(accepted, sends')
          /\ writing' = IF send_que_ = <<>> THEN Append(writing, sends') ELSE writing
    /\ UNCHANGED <<written, out, connVars, peerVars, readVars>>

(* async_write has handed a whole message over; of two, either is first. *)
TransferWrite ==
    /\ open /\ peer # "reset"
    /\ \E i \in 1..Len(writing) :
          /\ out' = Append(out, writing[i])
          /\ writing' = RemoveAt(writing, i)
    /\ written' = written + 1
    /\ UNCHANGED <<send_que_, accepted, sends, connVars, peerVars, readVars>>

(* Mutant of HandleWrite: the next message is not written. *)
HandleWriteLast == /\ written > 0
                   /\ written' = written - 1
                   /\ send_que_' = Tail(send_que_)
                   /\ UNCHANGED <<writing, accepted, sends, out, connVars,
                                  peerVars, readVars>>

(* HandleWrite: pop, and write the next message if there is one. *)
HandleWrite == /\ written > 0
               /\ written' = written - 1
               /\ send_que_' = Tail(send_que_)
               /\ writing' = IF send_que_' = <<>> THEN writing
                             ELSE Append(writing, Head(send_que_'))
               /\ UNCHANGED <<accepted, sends, out, connVars, peerVars, readVars>>

(* HandleWrite with an error: nothing is popped. *)
WriteError == /\ writing # <<>>
              /\ ~open \/ peer = "reset"
              /\ writing' = Tail(writing)
              /\ CloseAndClear
              /\ UNCHANGED <<send_que_, written, accepted, sends, out,
                             peerVars, readVars>>

ReadStep == TransferRead \/ ReadMore \/ HandleHead \/ HandleBody \/ ReadError
WriteStep == HandleWrite \/ WriteError

Next == /\ Intact
        /\ \/ PeerSend \/ PeerEnd \/ Start \/ Insert \/ ReadStep
           \/ Send \/ TransferWrite \/ WriteStep

(* The network brings the bytes a peer has sent, and the threads run       *)
(* handlers.  Nothing is assumed of callers of Send, or of the peer: it    *)
(* may not send, and it may not read what is written to it (there is no    *)
(* timeout).                                                               *)
Fairness == /\ WF_vars(Start) /\ WF_vars(Intact /\ Insert)
            /\ WF_vars(Intact /\ ReadStep) /\ WF_vars(Intact /\ WriteStep)

SafeSpec == Init /\ [][Next]_vars
Spec == SafeSpec /\ Fairness

-----------------------------------------------------------------------------
TypeOK ==
    /\ acc \in {"listen", "started", "done"}
    /\ registered \in BOOLEAN /\ early \in BOOLEAN /\ open \in BOOLEAN
    /\ peer \in {"up", "fin", "reset"}
    /\ wire \in Seq(Bytes) /\ sent \in Seq(Frames)
    /\ phase \in {"none", "head", "body", "stopped", "swallowed"}
    /\ data_ \in Seq(Bytes) /\ ready \in BOOLEAN
    /\ nodes \in Seq([id : Shorts, total_len_ : -1..MAX_LENGTH, body : Seq(Bytes)])
    /\ posted \in Seq(1..Len(nodes))
    /\ send_que_ \in Seq(1..MaxSends) /\ writing \in Seq(1..MaxSends)
    /\ accepted \in Seq(1..MaxSends) /\ out \in Seq(1..MaxSends)
    /\ written \in Nat /\ sends \in 0..MaxSends

(* What LogicSystem reads through the references posted to it. *)
Received == [i \in 1..Len(posted) |-> nodes[posted[i]]]

(* The frame that is being read, once its head is there. *)
Current == sent[Len(posted) + 1]

(* However the stream is cut up, the messages posted to LogicSystem are,   *)
(* and stay, exactly the first frames the peer sent, in order; and what is *)
(* read outgrows data_ only after a length of -1.                          *)
Reassembly ==
    /\ IsPrefix(Received, sent)
    /\ ~Intact => Len(posted) < Len(sent) /\ Current.total_len_ = -1

(* Outgoing messages reach the peer in the order Send took them, one write *)
(* at a time, from the front of a queue that keeps the buffer alive and    *)
(* never holds more than MAX_SENDQUE + 1 messages.                         *)
SendOrder ==
    /\ Len(writing) + written <= 1
    /\ \A i \in 1..Len(writing) : send_que_ # <<>> /\ writing[i] = Head(send_que_)
    /\ written > 0 => send_que_ # <<>>
    /\ accepted = out \o (IF written > 0 THEN Tail(send_que_) ELSE send_que_)
    /\ Len(send_que_) <= MAX_SENDQUE + 1

(* A session that reads no more has left sessions_, unless it was cleared  *)
(* between HandleAccept's Start() and its insertion, or its peer sent a    *)
(* length below -1.                                                        *)
StoppedIsCleared ==
    /\ phase = "stopped" /\ acc = "done" /\ ~early => ~registered
    /\ phase = "swallowed" => Len(posted) < Len(sent) /\ Current.total_len_ < -1

(* A session is a channel from its peer to LogicSystem, and one from the   *)
(* callers of Send to its peer: no handler changes a message that another  *)
(* thread may already be reading, and none is repeated or overtaken.       *)
Incoming == INSTANCE AbstractChannel WITH
    Messages <- Frames, given <- sent, taken <- Received
Outgoing == INSTANCE AbstractChannel WITH
    Messages <- 1..MaxSends, given <- accepted, taken <- out
ImplementsChannels == Incoming!Spec /\ Outgoing!Spec

(* Every frame the peer sent is posted, or the session stops reading, or   *)
(* the peer has sent a negative length.                                    *)
FramesArrive ==
    \A i \in 1..MaxFrames :
        Len(sent) >= i ~> \/ Len(posted) >= i \/ phase = "stopped"
                          \/ \E k \in 1..Len(sent) : k <= i /\ sent[k].total_len_ < 0

(* The peer leaves no write pending for ever. *)
PeerReads == []<>(writing = <<>>)

(* Every message Send has taken is written if the peer reads, or socket_   *)
(* is closed.                                                              *)
SendsFlushed ==
    PeerReads => \A i \in 1..MaxSends :
        Len(accepted) >= i ~> (Len(out) >= i \/ ~open \/ ~Intact)
=============================================================================
