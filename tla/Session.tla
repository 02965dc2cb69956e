------------------------------- MODULE Session -------------------------------
(***************************************************************************)
(* Connections between daemons (network/peer.h, message.h, socket.h) and   *)
(* the threads that work on them: a handler per accepted connection        *)
(* (HandleConnection), the poll loop (PollPeer), the mining loop, and      *)
(* --send processes (run_send_tx).  Sockets block and have no timeouts.    *)
(*                                                                         *)
(* A message is its command, cut into chunks: send() returns when a chunk  *)
(* is in the socket buffers, recv() when one is there.  What the messages  *)
(* carry is in Daemon.tla; here only the order of the calls matters, and   *)
(* whether the block of a poll extended the chain is left open.            *)
(*                                                                         *)
(* A thread on a connection is the list of the calls it has still to make. *)
(***************************************************************************)
EXTENDS Naturals, Sequences

CONSTANTS
  Nodes,        \* daemons
  Miners,       \* those with a mining loop
  KnownPeers,   \* known_peers_ of each node, in poll order
  Senders,      \* --send processes
  Target,       \* the daemon each of them connects to
  BUFFER,       \* chunks the socket buffers of one direction hold
  CHAIN_CHUNKS, \* chunks of a CHAIN message; the others have one
  MAX_CONNS     \* bound: connections at a time

ASSUME SessionAssumption ==
  /\ Nodes # {}
  /\ Miners \subseteq Nodes
  /\ KnownPeers \in [Nodes -> Seq(Nodes)]
  /\ Nodes \cap Senders = {}
  /\ Target \in [Senders -> Nodes]
  /\ {BUFFER, CHAIN_CHUNKS, MAX_CONNS} \subseteq Nat \ {0}

Conns == 1 .. MAX_CONNS
Ends  == Conns \X {"client", "server"}

NoOne  == <<0, "free">>    \* holds a free mutex
Mining == <<0, "mine">>    \* the mining loop as a holder
Nobody == CHOOSE n \in Nodes : TRUE  \* owns the ends of a free connection

VARIABLES
  status,   \* of a node: "up", "down", or "stalled"
  mutex,    \* who holds mutex_ of a node
  turn,     \* the known peer the poll loop of a node turns to next
  owner,    \* the process an end of a connection belongs to
  open,     \* whether that end is open
  todo,     \* the calls its thread has still to make
  sent,     \* chunks of the message being sent that are on their way
  buf,      \* chunks that have arrived for it
  payment   \* of a --send: "unsent", "begun", "sent", "handled" or "lost"

vars == <<status, mutex, turn, owner, open, todo, sent, buf, payment>>

-----------------------------------------------------------------------------
(***************************************************************************)
(* The calls of the threads.                                               *)
(***************************************************************************)
Send(command) == <<"send", command>>
Receive(command) == <<"receive", command>>
Lock   == <<"lock", "">>
Unlock == <<"unlock", "">>
Extend == <<"extend", "">>  \* try_extend_chain, then unlock
Accept == <<"accept", "">>  \* AcceptTransaction, then unlock
Serve  == <<"serve", "">>   \* receive a request

ClientHandshake == <<Send("version"), Receive("version"),
                     Send("verack"), Receive("verack")>>

\* Mistake: the mutex is kept while the peer's chain is requested.
PollPeerLocked ==
  ClientHandshake \o
  <<Receive("inv"), Send("getdata"), Receive("block"), Lock,
    Send("getblocks"), Receive("chain"), Unlock>>

PollPeer ==
  ClientHandshake \o
  <<Receive("inv"), Send("getdata"), Receive("block"), Lock, Extend,
    Send("getblocks"), Receive("chain"), Lock, Unlock>>

run_send_tx == ClientHandshake \o <<Send("tx")>>

\* Mistakes: INV overtakes VERACK; the handler stops after it.
HandleConnectionInvFirst ==
  <<Receive("version"), Send("version"), Lock, Send("inv"), Unlock,
    Receive("verack"), Send("verack"), Serve>>

HandleConnectionOnce ==
  <<Receive("version"), Send("version"), Receive("verack"), Send("verack"),
    Lock, Send("inv"), Unlock>>

HandleConnection ==
  <<Receive("version"), Send("version"), Receive("verack"), Send("verack"),
    Lock, Send("inv"), Unlock, Serve>>

(***************************************************************************)
(* What the handler does about a request; an unexpected command ends it.   *)
(***************************************************************************)
Answer(command) ==
  CASE command = "getdata"   -> <<Lock, Send("block"), Unlock, Serve>>
    [] command = "getblocks" -> <<Lock, Send("chain"), Unlock, Serve>>
    [] command = "tx"        -> <<Lock, Accept, Serve>>
    [] OTHER                 -> <<>>

Chunks(command) == IF command = "chain" THEN CHAIN_CHUNKS ELSE 1

-----------------------------------------------------------------------------
Init ==
  /\ status  = [n \in Nodes |-> "up"]
  /\ mutex   = [n \in Nodes |-> NoOne]
  /\ turn    = [n \in Nodes |-> 1]
  /\ owner   = [e \in Ends |-> Nobody]
  /\ open    = [e \in Ends |-> FALSE]
  /\ todo    = [e \in Ends |-> <<>>]
  /\ sent    = [e \in Ends |-> 0]
  /\ buf     = [e \in Ends |-> <<>>]
  /\ payment = [s \in Senders |-> "unsent"]

Peer(e) == <<e[1], IF e[2] = "client" THEN "server" ELSE "client">>

Running(e) ==
  open[e] /\ (IF owner[e] \in Senders THEN TRUE ELSE status[owner[e]] = "up")

Calls(e, call) == Running(e) /\ todo[e] # <<>> /\ Head(todo[e])[1] = call

Command(e) == Head(todo[e])[2]

\* Who owns the ends once open has its new value.
Owners(opened) ==
  [e \in Ends |-> IF opened[e] \/ opened[Peer(e)] THEN owner[e] ELSE Nobody]

Proceeds(e) == todo' = [todo EXCEPT ![e] = Tail(@)]
GivesUp(e)  == todo' = [todo EXCEPT ![e] = <<>>]

(***************************************************************************)
(* A reset of the connection may throw away what has arrived at e and was  *)
(* not read yet: this depends on the TCP implementation.                   *)
(***************************************************************************)
MayDiscard(e) ==
  \/ UNCHANGED <<buf, payment>>
  \/ /\ buf[e] # <<>>
     /\ buf' = [buf EXCEPT ![e] = <<>>]
     /\ payment' = [s \in Senders |->
          IF owner[Peer(e)] = s /\ payment[s] = "sent" /\ buf[e][1][1] = "tx"
          THEN "lost" ELSE payment[s]]

(***************************************************************************)
(* The process of n dies: its kernel closes its sockets, and what they     *)
(* have not read is gone.                                                  *)
(***************************************************************************)
Dies(n) ==
  LET Lost(e) == open[e] /\ owner[e] = n
  IN  /\ status' = [status EXCEPT ![n] = "down"]
      /\ mutex'  = [mutex EXCEPT ![n] = NoOne]
      /\ turn'   = [turn EXCEPT ![n] = 1]
      /\ open'   = [e \in Ends |-> open[e] /\ ~Lost(e)]
      /\ owner'  = Owners(open')
      /\ todo'   = [e \in Ends |-> IF Lost(e) THEN <<>> ELSE todo[e]]
      /\ sent'   = [e \in Ends |-> IF Lost(e) THEN 0 ELSE sent[e]]
      /\ buf'    = [e \in Ends |-> IF Lost(e) THEN <<>> ELSE buf[e]]
      /\ payment' = [s \in Senders |->
           IF /\ payment[s] = "sent"
              /\ \E e \in Ends : Lost(e) /\ owner[Peer(e)] = s
           THEN "lost" ELSE payment[s]]

(***************************************************************************)
(* send_all and recv_exact, a chunk at a time.  No caller looks at what    *)
(* Send returns: it goes on when the peer has closed the connection.  But  *)
(* send() is called without MSG_NOSIGNAL, and on a POSIX system it may     *)
(* raise SIGPIPE, which ends the whole daemon.                             *)
(***************************************************************************)
\* Mistake: sending never blocks.
SendChunkUnbounded(e) ==
  /\ Calls(e, "send")
  /\ open[Peer(e)]
  /\ buf' = [buf EXCEPT ![Peer(e)] = Append(@, <<Command(e), sent[e] + 1>>)]
  /\ IF sent[e] + 1 = Chunks(Command(e))
     THEN Proceeds(e) /\ sent' = [sent EXCEPT ![e] = 0]
     ELSE sent' = [sent EXCEPT ![e] = @ + 1] /\ UNCHANGED todo
  /\ UNCHANGED <<status, mutex, turn, owner, open, payment>>

SendChunk(e) ==
  /\ Calls(e, "send")
  /\ open[Peer(e)]
  /\ Len(buf[Peer(e)]) < BUFFER
  /\ buf' = [buf EXCEPT ![Peer(e)] = Append(@, <<Command(e), sent[e] + 1>>)]
  /\ IF sent[e] + 1 = Chunks(Command(e))
     THEN Proceeds(e) /\ sent' = [sent EXCEPT ![e] = 0]
     ELSE sent' = [sent EXCEPT ![e] = @ + 1] /\ UNCHANGED todo
  /\ payment' = [s \in Senders |->
       IF s = owner[e] /\ Command(e) = "tx" THEN "sent" ELSE payment[s]]
  /\ UNCHANGED <<status, mutex, turn, owner, open>>

SendFails(e) ==
  /\ Calls(e, "send")
  /\ ~open[Peer(e)]
  /\ MayDiscard(e)
  /\ Proceeds(e)
  /\ sent' = [sent EXCEPT ![e] = 0]
  /\ UNCHANGED <<status, mutex, turn, owner, open>>

BrokenPipe(e) ==
  /\ Calls(e, "send")
  /\ ~open[Peer(e)]
  /\ owner[e] \in Nodes
  /\ Dies(owner[e])

(***************************************************************************)
(* receive_message: a message is complete with its last chunk.  A thread   *)
(* that gets another command than it waits for gives the connection up.    *)
(***************************************************************************)
Waits(e) == Calls(e, "receive") \/ Calls(e, "serve")

Expects(e, command) ==
  IF Calls(e, "serve") THEN Answer(command) # <<>> ELSE command = Command(e)

ReceiveChunk(e) ==
  /\ Waits(e)
  /\ buf[e] # <<>>
  /\ buf' = [buf EXCEPT ![e] = Tail(@)]
  /\ LET command == Head(buf[e])[1]
     IN  IF Head(buf[e])[2] < Chunks(command) THEN UNCHANGED todo
         ELSE IF ~Expects(e, command) THEN GivesUp(e)
         ELSE IF Calls(e, "serve")
              THEN todo' = [todo EXCEPT ![e] = Answer(command)]
              ELSE Proceeds(e)
  /\ UNCHANGED <<status, mutex, turn, owner, open, sent, payment>>

\* The header of a CHAIN of more than MAX_PAYLOAD_SIZE bytes is refused.
RefuseChain(e) ==
  /\ Calls(e, "receive")
  /\ buf[e] # <<>>
  /\ Head(buf[e]) = <<"chain", 1>>
  /\ buf' = [buf EXCEPT ![e] = Tail(@)]
  /\ GivesUp(e)
  /\ UNCHANGED <<status, mutex, turn, owner, open, sent, payment>>

ReceiveFails(e) ==
  /\ Waits(e)
  /\ buf[e] = <<>>
  /\ ~open[Peer(e)]
  /\ GivesUp(e)
  /\ UNCHANGED <<status, mutex, turn, owner, open, sent, buf, payment>>

(***************************************************************************)
(* The critical sections of the handlers and of PollPeer.                  *)
(***************************************************************************)
TakeLock(e) ==
  /\ Calls(e, "lock")
  /\ mutex[owner[e]] = NoOne
  /\ mutex' = [mutex EXCEPT ![owner[e]] = e]
  /\ Proceeds(e)
  /\ UNCHANGED <<status, turn, owner, open, sent, buf, payment>>

ReleaseLock(e) ==
  /\ Calls(e, "unlock") \/ Calls(e, "extend") \/ Calls(e, "accept")
  /\ mutex' = [mutex EXCEPT ![owner[e]] = NoOne]
  /\ Proceeds(e) \/ (Calls(e, "extend") /\ GivesUp(e))
  /\ payment' = [s \in Senders |->
       IF Calls(e, "accept") /\ owner[Peer(e)] = s THEN "handled" ELSE payment[s]]
  /\ UNCHANGED <<status, turn, owner, open, sent, buf>>

(***************************************************************************)
(* The thread returns and ~Peer closes the socket, with a reset if there   *)
(* is something unread.  PeerPollLoop turns to its next peer.              *)
(***************************************************************************)
NextTurn(n) == turn' = [turn EXCEPT ![n] = (@ % Len(KnownPeers[n])) + 1]

Close(e) ==
  /\ Running(e)
  /\ todo[e] = <<>>
  /\ open'  = [open EXCEPT ![e] = FALSE]
  /\ owner' = Owners(open')
  /\ IF buf[e] = <<>>
     THEN UNCHANGED <<buf, payment>>
     ELSE \E lost \in BOOLEAN :
            /\ buf' = [buf EXCEPT ![e] = <<>>,
                                  ![Peer(e)] = IF lost THEN <<>> ELSE @]
            /\ payment' = [s \in Senders |->
                 IF lost /\ owner[e] = s /\ buf[Peer(e)] # <<>>
                 THEN "lost" ELSE payment[s]]
  /\ IF e[2] = "client" /\ owner[e] \in Nodes
     THEN NextTurn(owner[e]) ELSE UNCHANGED turn
  /\ UNCHANGED <<status, mutex, todo, sent>>

-----------------------------------------------------------------------------
(***************************************************************************)
(* connect_to, and at the other end accept_connection with a new handler.  *)
(* The kernel of a stalled process still completes the connection.  A      *)
(* --send that cannot connect ends with an error; it is not modelled.      *)
(***************************************************************************)
Free(k) == ~open[<<k, "client">>] /\ ~open[<<k, "server">>]

Open(k, client, server, calls) ==
  /\ Free(k)
  /\ \A j \in 1 .. k - 1 : ~Free(j)
  /\ LET New(f, c, s) == [f EXCEPT ![<<k, "client">>] = c, ![<<k, "server">>] = s]
     IN  /\ owner' = New(owner, client, server)
         /\ open'  = New(open, TRUE, TRUE)
         /\ todo'  = New(todo, calls, HandleConnection)
         /\ sent'  = New(sent, 0, 0)
         /\ buf'   = New(buf, <<>>, <<>>)

Polling(n) == \E k \in Conns : open[<<k, "client">>] /\ owner[<<k, "client">>] = n

Connect(n) ==
  /\ status[n] = "up"
  /\ KnownPeers[n] # <<>>
  /\ ~Polling(n)
  /\ LET peer == KnownPeers[n][turn[n]]
     IN  IF status[peer] = "down"
         THEN NextTurn(n) /\ UNCHANGED <<owner, open, todo, sent, buf>>
         ELSE (\E k \in Conns : Open(k, n, peer, PollPeer)) /\ UNCHANGED turn
  /\ UNCHANGED <<status, mutex, payment>>

Pay(s) ==
  /\ payment[s] = "unsent"
  /\ status[Target[s]] # "down"
  /\ \E k \in Conns : Open(k, s, Target[s], run_send_tx)
  /\ payment' = [payment EXCEPT ![s] = "begun"]
  /\ UNCHANGED <<status, mutex, turn>>

(***************************************************************************)
(* MiningLoop holds the mutex while it mines.                              *)
(***************************************************************************)
MineBegins(n) ==
  /\ n \in Miners
  /\ status[n] = "up"
  /\ mutex[n] = NoOne
  /\ mutex' = [mutex EXCEPT ![n] = Mining]
  /\ UNCHANGED <<status, turn, owner, open, todo, sent, buf, payment>>

MineEnds(n) ==
  /\ status[n] = "up"
  /\ mutex[n] = Mining
  /\ mutex' = [mutex EXCEPT ![n] = NoOne]
  /\ UNCHANGED <<status, turn, owner, open, todo, sent, buf, payment>>

-----------------------------------------------------------------------------
(***************************************************************************)
(* A process dies, of itself, and is started again.  A process stalls: a   *)
(* suspended or hung machine, whose kernel keeps the sockets.              *)
(***************************************************************************)
Crash(n) ==
  /\ status[n] = "up"
  /\ Dies(n)

Start(n) ==
  /\ status[n] = "down"
  /\ status' = [status EXCEPT ![n] = "up"]
  /\ UNCHANGED <<mutex, turn, owner, open, todo, sent, buf, payment>>

Stall(n) ==
  /\ status[n] = "up"
  /\ \A m \in Nodes : status[m] # "stalled"
  /\ status' = [status EXCEPT ![n] = "stalled"]
  /\ UNCHANGED <<mutex, turn, owner, open, todo, sent, buf, payment>>

-----------------------------------------------------------------------------
Step(e) ==
  \/ SendChunk(e) \/ SendFails(e) \/ BrokenPipe(e)
  \/ ReceiveChunk(e) \/ RefuseChain(e) \/ ReceiveFails(e)
  \/ TakeLock(e) \/ ReleaseLock(e)
  \/ Close(e)

Next ==
  \/ \E e \in Ends : Step(e)
  \/ \E s \in Senders : Pay(s)
  \/ \E n \in Nodes : \/ Connect(n)
                      \/ MineBegins(n) \/ MineEnds(n)
                      \/ Crash(n) \/ Start(n)

Spec == Init /\ [][Next]_vars

(***************************************************************************)
(* Every running thread goes on.  Strong fairness of a thread that waits   *)
(* for the mutex: the loops that take it sleep DAEMON_CYCLE_SECONDS        *)
(* between two rounds, so it is free for seconds again and again.  Nobody  *)
(* is obliged to pay or to mine, and processes need not die.  In SlowSpec  *)
(* one process may stall.                                                  *)
(***************************************************************************)
Fairness ==
  /\ \A e \in Ends : SF_vars(Step(e))
  /\ \A n \in Nodes : /\ WF_vars(Connect(n))
                      /\ WF_vars(MineEnds(n))
                      /\ WF_vars(Start(n))

FairSpec == Spec /\ Fairness

SlowSpec == Init /\ [][Next \/ \E n \in Nodes : Stall(n)]_vars /\ Fairness

-----------------------------------------------------------------------------
(***************************************************************************)
(* Type correctness.                                                       *)
(***************************************************************************)
TypeOK ==
  /\ status \in [Nodes -> {"up", "down", "stalled"}]
  /\ mutex \in [Nodes -> Ends \cup {NoOne, Mining}]
  /\ owner \in [Ends -> Nodes \cup Senders]
  /\ open \in [Ends -> BOOLEAN]
  /\ \A e \in Ends : /\ Len(buf[e]) <= BUFFER
                     /\ sent[e] < CHAIN_CHUNKS
  /\ payment \in [Senders -> {"unsent", "begun", "sent", "handled", "lost"}]

(***************************************************************************)
(* Between nodes of this program no end of a connection ever meets a       *)
(* command it does not expect: the branches of HandleConnection and        *)
(* PollPeer that drop a connection for it are never taken, whatever dies   *)
(* or is delayed.                                                          *)
(***************************************************************************)
CommandsExpected ==
  \A e \in Ends : Waits(e) /\ buf[e] # <<>> => Expects(e, Head(buf[e])[1])

(***************************************************************************)
(* Nobody waits for ever: every connection is closed at both ends at some  *)
(* time, so every poll ends and no handler thread is left behind, although *)
(* nodes poll each other and answers are sent with the mutex held, and     *)
(* whoever dies in the middle of it.                                       *)
(***************************************************************************)
SessionsEnd == \A k \in Conns : ~Free(k) ~> Free(k)

(***************************************************************************)
(* A payment run_send_tx has sent reaches AcceptTransaction, unless the    *)
(* daemon dies or the connection is reset because the INV was not read.    *)
(***************************************************************************)
PaymentsHandled ==
  \A s \in Senders :
    payment[s] = "sent" ~> payment[s] \in {"handled", "lost"}

(***************************************************************************)
(* AcceptLoop: "one slow or misbehaving peer can never block the others    *)
(* (or the mining/poll loops)": a running node's mutex is free again and   *)
(* again.                                                                  *)
(***************************************************************************)
SlowPeerBlocksNobody ==
  \A n \in Nodes : []<>(mutex[n] = NoOne \/ status[n] # "up")
=============================================================================
