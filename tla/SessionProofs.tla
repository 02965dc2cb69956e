--------------------------- MODULE SessionProofs ---------------------------
(***************************************************************************)
(* Connections between any number of daemons and --send processes, with    *)
(* buffers and messages of any length.                                     *)
(***************************************************************************)
EXTENDS Session, SequenceTheorems, TLAPS

-----------------------------------------------------------------------------
(***************************************************************************)
(* The conversation of a connection, as it goes when nothing fails: the    *)
(* calls each side makes, one after the other, and the chunks each side    *)
(* gets.  A handler's calls are those of HandleConnection followed by what *)
(* it does about each request.                                             *)
(***************************************************************************)
Commands ==
  {"version", "verack", "inv", "getdata", "block", "getblocks", "chain", "tx"}

Acts ==
  {"send", "receive", "lock", "unlock", "extend", "accept", "serve"}
    \X (Commands \cup {""})

Roles == {"poll", "pay", "answerPoll", "answerPay"}

Partner(role) ==
  IF role = "poll" THEN "answerPoll"
  ELSE IF role = "answerPoll" THEN "poll"
  ELSE IF role = "pay" THEN "answerPay" ELSE "pay"

ServeAPoll ==
  <<Receive("version"), Send("version"), Receive("verack"), Send("verack"),
    Lock, Send("inv"), Unlock, Serve,
    Lock, Send("block"), Unlock, Serve, Lock, Send("chain"), Unlock, Serve>>

ServeAPayment ==
  <<Receive("version"), Send("version"), Receive("verack"), Send("verack"),
    Lock, Send("inv"), Unlock, Serve, Lock, Accept, Serve>>

Script(role) ==
  IF role = "poll" THEN PollPeer
  ELSE IF role = "pay" THEN run_send_tx
  ELSE IF role = "answerPoll" THEN ServeAPoll ELSE ServeAPayment

CallCount(role) ==
  IF role = "poll" THEN 13 ELSE IF role = "pay" THEN 5
  ELSE IF role = "answerPoll" THEN 16 ELSE 11

\* The call that follows p calls.
Call(role, p) == Script(role)[p + 1]

(***************************************************************************)
(* A handler knows of its calls up to the next request, any other thread   *)
(* of all of them.                                                         *)
(***************************************************************************)
Pause(role, p) ==
  IF role \in {"answerPoll", "answerPay"} /\ p < 8 THEN 8
  ELSE IF role = "answerPoll" /\ p < 12 THEN 12
  ELSE CallCount(role)

Todo(role, p) == SubSeq(Script(role), p + 1, Pause(role, p))

\* Chunks sent, and read, in the first p calls.
Past(p, call, chunks) == IF p >= call THEN chunks ELSE 0

Sends(role, p) ==
  IF role = "poll"
  THEN Past(p, 1, 1) + Past(p, 3, 1) + Past(p, 6, 1) + Past(p, 10, 1)
  ELSE IF role = "pay"
  THEN Past(p, 1, 1) + Past(p, 3, 1) + Past(p, 5, 1)
  ELSE IF role = "answerPoll"
  THEN Past(p, 2, 1) + Past(p, 4, 1) + Past(p, 6, 1) + Past(p, 10, 1)
       + Past(p, 14, CHAIN_CHUNKS)
  ELSE Past(p, 2, 1) + Past(p, 4, 1) + Past(p, 6, 1)

Reads(role, p) ==
  IF role = "poll"
  THEN Past(p, 2, 1) + Past(p, 4, 1) + Past(p, 5, 1) + Past(p, 7, 1)
       + Past(p, 11, CHAIN_CHUNKS)
  ELSE IF role = "pay"
  THEN Past(p, 2, 1) + Past(p, 4, 1)
  ELSE IF role = "answerPoll"
  THEN Past(p, 1, 1) + Past(p, 3, 1) + Past(p, 8, 1) + Past(p, 12, 1)
  ELSE Past(p, 1, 1) + Past(p, 3, 1) + Past(p, 8, 1)

\* Chunks an end gets, and the n-th of them.
Total(role) ==
  IF role = "poll" THEN 4 + CHAIN_CHUNKS ELSE IF role = "answerPoll" THEN 4 ELSE 3

Chunk(role, n) ==
  IF n = 1 THEN <<"version", 1>> ELSE IF n = 2 THEN <<"verack", 1>>
  ELSE IF role \in {"poll", "pay"}
       THEN IF n = 3 THEN <<"inv", 1>> ELSE IF n = 4 THEN <<"block", 1>>
            ELSE <<"chain", n - 4>>
       ELSE IF n > 3 THEN <<"getblocks", 1>>
            ELSE IF role = "answerPay" THEN <<"tx", 1>> ELSE <<"getdata", 1>>

-----------------------------------------------------------------------------
(***************************************************************************)
(* The invariant.  An end that has made p calls and read r chunks finds in *)
(* its buffer the chunks that follow; and as long as both ends are at      *)
(* work, all that one has sent and the other has not read is there.        *)
(***************************************************************************)
Reading(role, p, r) ==
  IF Call(role, p)[1] = "receive"
  THEN r \in Reads(role, p) .. Reads(role, p) + Chunks(Call(role, p)[2]) - 1
  ELSE r = Reads(role, p)

Follows(role, chunks, r) ==
  /\ r + Len(chunks) <= Total(role)
  /\ \A x \in 1 .. Len(chunks) : chunks[x] = Chunk(role, r + x)

At(role, calls, chunks, p, r) ==
  calls # <<>> =>
    /\ p < CallCount(role)
    /\ calls = Todo(role, p)
    /\ Reading(role, p, r)
    /\ Follows(role, chunks, r)

Talking(role, calls, chunks, begun, calls2, chunks2, begun2) ==
  \E p, q, r, u \in Nat :
    /\ At(role, calls, chunks, p, r)
    /\ At(Partner(role), calls2, chunks2, q, u)
    /\ calls # <<>> /\ calls2 # <<>> =>
         /\ Len(chunks) = Sends(Partner(role), q) + begun2 - r
         /\ Len(chunks2) = Sends(role, p) + begun - u

Role(e) ==
  IF owner[<<e[1], "client">>] \in Senders
  THEN IF e[2] = "client" THEN "pay" ELSE "answerPay"
  ELSE IF e[2] = "client" THEN "poll" ELSE "answerPoll"

Talk(e) ==
  Talking(Role(e), todo[e], buf[e], sent[e], todo[Peer(e)], buf[Peer(e)], sent[Peer(e)])

Begun(e) ==
  /\ todo[e] # <<>> => open[e]
  /\ IF todo[e] # <<>> /\ Head(todo[e])[1] = "send"
     THEN sent[e] \in 0 .. Chunks(Head(todo[e])[2]) - 1
     ELSE sent[e] = 0

SessionInv ==
  /\ TypeOK
  /\ \A n \in Nodes : KnownPeers[n] # <<>> => turn[n] \in 1 .. Len(KnownPeers[n])
  /\ turn = [n \in Nodes |-> turn[n]]
  /\ todo \in [Ends -> Seq(Acts)]
  /\ sent \in [Ends -> Nat]
  /\ buf \in [Ends -> Seq(Commands \X Nat)]
  /\ \A e \in Ends : Begun(e)
  /\ \A e \in Ends : Talk(e)

-----------------------------------------------------------------------------
(***************************************************************************)
(* The scripts, call by call.                                              *)
(***************************************************************************)
LEMMA SubSeqStep ==
  ASSUME NEW S, NEW s \in Seq(S), NEW p \in Nat, NEW m \in Nat, p < m, m <= Len(s)
  PROVE  /\ SubSeq(s, p + 1, m) # <<>>
         /\ Head(SubSeq(s, p + 1, m)) = s[p + 1]
         /\ Tail(SubSeq(s, p + 1, m)) = SubSeq(s, p + 2, m)
         /\ p + 1 = m => Tail(SubSeq(s, p + 1, m)) = <<>>
  OBVIOUS


LEMMA ConcatSeq ==
  ASSUME NEW a \in Seq(Acts), NEW b \in Seq(Acts)
  PROVE  a \o b \in Seq(Acts)
  OBVIOUS

LEMMA CallsAreActs ==
  /\ \A c \in Commands : Send(c) \in Acts /\ Receive(c) \in Acts
  /\ Lock \in Acts /\ Unlock \in Acts /\ Extend \in Acts /\ Accept \in Acts
  /\ Serve \in Acts
  BY DEF Acts, Send, Receive, Lock, Unlock, Extend, Accept, Serve

LEMMA CommandNames ==
  /\ "version" \in Commands /\ "verack" \in Commands /\ "inv" \in Commands
  /\ "getdata" \in Commands /\ "block" \in Commands /\ "getblocks" \in Commands
  /\ "chain" \in Commands /\ "tx" \in Commands
  BY DEF Commands

LEMMA PollScript ==
  ASSUME NEW s, s = PollPeer
  PROVE  /\ s \in Seq(Acts) /\ Len(s) = 13
         /\ s[1] = Send("version") /\ s[2] = Receive("version")
         /\ s[3] = Send("verack") /\ s[4] = Receive("verack")
         /\ s[5] = Receive("inv") /\ s[6] = Send("getdata") /\ s[7] = Receive("block")
         /\ s[8] = Lock /\ s[9] = Extend /\ s[10] = Send("getblocks")
         /\ s[11] = Receive("chain") /\ s[12] = Lock /\ s[13] = Unlock
<1>1. s = ClientHandshake \o
            <<Receive("inv"), Send("getdata"), Receive("block"), Lock, Extend,
              Send("getblocks"), Receive("chain"), Lock, Unlock>>
  BY DEF PollPeer
<1>2. ClientHandshake \in Seq(Acts)
  BY CallsAreActs, CommandNames DEF ClientHandshake
<1>3. <<Receive("inv"), Send("getdata"), Receive("block"), Lock, Extend,
        Send("getblocks"), Receive("chain"), Lock, Unlock>> \in Seq(Acts)
  BY CallsAreActs, CommandNames
<1>4. s \in Seq(Acts)
  BY <1>1, <1>2, <1>3, ConcatSeq, Zenon
<1>5. Len(s) = 13
  BY DEF PollPeer, ClientHandshake
<1> QED
  BY <1>4, <1>5 DEF PollPeer, ClientHandshake

LEMMA PayScript ==
  ASSUME NEW s, s = run_send_tx
  PROVE  /\ s \in Seq(Acts) /\ Len(s) = 5
         /\ s[1] = Send("version") /\ s[2] = Receive("version")
         /\ s[3] = Send("verack") /\ s[4] = Receive("verack") /\ s[5] = Send("tx")
<1>1. s = ClientHandshake \o <<Send("tx")>>
  BY DEF run_send_tx
<1>2. ClientHandshake \in Seq(Acts)
  BY CallsAreActs, CommandNames DEF ClientHandshake
<1>3. <<Send("tx")>> \in Seq(Acts)
  BY CallsAreActs, CommandNames
<1>4. s \in Seq(Acts)
  BY <1>1, <1>2, <1>3, ConcatSeq, Zenon
<1>5. Len(s) = 5
  BY DEF run_send_tx, ClientHandshake
<1> QED
  BY <1>4, <1>5 DEF run_send_tx, ClientHandshake

LEMMA ServePayScript ==
  ASSUME NEW s, s = ServeAPayment
  PROVE  /\ s \in Seq(Acts) /\ Len(s) = 11
         /\ s[1] = Receive("version") /\ s[2] = Send("version")
         /\ s[3] = Receive("verack") /\ s[4] = Send("verack")
         /\ s[5] = Lock /\ s[6] = Send("inv") /\ s[7] = Unlock /\ s[8] = Serve
         /\ s[9] = Lock /\ s[10] = Accept /\ s[11] = Serve
<1>2. s \in Seq(Acts) /\ Len(s) = 11
  BY CallsAreActs, CommandNames DEF ServeAPayment
<1> QED
  BY <1>2 DEF ServeAPayment

LEMMA ServePollScript ==
  ASSUME NEW s, s = ServeAPoll
  PROVE  /\ s \in Seq(Acts) /\ Len(s) = 16
         /\ s[1] = Receive("version") /\ s[2] = Send("version")
         /\ s[3] = Receive("verack") /\ s[4] = Send("verack")
         /\ s[5] = Lock /\ s[6] = Send("inv") /\ s[7] = Unlock /\ s[8] = Serve
         /\ s[9] = Lock /\ s[10] = Send("block") /\ s[11] = Unlock /\ s[12] = Serve
         /\ s[13] = Lock /\ s[14] = Send("chain") /\ s[15] = Unlock /\ s[16] = Serve
<1>2. s \in Seq(Acts) /\ Len(s) = 16
  BY CallsAreActs, CommandNames DEF ServeAPoll
<1> QED
  BY <1>2 DEF ServeAPoll

\* A call's two parts.
LEMMA CallParts ==
  /\ \A c : Send(c)[1] = "send" /\ Send(c)[2] = c
  /\ \A c : Receive(c)[1] = "receive" /\ Receive(c)[2] = c
  /\ Lock[1] = "lock" /\ Unlock[1] = "unlock" /\ Extend[1] = "extend"
  /\ Accept[1] = "accept" /\ Serve[1] = "serve"
  BY DEF Send, Receive, Lock, Unlock, Extend, Accept, Serve

LEMMA ChunkCounts ==
  /\ CHAIN_CHUNKS \in Nat /\ CHAIN_CHUNKS >= 1
  /\ \A c : Chunks(c) \in Nat /\ Chunks(c) >= 1 /\ Chunks(c) <= CHAIN_CHUNKS
  /\ Chunks("chain") = CHAIN_CHUNKS
  /\ Chunks("version") = 1 /\ Chunks("verack") = 1 /\ Chunks("inv") = 1
  /\ Chunks("getdata") = 1 /\ Chunks("block") = 1 /\ Chunks("getblocks") = 1
  /\ Chunks("tx") = 1
  BY SessionAssumption DEF Chunks

LEMMA ScriptSeq ==
  ASSUME NEW role \in Roles
  PROVE  Script(role) \in Seq(Acts) /\ Len(Script(role)) = CallCount(role)
<1>1. CASE role = "poll"
  BY <1>1, PollScript DEF Script, CallCount
<1>2. CASE role = "pay"
  BY <1>2, PayScript DEF Script, CallCount
<1>3. CASE role = "answerPoll"
  BY <1>3, ServePollScript DEF Script, CallCount
<1>4. CASE role = "answerPay"
  BY <1>4, ServePayScript DEF Script, CallCount
<1> QED
  BY <1>1, <1>2, <1>3, <1>4 DEF Roles

LEMMA RoleFacts ==
  ASSUME NEW role \in Roles
  PROVE  /\ Partner(role) \in Roles /\ Partner(Partner(role)) = role
         /\ CallCount(role) \in Nat /\ CallCount(role) > 0
         /\ Total(role) \in Nat
<1>1. Partner(role) \in Roles /\ Partner(Partner(role)) = role
  BY DEF Roles, Partner
<1>2. /\ CallCount(role) \in Nat /\ CallCount(role) > 0
      /\ Total(role) \in Nat
  BY ChunkCounts DEF Roles, CallCount, Total
<1> QED
  BY <1>1, <1>2

LEMMA CountFacts ==
  ASSUME NEW role \in Roles, NEW p \in Nat
  PROVE  Sends(role, p) \in Nat /\ Reads(role, p) \in Nat
  BY ChunkCounts DEF Roles, Sends, Reads, Past

LEMMA PauseFacts ==
  ASSUME NEW role \in Roles, NEW p \in Nat, p < CallCount(role)
  PROVE  /\ Pause(role, p) \in Nat /\ p < Pause(role, p)
         /\ Pause(role, p) <= CallCount(role)
  BY DEF Roles, CallCount, Pause

\* Of a list of calls the first is Call, and the rest is the list of the next.
LEMMA TodoFacts ==
  ASSUME NEW role \in Roles, NEW p \in Nat, p < CallCount(role)
  PROVE  /\ Todo(role, p) # <<>> /\ Todo(role, p) \in Seq(Acts)
         /\ Head(Todo(role, p)) = Call(role, p)
         /\ p + 1 = Pause(role, p) => Tail(Todo(role, p)) = <<>>
         /\ p + 1 < Pause(role, p) =>
              Tail(Todo(role, p)) = SubSeq(Script(role), p + 2, Pause(role, p))
<1>1. PICK s : s = Script(role)
  OBVIOUS
<1>2. PICK m : m = Pause(role, p)
  OBVIOUS
<1>3. s \in Seq(Acts) /\ m \in Nat /\ p < m /\ m <= Len(s)
  BY <1>1, <1>2, ScriptSeq, PauseFacts
<1>4. SubSeq(s, p + 1, m) \in Seq(Acts)
  BY <1>3
<1>5. /\ SubSeq(s, p + 1, m) # <<>>
      /\ Head(SubSeq(s, p + 1, m)) = s[p + 1]
      /\ Tail(SubSeq(s, p + 1, m)) = SubSeq(s, p + 2, m)
      /\ p + 1 = m => Tail(SubSeq(s, p + 1, m)) = <<>>
  BY <1>3, SubSeqStep
<1> QED
  BY <1>1, <1>2, <1>4, <1>5 DEF Todo, Call

(***************************************************************************)
(* What the next call does to the counts of chunks.                        *)
(***************************************************************************)
Counts(role, p, call) ==
  /\ call[1] = "send" =>
       /\ Sends(role, p + 1) = Sends(role, p) + Chunks(call[2])
       /\ Sends(role, p + 1) <= Total(Partner(role))
       /\ call[2] \in Commands
       /\ \A j \in 1 .. Chunks(call[2]) :
            Chunk(Partner(role), Sends(role, p) + j) = <<call[2], j>>
  /\ call[1] # "send" => Sends(role, p + 1) = Sends(role, p)
  /\ call[1] = "receive" =>
       /\ Reads(role, p + 1) = Reads(role, p) + Chunks(call[2])
       /\ \A j \in 1 .. Chunks(call[2]) :
            Chunk(role, Reads(role, p) + j) = <<call[2], j>>
  /\ call[1] \notin {"receive", "serve"} => Reads(role, p + 1) = Reads(role, p)
  /\ call[1] = "serve" => \/ role = "answerPoll" /\ p \in {7, 11, 15}
                          \/ role = "answerPay" /\ p \in {7, 10}
  /\ call[1] # "serve" => p + 1 = CallCount(role) \/ Pause(role, p + 1) = Pause(role, p)

LEMMA PollCounts ==
  ASSUME NEW p \in Nat, p < 13
  PROVE  Counts("poll", p, PollPeer[p + 1])
<1>1. \A n \in Nat : Sends("poll", n) =
            IF n >= 10 THEN 4 ELSE IF n >= 6 THEN 3
            ELSE IF n >= 3 THEN 2 ELSE IF n >= 1 THEN 1 ELSE 0
  BY ChunkCounts DEF Sends, Past
<1>2. \A n \in Nat : Reads("poll", n) =
            IF n >= 11 THEN 4 + CHAIN_CHUNKS ELSE IF n >= 7 THEN 4
            ELSE IF n >= 5 THEN 3 ELSE IF n >= 4 THEN 2 ELSE IF n >= 2 THEN 1 ELSE 0
  BY ChunkCounts DEF Reads, Past
<1>3. /\ Partner("poll") = "answerPoll" /\ Total("answerPoll") = 4
      /\ \A n \in Nat : Pause("poll", n) = 13
      /\ CallCount("poll") = 13
  BY DEF Partner, Total, Pause, CallCount
<1>4. /\ p = 0 => Counts("poll", p, Send("version"))
      /\ p = 1 => Counts("poll", p, Receive("version"))
      /\ p = 2 => Counts("poll", p, Send("verack"))
      /\ p = 3 => Counts("poll", p, Receive("verack"))
  BY <1>1, <1>2, <1>3, CallParts, ChunkCounts DEF Counts, Chunk, Commands
<1>5. /\ p = 0 => PollPeer[p + 1] = Send("version")
      /\ p = 1 => PollPeer[p + 1] = Receive("version")
      /\ p = 2 => PollPeer[p + 1] = Send("verack")
      /\ p = 3 => PollPeer[p + 1] = Receive("verack")
  BY PollScript
<1>6. p = 0 \/ p = 1 \/ p = 2 \/ p = 3 => Counts("poll", p, PollPeer[p + 1])
  BY <1>4, <1>5, Zenon
<1>7. /\ p = 4 => Counts("poll", p, Receive("inv"))
      /\ p = 5 => Counts("poll", p, Send("getdata"))
      /\ p = 6 => Counts("poll", p, Receive("block"))
      /\ p = 7 => Counts("poll", p, Lock)
  BY <1>1, <1>2, <1>3, CallParts, ChunkCounts DEF Counts, Chunk, Commands
<1>8. /\ p = 4 => PollPeer[p + 1] = Receive("inv")
      /\ p = 5 => PollPeer[p + 1] = Send("getdata")
      /\ p = 6 => PollPeer[p + 1] = Receive("block")
      /\ p = 7 => PollPeer[p + 1] = Lock
  BY PollScript
<1>9. p = 4 \/ p = 5 \/ p = 6 \/ p = 7 => Counts("poll", p, PollPeer[p + 1])
  BY <1>7, <1>8, Zenon
<1>10. /\ p = 8 => Counts("poll", p, Extend)
       /\ p = 9 => Counts("poll", p, Send("getblocks"))
       /\ p = 10 => Counts("poll", p, Receive("chain"))
       /\ p = 11 => Counts("poll", p, Lock)
  BY <1>1, <1>2, <1>3, CallParts, ChunkCounts DEF Counts, Chunk, Commands
<1>11. /\ p = 8 => PollPeer[p + 1] = Extend
       /\ p = 9 => PollPeer[p + 1] = Send("getblocks")
       /\ p = 10 => PollPeer[p + 1] = Receive("chain")
       /\ p = 11 => PollPeer[p + 1] = Lock
  BY PollScript
<1>12. p = 8 \/ p = 9 \/ p = 10 \/ p = 11 => Counts("poll", p, PollPeer[p + 1])
  BY <1>10, <1>11, Zenon
<1>13. /\ p = 12 => Counts("poll", p, Unlock)
  BY <1>1, <1>2, <1>3, CallParts, ChunkCounts DEF Counts, Chunk, Commands
<1>14. /\ p = 12 => PollPeer[p + 1] = Unlock
  BY PollScript
<1>15. p = 12 => Counts("poll", p, PollPeer[p + 1])
  BY <1>13, <1>14, Zenon
<1> QED
  BY <1>6, <1>9, <1>12, <1>15

LEMMA PayCounts ==
  ASSUME NEW p \in Nat, p < 5
  PROVE  Counts("pay", p, run_send_tx[p + 1])
<1>1. \A n \in Nat : Sends("pay", n) =
            IF n >= 5 THEN 3 ELSE IF n >= 3 THEN 2 ELSE IF n >= 1 THEN 1 ELSE 0
  BY ChunkCounts DEF Sends, Past
<1>2. \A n \in Nat : Reads("pay", n) =
            IF n >= 4 THEN 2 ELSE IF n >= 2 THEN 1 ELSE 0
  BY ChunkCounts DEF Reads, Past
<1>3. /\ Partner("pay") = "answerPay" /\ Total("answerPay") = 3
      /\ \A n \in Nat : Pause("pay", n) = 5
      /\ CallCount("pay") = 5
  BY DEF Partner, Total, Pause, CallCount
<1>4. /\ p = 0 => Counts("pay", p, Send("version"))
      /\ p = 1 => Counts("pay", p, Receive("version"))
      /\ p = 2 => Counts("pay", p, Send("verack"))
      /\ p = 3 => Counts("pay", p, Receive("verack"))
  BY <1>1, <1>2, <1>3, CallParts, ChunkCounts DEF Counts, Chunk, Commands
<1>5. /\ p = 0 => run_send_tx[p + 1] = Send("version")
      /\ p = 1 => run_send_tx[p + 1] = Receive("version")
      /\ p = 2 => run_send_tx[p + 1] = Send("verack")
      /\ p = 3 => run_send_tx[p + 1] = Receive("verack")
  BY PayScript
<1>6. p = 0 \/ p = 1 \/ p = 2 \/ p = 3 => Counts("pay", p, run_send_tx[p + 1])
  BY <1>4, <1>5, Zenon
<1>7. /\ p = 4 => Counts("pay", p, Send("tx"))
  BY <1>1, <1>2, <1>3, CallParts, ChunkCounts DEF Counts, Chunk, Commands
<1>8. /\ p = 4 => run_send_tx[p + 1] = Send("tx")
  BY PayScript
<1>9. p = 4 => Counts("pay", p, run_send_tx[p + 1])
  BY <1>7, <1>8, Zenon
<1> QED
  BY <1>6, <1>9

LEMMA AnswerPollCounts ==
  ASSUME NEW p \in Nat, p < 16
  PROVE  Counts("answerPoll", p, ServeAPoll[p + 1])
<1>1. \A n \in Nat : Sends("answerPoll", n) =
            IF n >= 14 THEN 4 + CHAIN_CHUNKS ELSE IF n >= 10 THEN 4
            ELSE IF n >= 6 THEN 3 ELSE IF n >= 4 THEN 2 ELSE IF n >= 2 THEN 1 ELSE 0
  BY ChunkCounts DEF Sends, Past
<1>2. \A n \in Nat : Reads("answerPoll", n) =
            IF n >= 12 THEN 4 ELSE IF n >= 8 THEN 3
            ELSE IF n >= 3 THEN 2 ELSE IF n >= 1 THEN 1 ELSE 0
  BY ChunkCounts DEF Reads, Past
<1>3. /\ Partner("answerPoll") = "poll" /\ Total("poll") = 4 + CHAIN_CHUNKS
      /\ \A n \in Nat : Pause("answerPoll", n) = IF n < 8 THEN 8 ELSE IF n < 12 THEN 12 ELSE 16
      /\ CallCount("answerPoll") = 16
  BY DEF Partner, Total, Pause, CallCount
<1>4. /\ p = 0 => Counts("answerPoll", p, Receive("version"))
      /\ p = 1 => Counts("answerPoll", p, Send("version"))
      /\ p = 2 => Counts("answerPoll", p, Receive("verack"))
      /\ p = 3 => Counts("answerPoll", p, Send("verack"))
  BY <1>1, <1>2, <1>3, CallParts, ChunkCounts DEF Counts, Chunk, Commands
<1>5. /\ p = 0 => ServeAPoll[p + 1] = Receive("version")
      /\ p = 1 => ServeAPoll[p + 1] = Send("version")
      /\ p = 2 => ServeAPoll[p + 1] = Receive("verack")
      /\ p = 3 => ServeAPoll[p + 1] = Send("verack")
  BY ServePollScript
<1>6. p = 0 \/ p = 1 \/ p = 2 \/ p = 3 => Counts("answerPoll", p, ServeAPoll[p + 1])
  BY <1>4, <1>5, Zenon
<1>7. /\ p = 4 => Counts("answerPoll", p, Lock)
      /\ p = 5 => Counts("answerPoll", p, Send("inv"))
      /\ p = 6 => Counts("answerPoll", p, Unlock)
      /\ p = 7 => Counts("answerPoll", p, Serve)
  BY <1>1, <1>2, <1>3, CallParts, ChunkCounts DEF Counts, Chunk, Commands
<1>8. /\ p = 4 => ServeAPoll[p + 1] = Lock
      /\ p = 5 => ServeAPoll[p + 1] = Send("inv")
      /\ p = 6 => ServeAPoll[p + 1] = Unlock
      /\ p = 7 => ServeAPoll[p + 1] = Serve
  BY ServePollScript
<1>9. p = 4 \/ p = 5 \/ p = 6 \/ p = 7 => Counts("answerPoll", p, ServeAPoll[p + 1])
  BY <1>7, <1>8, Zenon
<1>10. /\ p = 8 => Counts("answerPoll", p, Lock)
       /\ p = 9 => Counts("answerPoll", p, Send("block"))
       /\ p = 10 => Counts("answerPoll", p, Unlock)
       /\ p = 11 => Counts("answerPoll", p, Serve)
  BY <1>1, <1>2, <1>3, CallParts, ChunkCounts DEF Counts, Chunk, Commands
<1>11. /\ p = 8 => ServeAPoll[p + 1] = Lock
       /\ p = 9 => ServeAPoll[p + 1] = Send("block")
       /\ p = 10 => ServeAPoll[p + 1] = Unlock
       /\ p = 11 => ServeAPoll[p + 1] = Serve
  BY ServePollScript
<1>12. p = 8 \/ p = 9 \/ p = 10 \/ p = 11 => Counts("answerPoll", p, ServeAPoll[p + 1])
  BY <1>10, <1>11, Zenon
<1>13. /\ p = 12 => Counts("answerPoll", p, Lock)
       /\ p = 13 => Counts("answerPoll", p, Send("chain"))
       /\ p = 14 => Counts("answerPoll", p, Unlock)
       /\ p = 15 => Counts("answerPoll", p, Serve)
  BY <1>1, <1>2, <1>3, CallParts, ChunkCounts DEF Counts, Chunk, Commands
<1>14. /\ p = 12 => ServeAPoll[p + 1] = Lock
       /\ p = 13 => ServeAPoll[p + 1] = Send("chain")
       /\ p = 14 => ServeAPoll[p + 1] = Unlock
       /\ p = 15 => ServeAPoll[p + 1] = Serve
  BY ServePollScript
<1>15. p = 12 \/ p = 13 \/ p = 14 \/ p = 15 => Counts("answerPoll", p, ServeAPoll[p + 1])
  BY <1>13, <1>14, Zenon
<1> QED
  BY <1>6, <1>9, <1>12, <1>15

LEMMA AnswerPayCounts ==
  ASSUME NEW p \in Nat, p < 11
  PROVE  Counts("answerPay", p, ServeAPayment[p + 1])
<1>1. \A n \in Nat : Sends("answerPay", n) =
            IF n >= 6 THEN 3 ELSE IF n >= 4 THEN 2 ELSE IF n >= 2 THEN 1 ELSE 0
  BY ChunkCounts DEF Sends, Past
<1>2. \A n \in Nat : Reads("answerPay", n) =
            IF n >= 8 THEN 3 ELSE IF n >= 3 THEN 2 ELSE IF n >= 1 THEN 1 ELSE 0
  BY ChunkCounts DEF Reads, Past
<1>3. /\ Partner("answerPay") = "pay" /\ Total("pay") = 3
      /\ \A n \in Nat : Pause("answerPay", n) = IF n < 8 THEN 8 ELSE 11
      /\ CallCount("answerPay") = 11
  BY DEF Partner, Total, Pause, CallCount
<1>4. /\ p = 0 => Counts("answerPay", p, Receive("version"))
      /\ p = 1 => Counts("answerPay", p, Send("version"))
      /\ p = 2 => Counts("answerPay", p, Receive("verack"))
      /\ p = 3 => Counts("answerPay", p, Send("verack"))
  BY <1>1, <1>2, <1>3, CallParts, ChunkCounts DEF Counts, Chunk, Commands
<1>5. /\ p = 0 => ServeAPayment[p + 1] = Receive("version")
      /\ p = 1 => ServeAPayment[p + 1] = Send("version")
      /\ p = 2 => ServeAPayment[p + 1] = Receive("verack")
      /\ p = 3 => ServeAPayment[p + 1] = Send("verack")
  BY ServePayScript
<1>6. p = 0 \/ p = 1 \/ p = 2 \/ p = 3 => Counts("answerPay", p, ServeAPayment[p + 1])
  BY <1>4, <1>5, Zenon
<1>7. /\ p = 4 => Counts("answerPay", p, Lock)
      /\ p = 5 => Counts("answerPay", p, Send("inv"))
      /\ p = 6 => Counts("answerPay", p, Unlock)
      /\ p = 7 => Counts("answerPay", p, Serve)
  BY <1>1, <1>2, <1>3, CallParts, ChunkCounts DEF Counts, Chunk, Commands
<1>8. /\ p = 4 => ServeAPayment[p + 1] = Lock
      /\ p = 5 => ServeAPayment[p + 1] = Send("inv")
      /\ p = 6 => ServeAPayment[p + 1] = Unlock
      /\ p = 7 => ServeAPayment[p + 1] = Serve
  BY ServePayScript
<1>9. p = 4 \/ p = 5 \/ p = 6 \/ p = 7 => Counts("answerPay", p, ServeAPayment[p + 1])
  BY <1>7, <1>8, Zenon
<1>10. /\ p = 8 => Counts("answerPay", p, Lock)
       /\ p = 9 => Counts("answerPay", p, Accept)
       /\ p = 10 => Counts("answerPay", p, Serve)
  BY <1>1, <1>2, <1>3, CallParts, ChunkCounts DEF Counts, Chunk, Commands
<1>11. /\ p = 8 => ServeAPayment[p + 1] = Lock
       /\ p = 9 => ServeAPayment[p + 1] = Accept
       /\ p = 10 => ServeAPayment[p + 1] = Serve
  BY ServePayScript
<1>12. p = 8 \/ p = 9 \/ p = 10 => Counts("answerPay", p, ServeAPayment[p + 1])
  BY <1>10, <1>11, Zenon
<1> QED
  BY <1>6, <1>9, <1>12

LEMMA CallCounts ==
  ASSUME NEW role \in Roles, NEW p \in Nat, p < CallCount(role)
  PROVE  Counts(role, p, Call(role, p))
<1>1. CASE role = "poll"
  <2>1. p < 13 /\ Call(role, p) = PollPeer[p + 1]
    BY <1>1 DEF CallCount, Call, Script
  <2> QED
    BY <1>1, <2>1, PollCounts
<1>2. CASE role = "pay"
  <2>1. p < 5 /\ Call(role, p) = run_send_tx[p + 1]
    BY <1>2 DEF CallCount, Call, Script
  <2> QED
    BY <1>2, <2>1, PayCounts
<1>3. CASE role = "answerPoll"
  <2>1. p < 16 /\ Call(role, p) = ServeAPoll[p + 1]
    BY <1>3 DEF CallCount, Call, Script
  <2> QED
    BY <1>3, <2>1, AnswerPollCounts
<1>4. CASE role = "answerPay"
  <2>1. p < 11 /\ Call(role, p) = ServeAPayment[p + 1]
    BY <1>4 DEF CallCount, Call, Script
  <2> QED
    BY <1>4, <2>1, AnswerPayCounts
<1> QED
  BY <1>1, <1>2, <1>3, <1>4 DEF Roles

\* A thread that is not serving goes on to the next call of its script.
LEMMA NextCall ==
  ASSUME NEW role \in Roles, NEW p \in Nat, p < CallCount(role),
         Call(role, p)[1] # "serve"
  PROVE  Tail(Todo(role, p)) = IF p + 1 = CallCount(role) THEN <<>> ELSE Todo(role, p + 1)
<1>1. p + 1 = CallCount(role) \/ Pause(role, p + 1) = Pause(role, p)
  BY CallCounts DEF Counts
<1>2. /\ p < Pause(role, p) /\ Pause(role, p) <= CallCount(role)
      /\ Pause(role, p) \in Nat /\ CallCount(role) \in Nat
  BY PauseFacts, RoleFacts
<1>3. CASE p + 1 = CallCount(role)
  <2>1. p + 1 = Pause(role, p)
    BY <1>2, <1>3
  <2> QED
    BY <1>3, <2>1, TodoFacts
<1>4. CASE p + 1 # CallCount(role)
  <2>1. p + 1 \in Nat /\ p + 1 < CallCount(role) /\ p + 1 + 1 = p + 2
    BY <1>2, <1>4
  <2>2. p + 1 < Pause(role, p + 1)
    BY <2>1, PauseFacts
  <2>3. Todo(role, p + 1) = SubSeq(Script(role), p + 2, Pause(role, p))
    BY <1>1, <1>4, <2>1, Zenon DEF Todo
  <2> QED
    BY <1>1, <1>4, <2>2, <2>3, TodoFacts
<1> QED
  BY <1>3, <1>4

\* A handler that serves with requests to come: what it gets is the next one.
LEMMA AnswerCalls ==
  /\ Answer("getdata") = <<Lock, Send("block"), Unlock, Serve>>
  /\ Answer("getblocks") = <<Lock, Send("chain"), Unlock, Serve>>
  /\ Answer("tx") = <<Lock, Accept, Serve>>
  BY Zenon DEF Answer

LEMMA SliceIs ==
  ASSUME NEW s \in Seq(Acts), NEW k \in Nat, NEW x \in Seq(Acts), NEW m,
         m = k + Len(x), m <= Len(s), \A i \in 1 .. Len(x) : s[k + i] = x[i]
  PROVE  SubSeq(s, k + 1, m) = x
<1>1. PICK y : y = SubSeq(s, k + 1, m)
  OBVIOUS
<1>2. y \in Seq(Acts) /\ Len(y) = Len(x)
  BY <1>1
<1>3. \A i \in 1 .. Len(x) : y[i] = s[k + i]
  BY <1>1, <1>2
<1>4. \A i \in 1 .. Len(x) : y[i] = x[i]
  BY <1>3
<1>5. y = x
  BY <1>2, <1>4, SeqEqual, Zenon
<1> QED
  BY <1>1, <1>5

LEMMA PollAnswers ==
  /\ Todo("answerPoll", 0) = HandleConnection
  /\ Todo("answerPoll", 8) = <<Lock, Send("block"), Unlock, Serve>>
  /\ Todo("answerPoll", 12) = <<Lock, Send("chain"), Unlock, Serve>>
<1>1. PICK s : s = ServeAPoll
  OBVIOUS
<1>2. /\ Todo("answerPoll", 0) = SubSeq(s, 0 + 1, 8)
      /\ Todo("answerPoll", 8) = SubSeq(s, 8 + 1, 12)
      /\ Todo("answerPoll", 12) = SubSeq(s, 12 + 1, 16)
  BY <1>1 DEF Todo, Script, Pause, CallCount
<1>3. s \in Seq(Acts) /\ Len(s) = 16
  BY <1>1, ServePollScript
<1>4. ASSUME NEW x, x = HandleConnection
      PROVE  Todo("answerPoll", 0) = x
  <2>1. x \in Seq(Acts) /\ Len(x) = 8
    BY <1>4, CallsAreActs, CommandNames DEF HandleConnection
  <2>2. \A i \in 1 .. 8 : s[0 + i] = x[i]
    BY <1>1, <1>4 DEF HandleConnection, ServeAPoll
  <2>3. 0 \in Nat /\ 8 = 0 + Len(x) /\ 8 <= Len(s)
    BY <1>3, <2>1
  <2>4. \A i \in 1 .. Len(x) : s[0 + i] = x[i]
    BY <2>1, <2>2
  <2> QED
    BY <1>2, <1>3, <2>1, <2>3, <2>4, SliceIs, Zenon
<1>5. ASSUME NEW x, x = <<Lock, Send("block"), Unlock, Serve>>
      PROVE  Todo("answerPoll", 8) = x
  <2>1. x \in Seq(Acts) /\ Len(x) = 4
    BY <1>5, CallsAreActs, CommandNames
  <2>2. \A i \in 1 .. 4 : s[8 + i] = x[i]
    BY <1>1, <1>5 DEF ServeAPoll
  <2>3. 8 \in Nat /\ 12 = 8 + Len(x) /\ 12 <= Len(s)
    BY <1>3, <2>1
  <2>4. \A i \in 1 .. Len(x) : s[8 + i] = x[i]
    BY <2>1, <2>2
  <2> QED
    BY <1>2, <1>3, <2>1, <2>3, <2>4, SliceIs, Zenon
<1>6. ASSUME NEW x, x = <<Lock, Send("chain"), Unlock, Serve>>
      PROVE  Todo("answerPoll", 12) = x
  <2>1. x \in Seq(Acts) /\ Len(x) = 4
    BY <1>6, CallsAreActs, CommandNames
  <2>2. \A i \in 1 .. 4 : s[12 + i] = x[i]
    BY <1>1, <1>6 DEF ServeAPoll
  <2>3. 12 \in Nat /\ 16 = 12 + Len(x) /\ 16 <= Len(s)
    BY <1>3, <2>1
  <2>4. \A i \in 1 .. Len(x) : s[12 + i] = x[i]
    BY <2>1, <2>2
  <2> QED
    BY <1>2, <1>3, <2>1, <2>3, <2>4, SliceIs, Zenon
<1> QED
  BY <1>4, <1>5, <1>6

LEMMA PayAnswers ==
  /\ Todo("answerPay", 0) = HandleConnection
  /\ Todo("answerPay", 8) = <<Lock, Accept, Serve>>
<1>1. PICK s : s = ServeAPayment
  OBVIOUS
<1>2. /\ Todo("answerPay", 0) = SubSeq(s, 0 + 1, 8)
      /\ Todo("answerPay", 8) = SubSeq(s, 8 + 1, 11)
  BY <1>1 DEF Todo, Script, Pause, CallCount
<1>3. s \in Seq(Acts) /\ Len(s) = 11
  BY <1>1, ServePayScript
<1>4. ASSUME NEW x, x = HandleConnection
      PROVE  Todo("answerPay", 0) = x
  <2>1. x \in Seq(Acts) /\ Len(x) = 8
    BY <1>4, CallsAreActs, CommandNames DEF HandleConnection
  <2>2. \A i \in 1 .. 8 : s[0 + i] = x[i]
    BY <1>1, <1>4 DEF HandleConnection, ServeAPayment
  <2>3. 0 \in Nat /\ 8 = 0 + Len(x) /\ 8 <= Len(s)
    BY <1>3, <2>1
  <2>4. \A i \in 1 .. Len(x) : s[0 + i] = x[i]
    BY <2>1, <2>2
  <2> QED
    BY <1>2, <1>3, <2>1, <2>3, <2>4, SliceIs, Zenon
<1>5. ASSUME NEW x, x = <<Lock, Accept, Serve>>
      PROVE  Todo("answerPay", 8) = x
  <2>1. x \in Seq(Acts) /\ Len(x) = 3
    BY <1>5, CallsAreActs
  <2>2. \A i \in 1 .. 3 : s[8 + i] = x[i]
    BY <1>1, <1>5 DEF ServeAPayment
  <2>3. 8 \in Nat /\ 11 = 8 + Len(x) /\ 11 <= Len(s)
    BY <1>3, <2>1
  <2>4. \A i \in 1 .. Len(x) : s[8 + i] = x[i]
    BY <2>1, <2>2
  <2> QED
    BY <1>2, <1>3, <2>1, <2>3, <2>4, SliceIs, Zenon
<1> QED
  BY <1>4, <1>5

LEMMA ServeFacts ==
  ASSUME NEW role \in Roles, NEW p \in Nat, p < CallCount(role),
         Call(role, p)[1] = "serve", Reads(role, p) < Total(role),
         NEW c, c = Chunk(role, Reads(role, p) + 1)
  PROVE  /\ p + 1 < CallCount(role) /\ Reads(role, p + 1) = Reads(role, p) + 1
         /\ c[2] = 1 /\ Chunks(c[1]) = 1
         /\ Answer(c[1]) = Todo(role, p + 1) /\ Todo(role, p + 1) # <<>>
<1>1. \/ role = "answerPoll" /\ p \in {7, 11, 15}
      \/ role = "answerPay" /\ p \in {7, 10}
  BY CallCounts DEF Counts
<1>2. /\ Reads("answerPoll", 7) = 2 /\ Reads("answerPoll", 11) = 3 /\ Reads("answerPoll", 15) = 4
      /\ Reads("answerPoll", 8) = 3 /\ Reads("answerPoll", 12) = 4
      /\ Reads("answerPay", 7) = 2 /\ Reads("answerPay", 10) = 3 /\ Reads("answerPay", 8) = 3
      /\ Total("answerPoll") = 4 /\ Total("answerPay") = 3
      /\ CallCount("answerPoll") = 16 /\ CallCount("answerPay") = 11
  BY DEF Reads, Past, Total, CallCount
<1>3. /\ Chunk("answerPoll", 3) = <<"getdata", 1>> /\ Chunk("answerPoll", 4) = <<"getblocks", 1>>
      /\ Chunk("answerPay", 3) = <<"tx", 1>>
  BY DEF Chunk
<1>4. CASE role = "answerPoll" /\ p = 7
  <2>1. c = <<"getdata", 1>> /\ p + 1 = 8
    BY <1>2, <1>3, <1>4
  <2>2. Answer(c[1]) = Todo(role, p + 1) /\ c[2] = 1 /\ Chunks(c[1]) = 1
    BY <1>4, <2>1, PollAnswers, AnswerCalls, ChunkCounts
  <2>3. p + 1 < CallCount(role) /\ Reads(role, p + 1) = Reads(role, p) + 1
    BY <1>2, <1>4
  <2> QED
    BY <2>2, <2>3, TodoFacts
<1>5. CASE role = "answerPoll" /\ p = 11
  <2>1. c = <<"getblocks", 1>> /\ p + 1 = 12
    BY <1>2, <1>3, <1>5
  <2>2. Answer(c[1]) = Todo(role, p + 1) /\ c[2] = 1 /\ Chunks(c[1]) = 1
    BY <1>5, <2>1, PollAnswers, AnswerCalls, ChunkCounts
  <2>3. p + 1 < CallCount(role) /\ Reads(role, p + 1) = Reads(role, p) + 1
    BY <1>2, <1>5
  <2> QED
    BY <2>2, <2>3, TodoFacts
<1>6. CASE role = "answerPay" /\ p = 7
  <2>1. c = <<"tx", 1>> /\ p + 1 = 8
    BY <1>2, <1>3, <1>6
  <2>2. Answer(c[1]) = Todo(role, p + 1) /\ c[2] = 1 /\ Chunks(c[1]) = 1
    BY <1>6, <2>1, PayAnswers, AnswerCalls, ChunkCounts
  <2>3. p + 1 < CallCount(role) /\ Reads(role, p + 1) = Reads(role, p) + 1
    BY <1>2, <1>6
  <2> QED
    BY <2>2, <2>3, TodoFacts
<1> QED
  BY <1>1, <1>2, <1>4, <1>5, <1>6

LEMMA StartFacts ==
  /\ Todo("poll", 0) = PollPeer /\ Todo("pay", 0) = run_send_tx
  /\ Todo("answerPoll", 0) = HandleConnection /\ Todo("answerPay", 0) = HandleConnection
  /\ \A role \in Roles : Sends(role, 0) = 0 /\ Reads(role, 0) = 0
<1>1. Todo("poll", 0) = PollPeer
  <2>1. Todo("poll", 0) = SubSeq(PollPeer, 0 + 1, 13)
    BY DEF Todo, Script, Pause, CallCount
  <2>2. PollPeer \in Seq(Acts) /\ Len(PollPeer) = 13
    BY PollScript
  <2>3. 0 \in Nat /\ 13 = 0 + Len(PollPeer) /\ 13 <= Len(PollPeer)
    BY <2>2
  <2>4. \A i \in 1 .. Len(PollPeer) : PollPeer[0 + i] = PollPeer[i]
    BY <2>2
  <2> QED
    BY <2>1, <2>2, <2>3, <2>4, SliceIs, Zenon
<1>2. Todo("pay", 0) = run_send_tx
  <2>1. Todo("pay", 0) = SubSeq(run_send_tx, 0 + 1, 5)
    BY DEF Todo, Script, Pause, CallCount
  <2>2. run_send_tx \in Seq(Acts) /\ Len(run_send_tx) = 5
    BY PayScript
  <2>3. 0 \in Nat /\ 5 = 0 + Len(run_send_tx) /\ 5 <= Len(run_send_tx)
    BY <2>2
  <2>4. \A i \in 1 .. Len(run_send_tx) : run_send_tx[0 + i] = run_send_tx[i]
    BY <2>2
  <2> QED
    BY <2>1, <2>2, <2>3, <2>4, SliceIs, Zenon
<1>3. \A role \in Roles : Sends(role, 0) = 0 /\ Reads(role, 0) = 0
  BY DEF Roles, Sends, Reads, Past
<1> QED
  BY <1>1, <1>2, <1>3, PollAnswers, PayAnswers

-----------------------------------------------------------------------------
(***************************************************************************)
(* What the steps of one end do to a conversation.                         *)
(***************************************************************************)
\* It is the same conversation seen from the other end.
LEMMA TalkingSymmetric ==
  ASSUME NEW role \in Roles, NEW c1, NEW b1, NEW s1, NEW c2, NEW b2, NEW s2,
         Talking(role, c1, b1, s1, c2, b2, s2)
  PROVE  Talking(Partner(role), c2, b2, s2, c1, b1, s1)
<1>1. Partner(Partner(role)) = role
  BY RoleFacts
<1> QED
  BY <1>1 DEF Talking

\* Nothing is said of an end without calls.
LEMMA Silence ==
  ASSUME NEW role, NEW b1, NEW s1, NEW b2, NEW s2
  PROVE  Talking(role, <<>>, b1, s1, <<>>, b2, s2)
<1>1. 0 \in Nat /\ At(role, <<>>, b1, 0, 0) /\ At(Partner(role), <<>>, b2, 0, 0)
  BY DEF At
<1> QED
  BY <1>1 DEF Talking

\* One end is done, and its leaving may empty the other's buffer.
LEMMA OneEndLeaves ==
  ASSUME NEW role \in Roles, NEW c1, NEW b1, NEW s1, NEW c2, NEW s2,
         NEW b2 \in Seq(Commands \X Nat),
         NEW x1, NEW y1, NEW x2, NEW y2, x2 \in {b2, <<>>},
         Talking(role, c1, b1, s1, c2, b2, s2)
  PROVE  Talking(role, <<>>, x1, y1, c2, x2, y2)
<1>1. PICK q, u \in Nat : At(Partner(role), c2, b2, q, u)
  BY DEF Talking
<1>2. At(role, <<>>, x1, 0, 0) /\ 0 \in Nat
  BY DEF At
<1>3. Partner(role) \in Roles /\ Total(Partner(role)) \in Nat
  BY RoleFacts
<1>4. ASSUME Follows(Partner(role), b2, u)
      PROVE  Follows(Partner(role), x2, u)
  <2>1. CASE x2 = b2
    BY <1>4, <2>1
  <2>2. CASE x2 = <<>>
    BY <1>3, <1>4, <2>2 DEF Follows
  <2> QED
    BY <2>1, <2>2
<1>5. At(Partner(role), c2, x2, q, u)
  BY <1>1, <1>4 DEF At
<1> QED
  BY <1>2, <1>5 DEF Talking

LEMMA ReadingStarts ==
  ASSUME NEW role \in Roles, NEW p \in Nat
  PROVE  Reading(role, p, Reads(role, p))
<1>1. Reads(role, p) \in Nat
  BY CountFacts
<1>2. Chunks(Call(role, p)[2]) \in Nat /\ Chunks(Call(role, p)[2]) >= 1
  BY ChunkCounts
<1> QED
  BY <1>1, <1>2 DEF Reading

LEMMA AtNext ==
  ASSUME NEW role \in Roles, NEW p \in Nat, p < CallCount(role),
         Call(role, p)[1] # "serve", NEW x, Follows(role, x, Reads(role, p + 1))
  PROVE  At(role, Tail(Todo(role, p)), x, p + 1, Reads(role, p + 1))
<1>1. CASE p + 1 = CallCount(role)
  BY <1>1, NextCall DEF At
<1>2. CASE p + 1 # CallCount(role)
  <2>1. p + 1 \in Nat /\ p + 1 < CallCount(role)
    BY <1>2, RoleFacts
  <2>2. Tail(Todo(role, p)) = Todo(role, p + 1)
    BY <1>2, NextCall
  <2>3. Reading(role, p + 1, Reads(role, p + 1))
    BY <2>1, ReadingStarts
  <2> QED
    BY <2>1, <2>2, <2>3 DEF At
<1> QED
  BY <1>1, <1>2

\* A call that neither sends nor receives.
LEMMA Advances ==
  ASSUME NEW role \in Roles, NEW c1, NEW b1, NEW s1, NEW c2, NEW b2, NEW s2,
         Talking(role, c1, b1, s1, c2, b2, s2),
         c1 # <<>>, Head(c1)[1] \notin {"send", "receive", "serve"}
  PROVE  Talking(role, Tail(c1), b1, s1, c2, b2, s2)
<1>1. PICK p, q, r, u \in Nat :
        /\ At(role, c1, b1, p, r)
        /\ At(Partner(role), c2, b2, q, u)
        /\ c2 # <<>> =>
             /\ Len(b1) = Sends(Partner(role), q) + s2 - r
             /\ Len(b2) = Sends(role, p) + s1 - u
  BY DEF Talking
<1>2. p < CallCount(role) /\ c1 = Todo(role, p) /\ Reading(role, p, r) /\ Follows(role, b1, r)
  BY <1>1 DEF At
<1>3. Call(role, p) = Head(c1)
  BY <1>2, TodoFacts
<1>4. r = Reads(role, p)
  BY <1>2, <1>3 DEF Reading
<1>5. Reads(role, p + 1) = Reads(role, p) /\ Sends(role, p + 1) = Sends(role, p)
  BY <1>2, <1>3, CallCounts DEF Counts
<1>6. At(role, Tail(c1), b1, p + 1, r)
  BY <1>2, <1>3, <1>4, <1>5, AtNext
<1>7. p + 1 \in Nat
  OBVIOUS
<1> QED
  BY <1>1, <1>5, <1>6, <1>7 DEF Talking

\* A message that is sent to an end that has left.
LEMMA SendsInVain ==
  ASSUME NEW role \in Roles, NEW c1, NEW s1, NEW b2, NEW s2,
         NEW b1 \in Seq(Commands \X Nat),
         Talking(role, c1, b1, s1, <<>>, b2, s2),
         c1 # <<>>, Head(c1)[1] = "send",
         NEW x1, x1 \in {b1, <<>>}, NEW y1
  PROVE  Talking(role, Tail(c1), x1, y1, <<>>, b2, s2)
<1>1. PICK p, r \in Nat : At(role, c1, b1, p, r)
  BY DEF Talking
<1>2. p < CallCount(role) /\ c1 = Todo(role, p) /\ Reading(role, p, r) /\ Follows(role, b1, r)
  BY <1>1 DEF At
<1>3. Call(role, p) = Head(c1)
  BY <1>2, TodoFacts
<1>4. r = Reads(role, p)
  BY <1>2, <1>3 DEF Reading
<1>5. Reads(role, p + 1) = Reads(role, p)
  BY <1>2, <1>3, CallCounts DEF Counts
<1>6. Follows(role, x1, r)
  <2>1. CASE x1 = b1
    BY <1>2, <2>1
  <2>2. CASE x1 = <<>>
    BY <1>2, <2>2, RoleFacts DEF Follows
  <2> QED
    BY <2>1, <2>2
<1>7. At(role, Tail(c1), x1, p + 1, r)
  BY <1>2, <1>3, <1>4, <1>5, <1>6, AtNext
<1>8. p + 1 \in Nat /\ At(Partner(role), <<>>, b2, 0, 0)
  BY DEF At
<1> QED
  BY <1>7, <1>8 DEF Talking

LEMMA FollowsAppend ==
  ASSUME NEW role \in Roles, NEW b \in Seq(Commands \X Nat), NEW u \in Nat,
         NEW ch \in Commands \X Nat,
         Follows(role, b, u), u + Len(b) + 1 <= Total(role),
         ch = Chunk(role, u + Len(b) + 1)
  PROVE  Follows(role, Append(b, ch), u)
<1>1. PICK x : x = Append(b, ch)
  OBVIOUS
<1>2. Len(x) = Len(b) + 1 /\ x[Len(b) + 1] = ch /\ \A i \in 1 .. Len(b) : x[i] = b[i]
  BY <1>1
<1>3. u + Len(x) <= Total(role)
  BY <1>2
<1>4. ASSUME NEW i \in 1 .. Len(x) PROVE x[i] = Chunk(role, u + i)
  <2>1. CASE i = Len(b) + 1
    <3>1. u + i = u + Len(b) + 1
      BY <2>1
    <3> QED
      BY <1>2, <2>1, <3>1
  <2>2. CASE i # Len(b) + 1
    <3>1. i \in 1 .. Len(b)
      BY <1>2, <2>2
    <3> QED
      BY <1>2, <3>1 DEF Follows
  <2> QED
    BY <2>1, <2>2
<1> QED
  BY <1>1, <1>3, <1>4 DEF Follows

LEMMA FollowsTail ==
  ASSUME NEW role \in Roles, NEW b \in Seq(Commands \X Nat), NEW r \in Nat,
         Follows(role, b, r), b # <<>>
  PROVE  /\ Head(b) = Chunk(role, r + 1) /\ r + 1 <= Total(role)
         /\ Len(Tail(b)) = Len(b) - 1 /\ Follows(role, Tail(b), r + 1)
<1>1. PICK x : x = Tail(b)
  OBVIOUS
<1>2. /\ Len(b) \in Nat /\ Len(b) >= 1 /\ Len(x) = Len(b) - 1 /\ Head(b) = b[1]
      /\ \A i \in 1 .. Len(b) - 1 : x[i] = b[i + 1]
  BY <1>1
<1>3. Total(role) \in Nat /\ r + Len(b) <= Total(role)
  BY RoleFacts DEF Follows
<1>4. Head(b) = Chunk(role, r + 1) /\ r + 1 <= Total(role)
  BY <1>2, <1>3 DEF Follows
<1>5. r + 1 + Len(x) <= Total(role)
  BY <1>2, <1>3
<1>6. ASSUME NEW i \in 1 .. Len(x) PROVE x[i] = Chunk(role, r + 1 + i)
  <2>1. i + 1 \in 1 .. Len(b) /\ r + (i + 1) = r + 1 + i
    BY <1>2
  <2>2. b[i + 1] = Chunk(role, r + (i + 1))
    BY <2>1 DEF Follows
  <2> QED
    BY <1>2, <2>1, <2>2
<1> QED
  BY <1>1, <1>2, <1>4, <1>5, <1>6 DEF Follows

\* A chunk arrives where the other end looks for it.
LEMMA SendsChunk ==
  ASSUME NEW role \in Roles, NEW c1, NEW b1, NEW c2, NEW s1 \in Nat, NEW s2,
         NEW b2 \in Seq(Commands \X Nat),
         Talking(role, c1, b1, s1, c2, b2, s2),
         c1 # <<>>, Head(c1)[1] = "send", s1 < Chunks(Head(c1)[2]),
         NEW x2, x2 = Append(b2, <<Head(c1)[2], s1 + 1>>)
  PROVE  /\ Talking(role, c1, b1, s1 + 1, c2, x2, s2)
         /\ s1 + 1 = Chunks(Head(c1)[2]) => Talking(role, Tail(c1), b1, 0, c2, x2, s2)
         /\ <<Head(c1)[2], s1 + 1>> \in Commands \X Nat
<1>1. PICK p, q, r, u \in Nat :
        /\ At(role, c1, b1, p, r)
        /\ At(Partner(role), c2, b2, q, u)
        /\ c2 # <<>> =>
             /\ Len(b1) = Sends(Partner(role), q) + s2 - r
             /\ Len(b2) = Sends(role, p) + s1 - u
  BY DEF Talking
<1>2. p < CallCount(role) /\ c1 = Todo(role, p) /\ Reading(role, p, r) /\ Follows(role, b1, r)
  BY <1>1 DEF At
<1>3. PICK cmd : cmd = Head(c1)[2]
  OBVIOUS
<1>4. Call(role, p) = Head(c1)
  BY <1>2, TodoFacts
<1>5. r = Reads(role, p)
  BY <1>2, <1>4 DEF Reading
<1>6. /\ Reads(role, p + 1) = Reads(role, p)
      /\ Sends(role, p + 1) = Sends(role, p) + Chunks(cmd)
      /\ Sends(role, p + 1) <= Total(Partner(role))
      /\ cmd \in Commands
      /\ \A j \in 1 .. Chunks(cmd) : Chunk(Partner(role), Sends(role, p) + j) = <<cmd, j>>
  BY <1>2, <1>3, <1>4, CallCounts DEF Counts
<1>7. /\ Partner(role) \in Roles /\ Total(Partner(role)) \in Nat /\ Sends(role, p) \in Nat
      /\ Chunks(cmd) \in Nat /\ s1 + 1 \in 1 .. Chunks(cmd)
  <2>1. Partner(role) \in Roles /\ Total(Partner(role)) \in Nat
    BY RoleFacts
  <2>2. Sends(role, p) \in Nat
    BY CountFacts
  <2>3. Chunks(cmd) \in Nat /\ s1 + 1 \in 1 .. Chunks(cmd)
    BY <1>3, ChunkCounts
  <2> QED
    BY <2>1, <2>2, <2>3
<1>8. PICK ch : ch = <<cmd, s1 + 1>>
  OBVIOUS
<1>9. ch \in Commands \X Nat /\ ch = Chunk(Partner(role), Sends(role, p) + (s1 + 1))
  BY <1>6, <1>7, <1>8
<1>10. x2 = Append(b2, ch) /\ Len(x2) = Len(b2) + 1 /\ Len(b2) \in Nat
  BY <1>3, <1>8, <1>9
<1>11. At(Partner(role), c2, x2, q, u)
  <2>1. SUFFICES ASSUME c2 # <<>> PROVE At(Partner(role), c2, x2, q, u)
    BY DEF At
  <2>2. Follows(Partner(role), b2, u) /\ Len(b2) = Sends(role, p) + s1 - u
    BY <1>1, <2>1 DEF At
  <2>3. u + Len(b2) + 1 = Sends(role, p) + (s1 + 1)
    BY <1>7, <1>10, <2>2
  <2>4. u + Len(b2) + 1 <= Total(Partner(role)) /\ ch = Chunk(Partner(role), u + Len(b2) + 1)
    BY <1>6, <1>7, <1>9, <2>3
  <2>5. Follows(Partner(role), x2, u)
    BY <1>7, <1>9, <1>10, <2>2, <2>4, FollowsAppend
  <2> QED
    BY <1>1, <2>5 DEF At
<1>12. Talking(role, c1, b1, s1 + 1, c2, x2, s2)
  <2>1. c2 # <<>> => Len(b2) = Sends(role, p) + s1 - u
    BY <1>1
  <2>2. c2 # <<>> => Len(x2) = Sends(role, p) + (s1 + 1) - u
    BY <1>7, <1>10, <2>1
  <2> QED
    BY <1>1, <1>11, <2>2 DEF Talking
<1>13. ASSUME s1 + 1 = Chunks(cmd)
       PROVE  Talking(role, Tail(c1), b1, 0, c2, x2, s2)
  <2>1. At(role, Tail(c1), b1, p + 1, r)
    BY <1>2, <1>4, <1>5, <1>6, AtNext
  <2>2. c2 # <<>> => Len(b2) = Sends(role, p) + s1 - u
    BY <1>1
  <2>3. Sends(role, p + 1) = Sends(role, p) + Chunks(cmd)
    BY <1>6
  <2>4. p + 1 \in Nat /\ (c2 # <<>> => Len(x2) = Sends(role, p + 1) + 0 - u)
    BY <1>7, <1>10, <1>13, <2>2, <2>3
  <2> QED
    BY <1>1, <1>11, <2>1, <2>4 DEF Talking
<1> QED
  BY <1>3, <1>8, <1>9, <1>12, <1>13

\* The chunk a thread reads is one of the message it waits for.
LEMMA ReadsChunk ==
  ASSUME NEW role \in Roles, NEW c1, NEW s1, NEW c2, NEW b2, NEW s2 \in Nat,
         NEW b1 \in Seq(Commands \X Nat), b1 # <<>>,
         Talking(role, c1, b1, s1, c2, b2, s2),
         c1 # <<>>, Head(c1)[1] = "receive"
  PROVE  /\ Head(b1)[1] = Head(c1)[2]
         /\ IF Head(b1)[2] < Chunks(Head(b1)[1])
            THEN Talking(role, c1, Tail(b1), s1, c2, b2, s2)
            ELSE Talking(role, Tail(c1), Tail(b1), s1, c2, b2, s2)
<1>1. PICK p, q, r, u \in Nat :
        /\ At(role, c1, b1, p, r)
        /\ At(Partner(role), c2, b2, q, u)
        /\ c2 # <<>> =>
             /\ Len(b1) = Sends(Partner(role), q) + s2 - r
             /\ Len(b2) = Sends(role, p) + s1 - u
  BY DEF Talking
<1>2. p < CallCount(role) /\ c1 = Todo(role, p) /\ Reading(role, p, r) /\ Follows(role, b1, r)
  BY <1>1 DEF At
<1>3. PICK cmd : cmd = Head(c1)[2]
  OBVIOUS
<1>4. Call(role, p) = Head(c1)
  BY <1>2, TodoFacts
<1>5. r \in Reads(role, p) .. Reads(role, p) + Chunks(cmd) - 1
  BY <1>2, <1>3, <1>4 DEF Reading
<1>6. /\ Reads(role, p + 1) = Reads(role, p) + Chunks(cmd)
      /\ Sends(role, p + 1) = Sends(role, p)
      /\ \A j \in 1 .. Chunks(cmd) : Chunk(role, Reads(role, p) + j) = <<cmd, j>>
  BY <1>2, <1>3, <1>4, CallCounts DEF Counts
<1>7. Reads(role, p) \in Nat /\ Chunks(cmd) \in Nat
  BY CountFacts, ChunkCounts
<1>8. /\ Head(b1) = Chunk(role, r + 1) /\ Len(Tail(b1)) = Len(b1) - 1
      /\ Follows(role, Tail(b1), r + 1)
  BY <1>2, FollowsTail
<1>9. PICK j \in 1 .. Chunks(cmd) : r + 1 = Reads(role, p) + j
  <2>1. /\ r + 1 - Reads(role, p) \in 1 .. Chunks(cmd)
        /\ r + 1 = Reads(role, p) + (r + 1 - Reads(role, p))
    BY <1>5, <1>7
  <2> QED
    BY <2>1
<1>10. Head(b1) = <<cmd, j>>
  BY <1>6, <1>8, <1>9
<1>11. Head(b1)[1] = cmd /\ Head(b1)[2] = j
  BY <1>10
<1>12. c2 # <<>> => Len(Tail(b1)) = Sends(Partner(role), q) + s2 - (r + 1)
  <2>1. SUFFICES ASSUME c2 # <<>>
                 PROVE  Len(Tail(b1)) = Sends(Partner(role), q) + s2 - (r + 1)
    OBVIOUS
  <2>2. Len(b1) = Sends(Partner(role), q) + s2 - r
    BY <1>1, <2>1
  <2>3. Sends(Partner(role), q) \in Nat /\ Len(b1) \in Nat
    <3>1. Partner(role) \in Roles
      BY RoleFacts
    <3>2. Sends(Partner(role), q) \in Nat
      BY <3>1, CountFacts, Zenon
    <3>3. Len(b1) \in Nat
      OBVIOUS
    <3> QED
      BY <3>2, <3>3
  <2> QED
    BY <1>8, <2>2, <2>3
<1>13. CASE j < Chunks(cmd)
  <2>1. r + 1 \in Nat /\ Reading(role, p, r + 1)
    BY <1>3, <1>4, <1>7, <1>9, <1>13 DEF Reading
  <2>2. At(role, c1, Tail(b1), p, r + 1)
    BY <1>2, <1>8, <2>1 DEF At
  <2>3. Talking(role, c1, Tail(b1), s1, c2, b2, s2)
    BY <1>1, <1>12, <2>1, <2>2 DEF Talking
  <2> QED
    BY <1>3, <1>11, <1>13, <2>3
<1>14. CASE ~(j < Chunks(cmd))
  <2>1. r + 1 \in Nat /\ p + 1 \in Nat /\ r + 1 = Reads(role, p + 1)
    BY <1>6, <1>7, <1>9, <1>14
  <2>2. At(role, Tail(c1), Tail(b1), p + 1, r + 1)
    BY <1>2, <1>4, <1>8, <2>1, AtNext
  <2>3. c2 # <<>> => Len(b2) = Sends(role, p + 1) + s1 - u
    BY <1>1, <1>6
  <2>4. Talking(role, Tail(c1), Tail(b1), s1, c2, b2, s2)
    BY <1>1, <1>12, <2>1, <2>2, <2>3 DEF Talking
  <2> QED
    BY <1>3, <1>11, <1>14, <2>4
<1> QED
  BY <1>13, <1>14

LEMMA ReadsCommand ==
  ASSUME NEW role \in Roles, NEW c1, NEW s1, NEW c2, NEW b2, NEW s2 \in Nat,
         NEW b1 \in Seq(Commands \X Nat), b1 # <<>>,
         Talking(role, c1, b1, s1, c2, b2, s2),
         c1 # <<>>, Head(c1)[1] = "receive"
  PROVE  Head(b1)[1] = Head(c1)[2]
<1>1. /\ Head(b1)[1] = Head(c1)[2]
      /\ IF Head(b1)[2] < Chunks(Head(b1)[1])
         THEN Talking(role, c1, Tail(b1), s1, c2, b2, s2)
         ELSE Talking(role, Tail(c1), Tail(b1), s1, c2, b2, s2)
  BY ReadsChunk
<1> QED
  BY <1>1

\* What a handler reads is a request, and it goes on with the answer.
LEMMA ServesRequest ==
  ASSUME NEW role \in Roles, NEW c1, NEW s1, NEW c2, NEW b2, NEW s2 \in Nat,
         NEW b1 \in Seq(Commands \X Nat), b1 # <<>>,
         Talking(role, c1, b1, s1, c2, b2, s2),
         c1 # <<>>, Head(c1)[1] = "serve"
  PROVE  /\ Answer(Head(b1)[1]) # <<>> /\ Answer(Head(b1)[1]) \in Seq(Acts)
         /\ Head(b1)[2] = Chunks(Head(b1)[1])
         /\ Talking(role, Answer(Head(b1)[1]), Tail(b1), s1, c2, b2, s2)
<1>1. PICK p, q, r, u \in Nat :
        /\ At(role, c1, b1, p, r)
        /\ At(Partner(role), c2, b2, q, u)
        /\ c2 # <<>> =>
             /\ Len(b1) = Sends(Partner(role), q) + s2 - r
             /\ Len(b2) = Sends(role, p) + s1 - u
  BY DEF Talking
<1>2. p < CallCount(role) /\ c1 = Todo(role, p) /\ Reading(role, p, r) /\ Follows(role, b1, r)
  BY <1>1 DEF At
<1>3. Call(role, p) = Head(c1)
  BY <1>2, TodoFacts
<1>4. r = Reads(role, p)
  BY <1>2, <1>3 DEF Reading
<1>5. /\ Head(b1) = Chunk(role, r + 1) /\ r + 1 <= Total(role)
      /\ Len(Tail(b1)) = Len(b1) - 1 /\ Follows(role, Tail(b1), r + 1)
  BY <1>2, FollowsTail
<1>6. Reads(role, p) < Total(role)
  BY <1>4, <1>5, RoleFacts
<1>7. /\ p + 1 < CallCount(role) /\ Reads(role, p + 1) = r + 1
      /\ Head(b1)[2] = 1 /\ Chunks(Head(b1)[1]) = 1
      /\ Answer(Head(b1)[1]) = Todo(role, p + 1) /\ Todo(role, p + 1) # <<>>
  BY <1>2, <1>3, <1>4, <1>5, <1>6, ServeFacts
<1>8. p + 1 \in Nat /\ r + 1 \in Nat /\ Sends(role, p + 1) = Sends(role, p)
  BY <1>2, <1>3, CallCounts DEF Counts
<1>9. Reading(role, p + 1, r + 1)
  BY <1>7, <1>8, ReadingStarts
<1>10. At(role, Answer(Head(b1)[1]), Tail(b1), p + 1, r + 1)
  BY <1>5, <1>7, <1>9 DEF At
<1>11. c2 # <<>> => /\ Len(Tail(b1)) = Sends(Partner(role), q) + s2 - (r + 1)
                    /\ Len(b2) = Sends(role, p + 1) + s1 - u
  <2>1. SUFFICES ASSUME c2 # <<>>
                 PROVE  /\ Len(Tail(b1)) = Sends(Partner(role), q) + s2 - (r + 1)
                        /\ Len(b2) = Sends(role, p + 1) + s1 - u
    OBVIOUS
  <2>2. Len(b1) = Sends(Partner(role), q) + s2 - r /\ Len(b2) = Sends(role, p) + s1 - u
    BY <1>1, <2>1
  <2>3. Sends(Partner(role), q) \in Nat /\ Len(b1) \in Nat
    <3>1. Partner(role) \in Roles
      BY RoleFacts
    <3>2. Sends(Partner(role), q) \in Nat
      BY <3>1, CountFacts, Zenon
    <3>3. Len(b1) \in Nat
      OBVIOUS
    <3> QED
      BY <3>2, <3>3
  <2> QED
    BY <1>5, <1>8, <2>2, <2>3
<1>12. Talking(role, Answer(Head(b1)[1]), Tail(b1), s1, c2, b2, s2)
  BY <1>1, <1>8, <1>10, <1>11 DEF Talking
<1>13. Todo(role, p + 1) \in Seq(Acts)
  BY <1>7, <1>8, TodoFacts
<1> QED
  BY <1>7, <1>12, <1>13

\* Both ends begin.
LEMMA Begins ==
  ASSUME NEW role \in Roles
  PROVE  Talking(role, Todo(role, 0), <<>>, 0, Todo(Partner(role), 0), <<>>, 0)
<1>1. ASSUME NEW x \in Roles PROVE At(x, Todo(x, 0), <<>>, 0, 0)
  <2>1. Reads(x, 0) = 0 /\ CallCount(x) > 0 /\ Total(x) \in Nat
    BY StartFacts, RoleFacts
  <2>2. Reading(x, 0, 0)
    BY <2>1, ReadingStarts
  <2>3. Follows(x, <<>>, 0)
    BY <2>1 DEF Follows
  <2> QED
    BY <2>1, <2>2, <2>3 DEF At
<1>2. Partner(role) \in Roles
  BY RoleFacts
<1>3. Sends(role, 0) = 0 /\ Sends(Partner(role), 0) = 0
  BY <1>2, StartFacts
<1>4. At(role, Todo(role, 0), <<>>, 0, 0) /\ At(Partner(role), Todo(Partner(role), 0), <<>>, 0, 0)
  BY <1>1, <1>2
<1>5. 0 \in Nat /\ Len(<<>>) = 0 + 0 - 0
  OBVIOUS
<1> QED
  BY <1>3, <1>4, <1>5 DEF Talking

-----------------------------------------------------------------------------
(***************************************************************************)
(* The steps preserve the invariant.                                       *)
(***************************************************************************)
LEMMA EndFacts ==
  ASSUME NEW e \in Ends
  PROVE  /\ Peer(e) \in Ends /\ Peer(Peer(e)) = e /\ Peer(e) # e
         /\ \/ e = <<e[1], "client">> /\ Peer(e) = <<e[1], "server">>
            \/ e = <<e[1], "server">> /\ Peer(e) = <<e[1], "client">>
  BY DEF Ends, Peer

LEMMA ClientEnd ==
  ASSUME NEW e \in Ends
  PROVE  <<e[1], "client">> \in {e, Peer(e)} /\ <<e[1], "client">> \in Ends
  BY EndFacts

LEMMA RoleOfPeer ==
  ASSUME NEW e \in Ends
  PROVE  Role(e) \in Roles /\ Role(Peer(e)) = Partner(Role(e))
<1>1. Role(e) \in Roles
  BY DEF Role, Roles
<1>2. Peer(e)[1] = e[1] /\ (e[2] = "client" <=> Peer(e)[2] # "client")
  BY EndFacts DEF Ends
<1>3. Role(Peer(e)) = Partner(Role(e))
  BY <1>2 DEF Role, Partner
<1> QED
  BY <1>1, <1>3

LEMMA RoleOfPeerNext ==
  ASSUME NEW e \in Ends
  PROVE  Role(e)' \in Roles /\ Role(Peer(e))' = Partner(Role(e)')
<1>1. Role(e)' \in Roles
  BY DEF Role, Roles
<1>2. Peer(e)[1] = e[1] /\ (e[2] = "client" <=> Peer(e)[2] # "client")
  BY EndFacts DEF Ends
<1>3. Role(Peer(e))' = Partner(Role(e)')
  BY <1>2 DEF Role, Partner
<1> QED
  BY <1>1, <1>3

\* Other connections go on as before.
LEMMA TalkElsewhere ==
  ASSUME NEW e \in Ends, \A f \in Ends : Talk(f), Talk(e)',
         \A f \in Ends : f \notin {e, Peer(e)} =>
           /\ todo'[f] = todo[f] /\ buf'[f] = buf[f] /\ sent'[f] = sent[f]
           /\ owner'[f] = owner[f]
  PROVE  \A f \in Ends : Talk(f)'
<1>1. SUFFICES ASSUME NEW f \in Ends PROVE Talk(f)'
  OBVIOUS
<1>2. CASE f = e
  BY <1>2
<1>3. CASE f = Peer(e)
  <2>1. Peer(f) = e /\ Peer(e) = f
    BY <1>3, EndFacts
  <2>2. Role(e)' \in Roles /\ Role(f)' = Partner(Role(e)')
    BY <1>3, RoleOfPeerNext
  <2>3. Talking(Role(e)', todo'[e], buf'[e], sent'[e], todo'[f], buf'[f], sent'[f])
    BY <2>1 DEF Talk
  <2>4. Talking(Role(f)', todo'[f], buf'[f], sent'[f], todo'[e], buf'[e], sent'[e])
    BY <2>2, <2>3, TalkingSymmetric
  <2> QED
    BY <2>1, <2>4 DEF Talk
<1>4. CASE f \notin {e, Peer(e)}
  <2>1. Peer(f) \in Ends /\ Peer(f) \notin {e, Peer(e)}
    BY <1>4, EndFacts
  <2>2. /\ todo'[f] = todo[f] /\ buf'[f] = buf[f] /\ sent'[f] = sent[f]
        /\ owner'[f] = owner[f]
    BY <1>4
  <2>3. /\ todo'[Peer(f)] = todo[Peer(f)] /\ buf'[Peer(f)] = buf[Peer(f)]
        /\ sent'[Peer(f)] = sent[Peer(f)] /\ owner'[Peer(f)] = owner[Peer(f)]
    BY <2>1
  <2>4. owner'[<<f[1], "client">>] = owner[<<f[1], "client">>]
    BY <2>2, <2>3, ClientEnd
  <2>5. Role(f)' = Role(f)
    BY <2>4 DEF Role
  <2>6. Talking(Role(f), todo[f], buf[f], sent[f], todo[Peer(f)], buf[Peer(f)], sent[Peer(f)])
    BY DEF Talk
  <2> QED
    BY <2>2, <2>3, <2>5, <2>6 DEF Talk
<1> QED
  BY <1>2, <1>3, <1>4

\* A step of the thread at e, which may touch the buffers of both ends.
LEMMA StepAt ==
  ASSUME SessionInv, NEW e \in Ends, owner' = owner, open' = open,
         NEW c \in Seq(Acts), todo' = [todo EXCEPT ![e] = c],
         NEW n \in Nat, sent' = [sent EXCEPT ![e] = n],
         \A f \in Ends : f \notin {e, Peer(e)} => buf'[f] = buf[f],
         c # <<>> => todo[e] # <<>>,
         IF c # <<>> /\ Head(c)[1] = "send" THEN n < Chunks(Head(c)[2]) ELSE n = 0,
         Talking(Role(e), c, buf'[e], n, todo[Peer(e)], buf'[Peer(e)], sent[Peer(e)])
  PROVE  /\ todo' \in [Ends -> Seq(Acts)] /\ sent' \in [Ends -> Nat]
         /\ \A f \in Ends : sent'[f] < CHAIN_CHUNKS
         /\ \A f \in Ends : Begun(f)'
         /\ \A f \in Ends : Talk(f)'
<1>1. /\ todo \in [Ends -> Seq(Acts)] /\ sent \in [Ends -> Nat]
      /\ \A f \in Ends : Begun(f)
      /\ \A f \in Ends : Talk(f)
      /\ \A f \in Ends : sent[f] < CHAIN_CHUNKS
  BY DEF SessionInv, TypeOK
<1>2. todo' \in [Ends -> Seq(Acts)] /\ sent' \in [Ends -> Nat]
  BY <1>1
<1>3. todo'[e] = c /\ sent'[e] = n
  BY <1>1
<1>4. \A f \in Ends : f # e => todo'[f] = todo[f] /\ sent'[f] = sent[f]
  BY <1>1
<1>5. n < CHAIN_CHUNKS
  BY ChunkCounts
<1>6. \A f \in Ends : sent'[f] < CHAIN_CHUNKS
  BY <1>1, <1>3, <1>4, <1>5
<1>7. ASSUME NEW f \in Ends PROVE Begun(f)'
  <2>1. CASE f = e
    <3>1. Begun(e)
      BY <1>1
    <3>2. c # <<>> => open'[e]
      BY <3>1 DEF Begun
    <3>3. Chunks(Head(c)[2]) \in Nat
      BY ChunkCounts
    <3> QED
      BY <1>3, <2>1, <3>2, <3>3 DEF Begun
  <2>2. CASE f # e
    <3>1. Begun(f)
      BY <1>1
    <3> QED
      BY <1>4, <2>2, <3>1 DEF Begun
  <2> QED
    BY <2>1, <2>2
<1>8. Talk(e)'
  <2>1. Role(e)' = Role(e)
    BY DEF Role
  <2>2. todo'[Peer(e)] = todo[Peer(e)] /\ sent'[Peer(e)] = sent[Peer(e)]
    BY <1>4, EndFacts
  <2> QED
    BY <1>3, <2>1, <2>2 DEF Talk
<1>9. \A f \in Ends : Talk(f)'
  BY <1>1, <1>4, <1>8, TalkElsewhere
<1> QED
  BY <1>2, <1>6, <1>7, <1>9

LEMMA InvParts ==
  ASSUME SessionInv, NEW e \in Ends
  PROVE  /\ todo[e] \in Seq(Acts) /\ sent[e] \in Nat /\ buf[e] \in Seq(Commands \X Nat)
         /\ Len(buf[e]) <= BUFFER /\ Begun(e)
         /\ Talking(Role(e), todo[e], buf[e], sent[e],
                    todo[Peer(e)], buf[Peer(e)], sent[Peer(e)])
         /\ Role(e) \in Roles
<1>1. /\ todo[e] \in Seq(Acts) /\ sent[e] \in Nat /\ buf[e] \in Seq(Commands \X Nat)
      /\ Len(buf[e]) <= BUFFER /\ Begun(e)
  BY DEF SessionInv, TypeOK
<1>2. Talk(e)
  BY DEF SessionInv
<1> QED
  BY <1>1, <1>2, RoleOfPeer DEF Talk

LEMMA TailOfCalls ==
  ASSUME NEW c \in Seq(Acts), c # <<>>
  PROVE  Tail(c) \in Seq(Acts)
  OBVIOUS

LEMMA SendChunkSafe ==
  ASSUME SessionInv, NEW e \in Ends, SendChunk(e)
  PROVE  SessionInv'
<1>1. Peer(e) \in Ends /\ Peer(e) # e
  BY EndFacts
<1>2. /\ todo[e] \in Seq(Acts) /\ sent[e] \in Nat /\ Begun(e) /\ Role(e) \in Roles
      /\ Talking(Role(e), todo[e], buf[e], sent[e],
                 todo[Peer(e)], buf[Peer(e)], sent[Peer(e)])
  BY InvParts
<1>3. buf[Peer(e)] \in Seq(Commands \X Nat)
  BY <1>1, InvParts
<1>4. /\ todo[e] # <<>> /\ Head(todo[e])[1] = "send"
      /\ Len(buf[Peer(e)]) < BUFFER
      /\ owner' = owner /\ open' = open
  BY DEF SendChunk, Calls
<1>5. sent[e] < Chunks(Head(todo[e])[2])
  BY <1>2, <1>4, ChunkCounts DEF Begun
<1>6. PICK ch : ch = <<Head(todo[e])[2], sent[e] + 1>>
  OBVIOUS
<1>7. buf' = [buf EXCEPT ![Peer(e)] = Append(buf[Peer(e)], ch)]
  BY <1>6 DEF SendChunk, Command
<1>8. /\ Talking(Role(e), todo[e], buf[e], sent[e] + 1,
                 todo[Peer(e)], Append(buf[Peer(e)], ch), sent[Peer(e)])
      /\ sent[e] + 1 = Chunks(Head(todo[e])[2]) =>
           Talking(Role(e), Tail(todo[e]), buf[e], 0,
                   todo[Peer(e)], Append(buf[Peer(e)], ch), sent[Peer(e)])
      /\ ch \in Commands \X Nat
  BY <1>2, <1>3, <1>4, <1>5, <1>6, SendsChunk
<1>9. buf \in [Ends -> Seq(Commands \X Nat)] /\ \A f \in Ends : Len(buf[f]) <= BUFFER
  BY DEF SessionInv, TypeOK
<1>10. BUFFER \in Nat
  BY SessionAssumption
<1>11. Append(buf[Peer(e)], ch) \in Seq(Commands \X Nat) /\ Len(Append(buf[Peer(e)], ch)) <= BUFFER
  BY <1>3, <1>4, <1>8, <1>10
<1>12. /\ buf' \in [Ends -> Seq(Commands \X Nat)] /\ \A f \in Ends : Len(buf'[f]) <= BUFFER
       /\ buf'[Peer(e)] = Append(buf[Peer(e)], ch) /\ buf'[e] = buf[e]
       /\ \A f \in Ends : f \notin {e, Peer(e)} => buf'[f] = buf[f]
  BY <1>1, <1>7, <1>9, <1>11
<1>13. /\ todo' \in [Ends -> Seq(Acts)] /\ sent' \in [Ends -> Nat]
       /\ \A f \in Ends : sent'[f] < CHAIN_CHUNKS
       /\ \A f \in Ends : Begun(f)'
       /\ \A f \in Ends : Talk(f)'
  <2>1. CASE sent[e] + 1 = Chunks(Head(todo[e])[2])
    <3>1. PICK c \in Seq(Acts) : c = Tail(todo[e])
      BY <1>2, <1>4, TailOfCalls
    <3>2. todo' = [todo EXCEPT ![e] = c] /\ sent' = [sent EXCEPT ![e] = 0]
      BY <2>1, <3>1 DEF SendChunk, Command, Proceeds
    <3>3. Chunks(Head(c)[2]) \in Nat /\ 0 < Chunks(Head(c)[2])
      BY ChunkCounts
    <3>4. Talking(Role(e), c, buf'[e], 0, todo[Peer(e)], buf'[Peer(e)], sent[Peer(e)])
      BY <1>8, <1>12, <2>1, <3>1
    <3> QED
      BY <1>4, <1>12, <3>2, <3>3, <3>4, StepAt
  <2>2. CASE sent[e] + 1 # Chunks(Head(todo[e])[2])
    <3>1. todo' = [todo EXCEPT ![e] = todo[e]] /\ sent' = [sent EXCEPT ![e] = sent[e] + 1]
      BY <2>2 DEF SendChunk, Command, SessionInv
    <3>2. sent[e] + 1 < Chunks(Head(todo[e])[2]) /\ sent[e] + 1 \in Nat
      BY <1>2, <1>5, <2>2, ChunkCounts
    <3>3. Talking(Role(e), todo[e], buf'[e], sent[e] + 1,
                  todo[Peer(e)], buf'[Peer(e)], sent[Peer(e)])
      BY <1>8, <1>12
    <3> QED
      BY <1>2, <1>4, <1>12, <3>1, <3>2, <3>3, StepAt
  <2> QED
    BY <2>1, <2>2
<1>14. payment' \in [Senders -> {"unsent", "begun", "sent", "handled", "lost"}]
  BY DEF SendChunk, SessionInv, TypeOK
<1>15. UNCHANGED <<status, mutex, turn, owner, open>>
  BY DEF SendChunk
<1> QED
  BY <1>12, <1>13, <1>14, <1>15 DEF SessionInv, TypeOK

\* A thread that is not sending has sent all of its last message.
LEMMA NotSending ==
  ASSUME SessionInv, NEW e \in Ends, todo[e] # <<>>, Head(todo[e])[1] # "send"
  PROVE  sent[e] = 0
  BY InvParts DEF Begun

\* StepAt for a thread that is not sending, and buffers that shrink.
LEMMA StepInv ==
  ASSUME SessionInv, NEW e \in Ends, owner' = owner, open' = open,
         status' = status, turn' = turn,
         mutex' \in [Nodes -> Ends \cup {NoOne, Mining}],
         payment' \in [Senders -> {"unsent", "begun", "sent", "handled", "lost"}],
         NEW c \in Seq(Acts), todo' = [todo EXCEPT ![e] = c],
         c # <<>> => todo[e] # <<>>,
         sent' = [sent EXCEPT ![e] = 0],
         NEW b \in Seq(Commands \X Nat), Len(b) <= Len(buf[e]),
         buf' = [buf EXCEPT ![e] = b],
         Talking(Role(e), c, b, 0, todo[Peer(e)], buf[Peer(e)], sent[Peer(e)])
  PROVE  SessionInv'
<1>1. Peer(e) \in Ends /\ Peer(e) # e
  BY EndFacts
<1>2. buf \in [Ends -> Seq(Commands \X Nat)] /\ \A f \in Ends : Len(buf[f]) <= BUFFER
  BY DEF SessionInv, TypeOK
<1>3. BUFFER \in Nat /\ Len(b) \in Nat /\ Len(buf[e]) \in Nat /\ Len(buf[e]) <= BUFFER
  BY <1>2, SessionAssumption
<1>4. Len(b) <= BUFFER
  BY <1>3
<1>5. /\ buf' \in [Ends -> Seq(Commands \X Nat)] /\ \A f \in Ends : Len(buf'[f]) <= BUFFER
      /\ buf'[e] = b /\ \A f \in Ends : f # e => buf'[f] = buf[f]
  BY <1>2, <1>4
<1>6. Chunks(Head(c)[2]) \in Nat /\ 0 < Chunks(Head(c)[2]) /\ 0 \in Nat
  BY ChunkCounts
<1>7. Talking(Role(e), c, buf'[e], 0, todo[Peer(e)], buf'[Peer(e)], sent[Peer(e)])
  BY <1>1, <1>5
<1>8. /\ todo' \in [Ends -> Seq(Acts)] /\ sent' \in [Ends -> Nat]
      /\ \A f \in Ends : sent'[f] < CHAIN_CHUNKS
      /\ \A f \in Ends : Begun(f)'
      /\ \A f \in Ends : Talk(f)'
  BY <1>1, <1>5, <1>6, <1>7, StepAt
<1> QED
  BY <1>5, <1>8 DEF SessionInv, TypeOK

\* The thread at e gives its connection up.
LEMMA GivesUpInv ==
  ASSUME SessionInv, NEW e \in Ends, owner' = owner, open' = open,
         status' = status, turn' = turn,
         mutex' \in [Nodes -> Ends \cup {NoOne, Mining}],
         payment' \in [Senders -> {"unsent", "begun", "sent", "handled", "lost"}],
         GivesUp(e), todo[e] # <<>>, Head(todo[e])[1] # "send", sent' = sent,
         NEW b \in Seq(Commands \X Nat), Len(b) <= Len(buf[e]),
         buf' = [buf EXCEPT ![e] = b]
  PROVE  SessionInv'
<1>1. sent' = [sent EXCEPT ![e] = 0]
  BY NotSending DEF SessionInv
<1>2. PICK c \in Seq(Acts) : c = <<>>
  <2>1. <<>> \in Seq(Acts)
    OBVIOUS
  <2> QED
    BY <2>1, Zenon
<1>3. todo' = [todo EXCEPT ![e] = c]
  BY <1>2 DEF GivesUp
<1>4. buf[Peer(e)] \in Seq(Commands \X Nat)
  BY EndFacts, InvParts
<1>5. /\ Talking(Role(e), todo[e], buf[e], sent[e],
                 todo[Peer(e)], buf[Peer(e)], sent[Peer(e)])
      /\ Role(e) \in Roles
  BY InvParts
<1>6. Talking(Role(e), c, b, 0, todo[Peer(e)], buf[Peer(e)], sent[Peer(e)])
  BY <1>2, <1>4, <1>5, OneEndLeaves
<1> QED
  BY <1>1, <1>2, <1>3, <1>6, StepInv

LEMMA Kept ==
  ASSUME SessionInv, NEW e \in Ends
  PROVE  /\ mutex \in [Nodes -> Ends \cup {NoOne, Mining}]
         /\ payment \in [Senders -> {"unsent", "begun", "sent", "handled", "lost"}]
         /\ todo = [todo EXCEPT ![e] = todo[e]]
         /\ sent = [sent EXCEPT ![e] = sent[e]]
         /\ buf = [buf EXCEPT ![e] = buf[e]]
         /\ buf[e] \in Seq(Commands \X Nat)
         /\ Len(buf[e]) <= Len(buf[e])
  BY DEF SessionInv, TypeOK

LEMMA TailOfBuffer ==
  ASSUME NEW b \in Seq(Commands \X Nat), b # <<>>
  PROVE  Tail(b) \in Seq(Commands \X Nat) /\ Len(Tail(b)) <= Len(b)
  OBVIOUS

LEMMA ReceiveFailsSafe ==
  ASSUME SessionInv, NEW e \in Ends, ReceiveFails(e)
  PROVE  SessionInv'
<1>1. todo[e] # <<>> /\ Head(todo[e])[1] # "send"
  BY DEF ReceiveFails, Waits, Calls
<1>2. /\ GivesUp(e) /\ owner' = owner /\ open' = open /\ status' = status
      /\ turn' = turn /\ mutex' = mutex /\ payment' = payment /\ sent' = sent
      /\ buf' = buf
  BY DEF ReceiveFails
<1> QED
  BY <1>1, <1>2, Kept, GivesUpInv

LEMMA RefuseChainSafe ==
  ASSUME SessionInv, NEW e \in Ends, RefuseChain(e)
  PROVE  SessionInv'
<1>1. todo[e] # <<>> /\ Head(todo[e])[1] # "send" /\ buf[e] # <<>>
  BY DEF RefuseChain, Calls
<1>2. /\ GivesUp(e) /\ owner' = owner /\ open' = open /\ status' = status
      /\ turn' = turn /\ mutex' = mutex /\ payment' = payment /\ sent' = sent
      /\ buf' = [buf EXCEPT ![e] = Tail(buf[e])]
  BY DEF RefuseChain
<1>3. Tail(buf[e]) \in Seq(Commands \X Nat) /\ Len(Tail(buf[e])) <= Len(buf[e])
  BY <1>1, Kept, TailOfBuffer
<1> QED
  BY <1>1, <1>2, <1>3, Kept, GivesUpInv

LEMMA TakeLockSafe ==
  ASSUME SessionInv, NEW e \in Ends, TakeLock(e)
  PROVE  SessionInv'
<1>1. todo[e] # <<>> /\ Head(todo[e])[1] = "lock"
  BY DEF TakeLock, Calls
<1>2. /\ owner' = owner /\ open' = open /\ status' = status
      /\ turn' = turn /\ payment' = payment /\ sent' = sent /\ buf' = buf
      /\ todo' = [todo EXCEPT ![e] = Tail(todo[e])]
  BY DEF TakeLock, Proceeds
<1>3. mutex' \in [Nodes -> Ends \cup {NoOne, Mining}]
  BY Kept DEF TakeLock
<1>4. sent[e] = 0 /\ sent' = [sent EXCEPT ![e] = 0]
  BY <1>1, <1>2, NotSending, Kept
<1>5. /\ Talking(Role(e), todo[e], buf[e], sent[e],
                 todo[Peer(e)], buf[Peer(e)], sent[Peer(e)])
      /\ Role(e) \in Roles /\ todo[e] \in Seq(Acts)
  BY InvParts
<1>6. Talking(Role(e), Tail(todo[e]), buf[e], 0, todo[Peer(e)], buf[Peer(e)], sent[Peer(e)])
  BY <1>1, <1>4, <1>5, Advances
<1>7. Tail(todo[e]) \in Seq(Acts)
  BY <1>1, <1>5, TailOfCalls
<1> QED
  BY <1>1, <1>2, <1>3, <1>4, <1>6, <1>7, Kept, StepInv

LEMMA ReleaseLockSafe ==
  ASSUME SessionInv, NEW e \in Ends, ReleaseLock(e)
  PROVE  SessionInv'
<1>1. todo[e] # <<>> /\ Head(todo[e])[1] \in {"unlock", "extend", "accept"}
  BY DEF ReleaseLock, Calls
<1>2. /\ owner' = owner /\ open' = open /\ status' = status
      /\ turn' = turn /\ sent' = sent /\ buf' = buf
  BY DEF ReleaseLock
<1>3. mutex' \in [Nodes -> Ends \cup {NoOne, Mining}]
  BY Kept DEF ReleaseLock
<1>4. payment' \in [Senders -> {"unsent", "begun", "sent", "handled", "lost"}]
  BY Kept DEF ReleaseLock
<1>5. CASE GivesUp(e)
  BY <1>1, <1>2, <1>3, <1>4, <1>5, Kept, GivesUpInv
<1>6. CASE Proceeds(e)
  <2>1. todo' = [todo EXCEPT ![e] = Tail(todo[e])]
    BY <1>6 DEF Proceeds
  <2>2. sent[e] = 0 /\ sent' = [sent EXCEPT ![e] = 0]
    BY <1>1, <1>2, NotSending, Kept
  <2>3. /\ Talking(Role(e), todo[e], buf[e], sent[e],
                   todo[Peer(e)], buf[Peer(e)], sent[Peer(e)])
        /\ Role(e) \in Roles /\ todo[e] \in Seq(Acts)
    BY InvParts
  <2>4. Talking(Role(e), Tail(todo[e]), buf[e], 0, todo[Peer(e)], buf[Peer(e)], sent[Peer(e)])
    BY <1>1, <2>2, <2>3, Advances
  <2>5. Tail(todo[e]) \in Seq(Acts)
    BY <1>1, <2>3, TailOfCalls
  <2> QED
    BY <1>1, <1>2, <1>3, <1>4, <2>1, <2>2, <2>4, <2>5, Kept, StepInv
<1> QED
  BY <1>5, <1>6 DEF ReleaseLock

LEMMA SendFailsSafe ==
  ASSUME SessionInv, NEW e \in Ends, SendFails(e)
  PROVE  SessionInv'
<1>1. todo[e] # <<>> /\ Head(todo[e])[1] = "send" /\ ~open[Peer(e)]
  BY DEF SendFails, Calls
<1>2. /\ owner' = owner /\ open' = open /\ status' = status
      /\ turn' = turn /\ mutex' = mutex
      /\ todo' = [todo EXCEPT ![e] = Tail(todo[e])]
      /\ sent' = [sent EXCEPT ![e] = 0]
  BY DEF SendFails, Proceeds
<1>3. Peer(e) \in Ends
  BY EndFacts
<1>4. todo[Peer(e)] = <<>>
  BY <1>1, <1>3, InvParts DEF Begun
<1>5. /\ Talking(Role(e), todo[e], buf[e], sent[e],
                 todo[Peer(e)], buf[Peer(e)], sent[Peer(e)])
      /\ Role(e) \in Roles /\ todo[e] \in Seq(Acts) /\ buf[e] \in Seq(Commands \X Nat)
  BY InvParts
<1>6. Tail(todo[e]) \in Seq(Acts)
  BY <1>1, <1>5, TailOfCalls
<1>7. ASSUME NEW b \in {buf[e], <<>>}
      PROVE  Talking(Role(e), Tail(todo[e]), b, 0, todo[Peer(e)], buf[Peer(e)], sent[Peer(e)])
  BY <1>1, <1>4, <1>5, SendsInVain
<1>8. payment' \in [Senders -> {"unsent", "begun", "sent", "handled", "lost"}]
  BY Kept DEF SendFails, MayDiscard
<1>9. CASE buf' = buf
  BY <1>1, <1>2, <1>6, <1>7, <1>8, <1>9, Kept, StepInv
<1>10. CASE buf' = [buf EXCEPT ![e] = <<>>]
  <2>1. <<>> \in Seq(Commands \X Nat) /\ Len(<<>>) <= Len(buf[e])
    BY <1>5
  <2> QED
    BY <1>1, <1>2, <1>6, <1>7, <1>8, <1>10, <2>1, Kept, StepInv
<1> QED
  BY <1>9, <1>10 DEF SendFails, MayDiscard

(***************************************************************************)
(* What has arrived is what the thread waits for.                          *)
(***************************************************************************)
LEMMA ExpectedArrives ==
  ASSUME SessionInv, NEW e \in Ends, Waits(e), buf[e] # <<>>
  PROVE  Expects(e, Head(buf[e])[1])
<1>1. /\ Talking(Role(e), todo[e], buf[e], sent[e],
                 todo[Peer(e)], buf[Peer(e)], sent[Peer(e)])
      /\ Role(e) \in Roles /\ buf[e] \in Seq(Commands \X Nat)
  BY InvParts
<1>2. sent[Peer(e)] \in Nat
  BY EndFacts, InvParts
<1>3. CASE Calls(e, "serve")
  <2>1. todo[e] # <<>> /\ Head(todo[e])[1] = "serve"
    BY <1>3 DEF Calls
  <2>2. Answer(Head(buf[e])[1]) # <<>>
    BY <1>1, <1>2, <2>1, ServesRequest
  <2> QED
    BY <1>3, <2>2 DEF Expects
<1>4. CASE ~Calls(e, "serve")
  <2>1. todo[e] # <<>> /\ Head(todo[e])[1] = "receive"
    BY <1>4 DEF Waits, Calls
  <2>2. Head(buf[e])[1] = Head(todo[e])[2]
    BY <1>1, <1>2, <2>1, ReadsCommand
  <2> QED
    BY <1>4, <2>2 DEF Expects, Command
<1> QED
  BY <1>3, <1>4

LEMMA ReceiveChunkSafe ==
  ASSUME SessionInv, NEW e \in Ends, ReceiveChunk(e)
  PROVE  SessionInv'
<1>1. /\ todo[e] # <<>> /\ Head(todo[e])[1] \in {"receive", "serve"} /\ buf[e] # <<>>
      /\ Waits(e)
  BY DEF ReceiveChunk, Waits, Calls
<1>2. /\ owner' = owner /\ open' = open /\ status' = status
      /\ turn' = turn /\ mutex' = mutex /\ payment' = payment /\ sent' = sent
      /\ buf' = [buf EXCEPT ![e] = Tail(buf[e])]
  BY DEF ReceiveChunk
<1>3. Expects(e, Head(buf[e])[1])
  BY <1>1, ExpectedArrives
<1>4. /\ Talking(Role(e), todo[e], buf[e], sent[e],
                 todo[Peer(e)], buf[Peer(e)], sent[Peer(e)])
      /\ Role(e) \in Roles /\ buf[e] \in Seq(Commands \X Nat) /\ todo[e] \in Seq(Acts)
  BY InvParts
<1>5. sent[Peer(e)] \in Nat
  BY EndFacts, InvParts
<1>6. sent[e] = 0 /\ sent' = [sent EXCEPT ![e] = 0]
  BY <1>1, <1>2, NotSending, Kept
<1>7. Tail(buf[e]) \in Seq(Commands \X Nat) /\ Len(Tail(buf[e])) <= Len(buf[e])
  BY <1>1, <1>4, TailOfBuffer
<1>8. CASE Head(todo[e])[1] = "serve"
  <2>1. /\ Answer(Head(buf[e])[1]) # <<>> /\ Answer(Head(buf[e])[1]) \in Seq(Acts)
        /\ Head(buf[e])[2] = Chunks(Head(buf[e])[1])
        /\ Talking(Role(e), Answer(Head(buf[e])[1]), Tail(buf[e]), sent[e],
                   todo[Peer(e)], buf[Peer(e)], sent[Peer(e)])
    BY <1>1, <1>4, <1>5, <1>8, ServesRequest
  <2>2. Calls(e, "serve")
    BY <1>1, <1>8 DEF Waits, Calls
  <2>3. Chunks(Head(buf[e])[1]) \in Nat
    BY ChunkCounts
  <2>4. todo' = [todo EXCEPT ![e] = Answer(Head(buf[e])[1])]
    BY <1>3, <2>1, <2>2, <2>3 DEF ReceiveChunk
  <2> QED
    BY <1>1, <1>2, <1>6, <1>7, <2>1, <2>4, Kept, StepInv
<1>9. CASE Head(todo[e])[1] = "receive"
  <2>1. IF Head(buf[e])[2] < Chunks(Head(buf[e])[1])
        THEN Talking(Role(e), todo[e], Tail(buf[e]), sent[e],
                     todo[Peer(e)], buf[Peer(e)], sent[Peer(e)])
        ELSE Talking(Role(e), Tail(todo[e]), Tail(buf[e]), sent[e],
                     todo[Peer(e)], buf[Peer(e)], sent[Peer(e)])
    BY <1>1, <1>4, <1>5, <1>9, ReadsChunk
  <2>2. ~Calls(e, "serve")
    BY <1>9 DEF Calls
  <2>3. CASE Head(buf[e])[2] < Chunks(Head(buf[e])[1])
    <3>1. todo' = todo
      BY <2>3 DEF ReceiveChunk
    <3> QED
      BY <1>1, <1>2, <1>4, <1>6, <1>7, <2>1, <2>3, <3>1, Kept, StepInv
  <2>4. CASE ~(Head(buf[e])[2] < Chunks(Head(buf[e])[1]))
    <3>1. todo' = [todo EXCEPT ![e] = Tail(todo[e])]
      BY <1>3, <2>2, <2>4 DEF ReceiveChunk, Proceeds
    <3>2. Tail(todo[e]) \in Seq(Acts)
      BY <1>1, <1>4, TailOfCalls
    <3> QED
      BY <1>1, <1>2, <1>6, <1>7, <2>1, <2>4, <3>1, <3>2, Kept, StepInv
  <2> QED
    BY <2>3, <2>4
<1> QED
  BY <1>1, <1>8, <1>9

(***************************************************************************)
(* Ends that leave: a conversation in which nothing happens but that       *)
(* threads end, and that their ends' buffers or the other's are emptied.   *)
(***************************************************************************)
LEMMA TalkSubsides ==
  ASSUME SessionInv, NEW f \in Ends, NEW g, g = Peer(f),
         todo'[f] \in {todo[f], <<>>}, todo'[g] \in {todo[g], <<>>},
         todo'[f] # <<>> => buf'[f] \in {buf[f], <<>>} /\ sent'[f] = sent[f],
         todo'[g] # <<>> => buf'[g] \in {buf[g], <<>>} /\ sent'[g] = sent[g],
         todo'[f] # <<>> /\ todo'[g] # <<>> => buf'[f] = buf[f] /\ buf'[g] = buf[g],
         todo'[f] # <<>> \/ todo'[g] # <<>> => Role(f)' = Role(f)
  PROVE  Talk(f)'
<1>1. g \in Ends /\ Peer(g) = f
  BY EndFacts
<1>2. /\ Role(f) \in Roles /\ buf[f] \in Seq(Commands \X Nat)
      /\ Talking(Role(f), todo[f], buf[f], sent[f], todo[g], buf[g], sent[g])
  BY InvParts
<1>3. buf[g] \in Seq(Commands \X Nat)
  BY <1>1, InvParts
<1>4. SUFFICES Talking(Role(f)', todo'[f], buf'[f], sent'[f], todo'[g], buf'[g], sent'[g])
  BY DEF Talk
<1>5. CASE todo'[f] = <<>> /\ todo'[g] = <<>>
  BY <1>5, Silence
<1>6. CASE todo'[f] = <<>> /\ todo'[g] # <<>>
  <2>1. todo'[g] = todo[g] /\ buf'[g] \in {buf[g], <<>>} /\ Role(f)' = Role(f)
    BY <1>6
  <2>2. Talking(Role(f), <<>>, buf'[f], sent'[f], todo[g], buf'[g], sent'[g])
    BY <1>2, <1>3, <2>1, OneEndLeaves
  <2> QED
    BY <1>6, <2>1, <2>2
<1>7. CASE todo'[f] # <<>> /\ todo'[g] = <<>>
  <2>1. todo'[f] = todo[f] /\ buf'[f] \in {buf[f], <<>>} /\ Role(f)' = Role(f)
    BY <1>7
  <2>2. PICK role : role = Partner(Role(f))
    OBVIOUS
  <2>3. role \in Roles /\ Partner(role) = Role(f)
    BY <1>2, <2>2, RoleFacts
  <2>4. Talking(role, todo[g], buf[g], sent[g], todo[f], buf[f], sent[f])
    BY <1>2, <2>2, TalkingSymmetric
  <2>5. Talking(role, <<>>, buf'[g], sent'[g], todo[f], buf'[f], sent'[f])
    BY <1>2, <2>1, <2>3, <2>4, OneEndLeaves
  <2>6. Talking(Role(f), todo[f], buf'[f], sent'[f], <<>>, buf'[g], sent'[g])
    BY <2>3, <2>5, TalkingSymmetric
  <2> QED
    BY <1>7, <2>1, <2>6
<1>8. CASE todo'[f] # <<>> /\ todo'[g] # <<>>
  BY <1>2, <1>8
<1> QED
  BY <1>5, <1>6, <1>7, <1>8

LEMMA RoleKept ==
  ASSUME NEW f \in Ends, owner' = Owners(open'), open'[f] \/ open'[Peer(f)]
  PROVE  Role(f)' = Role(f)
<1>1. PICK x \in Ends : x = <<f[1], "client">>
  BY ClientEnd
<1>2. x \in {f, Peer(f)} /\ Peer(Peer(f)) = f
  BY <1>1, ClientEnd, EndFacts
<1>3. open'[x] \/ open'[Peer(x)]
  BY <1>2
<1>4. owner'[x] = owner[x]
  BY <1>3 DEF Owners
<1> QED
  BY <1>1, <1>4 DEF Role

LEMMA OwnersAreProcesses ==
  ASSUME SessionInv, NEW opened
  PROVE  Owners(opened) \in [Ends -> Nodes \cup Senders]
<1>1. Nobody \in Nodes
  BY SessionAssumption DEF Nobody
<1> QED
  BY <1>1 DEF Owners, SessionInv, TypeOK

LEMMA NextTurnKeepsRange ==
  ASSUME SessionInv, NEW n \in Nodes, NextTurn(n)
  PROVE  /\ turn' = [m \in Nodes |-> turn'[m]]
         /\ \A m \in Nodes : KnownPeers[m] # <<>> => turn'[m] \in 1 .. Len(KnownPeers[m])
<1>1. /\ turn = [m \in Nodes |-> turn[m]]
      /\ \A m \in Nodes : KnownPeers[m] # <<>> => turn[m] \in 1 .. Len(KnownPeers[m])
  BY DEF SessionInv
<1>2. turn' = [m \in Nodes |-> IF m = n THEN (turn[n] % Len(KnownPeers[n])) + 1 ELSE turn[m]]
  BY <1>1 DEF NextTurn
<1>3. turn' = [m \in Nodes |-> turn'[m]]
  BY <1>2
<1>4. ASSUME KnownPeers[n] # <<>>
      PROVE  (turn[n] % Len(KnownPeers[n])) + 1 \in 1 .. Len(KnownPeers[n])
  <2>1. turn[n] \in Nat /\ Len(KnownPeers[n]) \in Nat /\ Len(KnownPeers[n]) >= 1
    BY <1>1, <1>4, SessionAssumption
  <2> QED
    BY <2>1
<1> QED
  BY <1>1, <1>2, <1>3, <1>4

LEMMA CloseSafe ==
  ASSUME SessionInv, NEW e \in Ends, Close(e)
  PROVE  SessionInv'
<1>1. /\ todo[e] = <<>> /\ open' = [open EXCEPT ![e] = FALSE] /\ owner' = Owners(open')
      /\ status' = status /\ mutex' = mutex /\ todo' = todo /\ sent' = sent
  BY DEF Close
<1>2. Peer(e) \in Ends /\ Peer(e) # e /\ Peer(Peer(e)) = e
  BY EndFacts
<1>3. open \in [Ends -> BOOLEAN] /\ buf \in [Ends -> Seq(Commands \X Nat)]
  BY DEF SessionInv, TypeOK
<1>4. open' \in [Ends -> BOOLEAN] /\ \A f \in Ends : f # e => open'[f] = open[f]
  BY <1>1, <1>3
<1>5. owner' \in [Ends -> Nodes \cup Senders]
  BY <1>1, OwnersAreProcesses
<1>6. /\ buf' \in [Ends -> Seq(Commands \X Nat)]
      /\ \A f \in Ends : buf'[f] \in {buf[f], <<>>}
      /\ \A f \in Ends : f \notin {e, Peer(e)} => buf'[f] = buf[f]
  <2>1. CASE buf' = buf
    BY <1>3, <2>1
  <2>2. CASE buf' # buf
    <3>1. PICK lost \in BOOLEAN :
            buf' = [buf EXCEPT ![e] = <<>>, ![Peer(e)] = IF lost THEN <<>> ELSE buf[Peer(e)]]
      BY <1>2, <2>2 DEF Close
    <3>2. <<>> \in Seq(Commands \X Nat)
      OBVIOUS
    <3> QED
      BY <1>2, <1>3, <3>1, <3>2
  <2> QED
    BY <2>1, <2>2
<1>7. \A f \in Ends : Len(buf'[f]) <= BUFFER
  <2>1. BUFFER \in Nat /\ Len(<<>>) = 0
    BY SessionAssumption
  <2> QED
    BY <1>6, <2>1 DEF SessionInv, TypeOK
<1>8. payment' \in [Senders -> {"unsent", "begun", "sent", "handled", "lost"}]
  BY Kept DEF Close
<1>9. /\ turn' = [m \in Nodes |-> turn'[m]]
      /\ \A m \in Nodes : KnownPeers[m] # <<>> => turn'[m] \in 1 .. Len(KnownPeers[m])
  <2>1. CASE e[2] = "client" /\ owner[e] \in Nodes
    BY <2>1, NextTurnKeepsRange DEF Close
  <2>2. CASE ~(e[2] = "client" /\ owner[e] \in Nodes)
    BY <2>2 DEF Close, SessionInv
  <2> QED
    BY <2>1, <2>2
<1>10. ASSUME NEW f \in Ends PROVE Begun(f)'
  <2>1. Begun(f)
    BY InvParts
  <2> QED
    BY <1>1, <1>4, <2>1 DEF Begun
<1>11. ASSUME NEW f \in Ends PROVE Talk(f)'
  <2>1. PICK g \in Ends : g = Peer(f)
    BY EndFacts
  <2>2. todo[f] # <<>> \/ todo[g] # <<>> => Role(f)' = Role(f)
    <3>1. todo[f] # <<>> => open'[f]
      BY <1>1, <1>10 DEF Begun
    <3>2. todo[g] # <<>> => open'[g]
      BY <1>1, <1>10, <2>1 DEF Begun
    <3> QED
      BY <1>1, <2>1, <3>1, <3>2, RoleKept
  <2>3. todo[f] # <<>> /\ todo[g] # <<>> => buf'[f] = buf[f] /\ buf'[g] = buf[g]
    <3>1. SUFFICES ASSUME todo[f] # <<>>, todo[g] # <<>>
                   PROVE  buf'[f] = buf[f] /\ buf'[g] = buf[g]
      OBVIOUS
    <3>2. f # e /\ g # e
      BY <1>1, <3>1
    <3>3. f # Peer(e) /\ g # Peer(e)
      BY <1>2, <2>1, <3>2, EndFacts
    <3> QED
      BY <1>6, <2>1, <3>2, <3>3
  <2>4. buf'[f] \in {buf[f], <<>>} /\ buf'[g] \in {buf[g], <<>>}
    BY <1>6, <2>1
  <2> QED
    BY <1>1, <2>1, <2>2, <2>3, <2>4, TalkSubsides
<1> QED
  BY <1>1, <1>4, <1>5, <1>6, <1>7, <1>8, <1>9, <1>10, <1>11 DEF SessionInv, TypeOK

LEMMA DiesSafe ==
  ASSUME SessionInv, NEW n \in Nodes, Dies(n)
  PROVE  SessionInv'
<1> DEFINE Lost(e) == open[e] /\ owner[e] = n
<1>1. /\ status' = [status EXCEPT ![n] = "down"]
      /\ mutex'  = [mutex EXCEPT ![n] = NoOne]
      /\ turn'   = [turn EXCEPT ![n] = 1]
      /\ open'   = [e \in Ends |-> open[e] /\ ~Lost(e)]
      /\ owner'  = Owners(open')
      /\ todo'   = [e \in Ends |-> IF Lost(e) THEN <<>> ELSE todo[e]]
      /\ sent'   = [e \in Ends |-> IF Lost(e) THEN 0 ELSE sent[e]]
      /\ buf'    = [e \in Ends |-> IF Lost(e) THEN <<>> ELSE buf[e]]
  BY DEF Dies
<1>2. payment' \in [Senders -> {"unsent", "begun", "sent", "handled", "lost"}]
  BY DEF Dies, SessionInv, TypeOK
<1>3. status' \in [Nodes -> {"up", "down", "stalled"}]
  BY <1>1 DEF SessionInv, TypeOK
<1>4. mutex' \in [Nodes -> Ends \cup {NoOne, Mining}]
  BY <1>1 DEF SessionInv, TypeOK
<1>5. /\ turn' = [m \in Nodes |-> turn'[m]]
      /\ \A m \in Nodes : KnownPeers[m] # <<>> => turn'[m] \in 1 .. Len(KnownPeers[m])
  <2>1. /\ turn = [m \in Nodes |-> turn[m]]
        /\ \A m \in Nodes : KnownPeers[m] # <<>> => turn[m] \in 1 .. Len(KnownPeers[m])
    BY DEF SessionInv
  <2>2. turn' = [m \in Nodes |-> IF m = n THEN 1 ELSE turn[m]]
    BY <1>1, <2>1
  <2>3. turn' = [m \in Nodes |-> turn'[m]]
    BY <2>2
  <2>4. KnownPeers[n] # <<>> => 1 \in 1 .. Len(KnownPeers[n])
    BY SessionAssumption
  <2> QED
    BY <2>1, <2>2, <2>3, <2>4
<1>6. open' \in [Ends -> BOOLEAN]
  BY <1>1 DEF SessionInv, TypeOK
<1>7. owner' \in [Ends -> Nodes \cup Senders]
  BY <1>1, OwnersAreProcesses
<1>8. /\ todo' \in [Ends -> Seq(Acts)] /\ sent' \in [Ends -> Nat]
      /\ buf' \in [Ends -> Seq(Commands \X Nat)]
  <2>1. <<>> \in Seq(Acts) /\ <<>> \in Seq(Commands \X Nat) /\ 0 \in Nat
    OBVIOUS
  <2> QED
    BY <1>1, <2>1 DEF SessionInv
<1>9. \A e \in Ends : Len(buf'[e]) <= BUFFER /\ sent'[e] < CHAIN_CHUNKS
  <2>1. BUFFER \in Nat /\ Len(<<>>) = 0 /\ 0 < CHAIN_CHUNKS
    BY SessionAssumption
  <2> QED
    BY <1>1, <2>1 DEF SessionInv, TypeOK
<1>10. ASSUME NEW e \in Ends
       PROVE  IF Lost(e) THEN todo'[e] = <<>> /\ sent'[e] = 0 /\ ~open'[e]
              ELSE /\ todo'[e] = todo[e] /\ sent'[e] = sent[e] /\ buf'[e] = buf[e]
                   /\ open'[e] = open[e]
  BY <1>1 DEF SessionInv, TypeOK
<1> HIDE DEF Lost
<1>11. ASSUME NEW e \in Ends PROVE Begun(e)'
  <2>1. Begun(e)
    BY InvParts
  <2>2. CASE Lost(e)
    <3>1. todo'[e] = <<>> /\ sent'[e] = 0
      BY <1>10, <2>2
    <3> QED
      BY <3>1 DEF Begun
  <2>3. CASE ~Lost(e)
    <3>1. todo'[e] = todo[e] /\ sent'[e] = sent[e] /\ open'[e] = open[e]
      BY <1>10, <2>3
    <3> QED
      BY <2>1, <3>1 DEF Begun
  <2> QED
    BY <2>2, <2>3
<1>12. ASSUME NEW f \in Ends PROVE Talk(f)'
  <2>1. PICK g \in Ends : g = Peer(f)
    BY EndFacts
  <2>2. todo'[f] # <<>> \/ todo'[g] # <<>> => Role(f)' = Role(f)
    <3>1. todo'[f] # <<>> => open'[f]
      BY <1>11 DEF Begun
    <3>2. todo'[g] # <<>> => open'[g]
      BY <1>11, <2>1 DEF Begun
    <3> QED
      BY <1>1, <2>1, <3>1, <3>2, RoleKept
  <2>3. /\ todo'[f] \in {todo[f], <<>>}
        /\ todo'[f] # <<>> => buf'[f] = buf[f] /\ sent'[f] = sent[f]
    BY <1>10
  <2>4. /\ todo'[g] \in {todo[g], <<>>}
        /\ todo'[g] # <<>> => buf'[g] = buf[g] /\ sent'[g] = sent[g]
    BY <1>10, <2>1
  <2> QED
    BY <2>1, <2>2, <2>3, <2>4, TalkSubsides
<1> QED
  BY <1>2, <1>3, <1>4, <1>5, <1>6, <1>7, <1>8, <1>9, <1>11, <1>12 DEF SessionInv, TypeOK

(***************************************************************************)
(* A new connection.                                                       *)
(***************************************************************************)
LEMMA OpenSafe ==
  ASSUME SessionInv, NEW k \in Conns, NEW client \in Nodes \cup Senders, NEW server \in Nodes,
         NEW calls, Open(k, client, server, calls),
         calls = IF client \in Senders THEN run_send_tx ELSE PollPeer,
         status' = status, mutex' = mutex, turn' = turn,
         payment' \in [Senders -> {"unsent", "begun", "sent", "handled", "lost"}]
  PROVE  SessionInv'
<1>1. PICK e, g \in Ends : e = <<k, "client">> /\ g = <<k, "server">>
  BY DEF Ends
<1>2. e # g /\ Peer(e) = g /\ e[1] = k /\ e[2] = "client"
  BY <1>1 DEF Peer
<1>3. /\ owner' = [owner EXCEPT ![e] = client, ![g] = server]
      /\ open' = [open EXCEPT ![e] = TRUE, ![g] = TRUE]
      /\ todo' = [todo EXCEPT ![e] = calls, ![g] = HandleConnection]
      /\ sent' = [sent EXCEPT ![e] = 0, ![g] = 0]
      /\ buf' = [buf EXCEPT ![e] = <<>>, ![g] = <<>>]
  BY <1>1 DEF Open
<1>4. PICK role \in Roles : role = IF client \in Senders THEN "pay" ELSE "poll"
  BY DEF Roles
<1>5. Todo(role, 0) = calls /\ Todo(Partner(role), 0) = HandleConnection
  BY <1>4, StartFacts DEF Partner
<1>6. calls \in Seq(Acts) /\ HandleConnection \in Seq(Acts)
  <2>1. CallCount(role) > 0 /\ Partner(role) \in Roles /\ CallCount(Partner(role)) > 0
    BY RoleFacts
  <2>2. Todo(role, 0) \in Seq(Acts) /\ Todo(Partner(role), 0) \in Seq(Acts)
    BY <2>1, TodoFacts
  <2> QED
    BY <1>5, <2>2
<1>7. /\ owner \in [Ends -> Nodes \cup Senders] /\ open \in [Ends -> BOOLEAN]
      /\ todo \in [Ends -> Seq(Acts)] /\ sent \in [Ends -> Nat]
      /\ buf \in [Ends -> Seq(Commands \X Nat)]
  BY DEF SessionInv, TypeOK
<1>8. <<>> \in Seq(Commands \X Nat) /\ Len(<<>>) = 0 /\ 0 \in Nat
  OBVIOUS
<1>9. /\ owner' \in [Ends -> Nodes \cup Senders] /\ open' \in [Ends -> BOOLEAN]
      /\ owner'[e] = client
      /\ open'[e] = TRUE /\ open'[g] = TRUE
  BY <1>2, <1>3, <1>7
<1>10. /\ todo' \in [Ends -> Seq(Acts)]
       /\ todo'[e] = calls /\ todo'[g] = HandleConnection
  BY <1>2, <1>3, <1>6, <1>7
<1>11. /\ sent' \in [Ends -> Nat] /\ buf' \in [Ends -> Seq(Commands \X Nat)]
       /\ sent'[e] = 0 /\ sent'[g] = 0 /\ buf'[e] = <<>> /\ buf'[g] = <<>>
  BY <1>2, <1>3, <1>7, <1>8
<1>12. \A f \in Ends : f \notin {e, g} =>
         /\ owner'[f] = owner[f] /\ open'[f] = open[f] /\ todo'[f] = todo[f]
         /\ sent'[f] = sent[f] /\ buf'[f] = buf[f]
  BY <1>3, <1>7
<1>13. ASSUME NEW f \in Ends PROVE Len(buf'[f]) <= BUFFER /\ sent'[f] < CHAIN_CHUNKS
  <2>1. BUFFER \in Nat /\ 0 < CHAIN_CHUNKS
    BY SessionAssumption
  <2>2. Len(buf[f]) <= BUFFER /\ sent[f] < CHAIN_CHUNKS
    BY DEF SessionInv, TypeOK
  <2>3. CASE f \in {e, g}
    BY <1>8, <1>11, <2>1, <2>3
  <2>4. CASE f \notin {e, g}
    BY <1>12, <2>2, <2>4
  <2> QED
    BY <2>3, <2>4
<1>14. ASSUME NEW f \in Ends PROVE Begun(f)'
  <2>1. CASE f \in {e, g}
    <3>1. open'[f] /\ sent'[f] = 0
      BY <1>9, <1>11, <2>1
    <3>2. Chunks(Head(todo'[f])[2]) \in Nat /\ 0 < Chunks(Head(todo'[f])[2])
      BY ChunkCounts
    <3> QED
      BY <3>1, <3>2 DEF Begun
  <2>2. CASE f \notin {e, g}
    <3>1. Begun(f)
      BY InvParts
    <3>2. open'[f] = open[f] /\ todo'[f] = todo[f] /\ sent'[f] = sent[f]
      BY <1>12, <2>2
    <3> QED
      BY <3>1, <3>2 DEF Begun
  <2> QED
    BY <2>1, <2>2
<1>15. Talk(e)'
  <2>1. Role(e)' = role
    BY <1>1, <1>2, <1>4, <1>9 DEF Role
  <2>2. Talking(role, calls, <<>>, 0, HandleConnection, <<>>, 0)
    BY <1>5, Begins
  <2> QED
    BY <1>2, <1>10, <1>11, <2>1, <2>2 DEF Talk
<1>16. \A f \in Ends : Talk(f)'
  <2>1. \A f \in Ends : Talk(f)
    BY DEF SessionInv
  <2>2. \A f \in Ends : f \notin {e, Peer(e)} =>
          /\ todo'[f] = todo[f] /\ buf'[f] = buf[f] /\ sent'[f] = sent[f]
          /\ owner'[f] = owner[f]
    BY <1>2, <1>12
  <2> QED
    BY <1>15, <2>1, <2>2, TalkElsewhere
<1> QED
  BY <1>9, <1>10, <1>11, <1>13, <1>14, <1>16 DEF SessionInv, TypeOK

LEMMA ConnectSafe ==
  ASSUME SessionInv, NEW n \in Nodes, Connect(n)
  PROVE  SessionInv'
<1>1. KnownPeers[n] # <<>> /\ status' = status /\ mutex' = mutex /\ payment' = payment
  BY DEF Connect
<1>2. KnownPeers[n][turn[n]] \in Nodes
  <2>1. turn[n] \in 1 .. Len(KnownPeers[n])
    BY <1>1 DEF SessionInv
  <2> QED
    BY <2>1, SessionAssumption
<1>3. CASE status[KnownPeers[n][turn[n]]] = "down"
  <2>1. NextTurn(n) /\ UNCHANGED <<owner, open, todo, sent, buf>>
    BY <1>3 DEF Connect
  <2>2. /\ turn' = [m \in Nodes |-> turn'[m]]
        /\ \A m \in Nodes : KnownPeers[m] # <<>> => turn'[m] \in 1 .. Len(KnownPeers[m])
    BY <2>1, NextTurnKeepsRange
  <2> QED
    BY <1>1, <2>1, <2>2 DEF SessionInv, TypeOK, Begun, Talk, Role
<1>4. CASE status[KnownPeers[n][turn[n]]] # "down"
  <2>1. PICK k \in Conns : Open(k, n, KnownPeers[n][turn[n]], PollPeer)
    BY <1>4 DEF Connect
  <2>2. turn' = turn /\ n \notin Senders
    BY <1>4, SessionAssumption DEF Connect
  <2>3. payment' \in [Senders -> {"unsent", "begun", "sent", "handled", "lost"}]
    BY <1>1 DEF SessionInv, TypeOK
  <2> QED
    BY <1>1, <1>2, <2>1, <2>2, <2>3, OpenSafe
<1> QED
  BY <1>3, <1>4

LEMMA PaySafe ==
  ASSUME SessionInv, NEW s \in Senders, Pay(s)
  PROVE  SessionInv'
<1>1. PICK k \in Conns : Open(k, s, Target[s], run_send_tx)
  BY DEF Pay
<1>2. status' = status /\ mutex' = mutex /\ turn' = turn /\ Target[s] \in Nodes
  BY SessionAssumption DEF Pay
<1>3. payment' \in [Senders -> {"unsent", "begun", "sent", "handled", "lost"}]
  BY DEF Pay, SessionInv, TypeOK
<1> QED
  BY <1>1, <1>2, <1>3, OpenSafe

\* Nothing of a conversation depends on the states of the nodes.
LEMMA NodeStepSafe ==
  ASSUME SessionInv, UNCHANGED <<turn, owner, open, todo, sent, buf, payment>>,
         status' \in [Nodes -> {"up", "down", "stalled"}],
         mutex' \in [Nodes -> Ends \cup {NoOne, Mining}]
  PROVE  SessionInv'
  BY DEF SessionInv, TypeOK, Begun, Talk, Role

LEMMA InitSafe ==
  ASSUME Init
  PROVE  SessionInv
<1>1. Nobody \in Nodes
  BY SessionAssumption DEF Nobody
<1>2. <<>> \in Seq(Acts) /\ <<>> \in Seq(Commands \X Nat) /\ Len(<<>>) = 0 /\ 0 \in Nat
  OBVIOUS
<1>3. BUFFER \in Nat /\ 0 < CHAIN_CHUNKS
  BY SessionAssumption
<1>4. TypeOK
  BY <1>1, <1>2, <1>3 DEF Init, TypeOK
<1>5. /\ turn = [n \in Nodes |-> turn[n]]
      /\ \A n \in Nodes : KnownPeers[n] # <<>> => turn[n] \in 1 .. Len(KnownPeers[n])
  <2>1. \A n \in Nodes : KnownPeers[n] # <<>> => 1 \in 1 .. Len(KnownPeers[n])
    BY SessionAssumption
  <2> QED
    BY <2>1 DEF Init
<1>6. /\ todo \in [Ends -> Seq(Acts)] /\ sent \in [Ends -> Nat]
      /\ buf \in [Ends -> Seq(Commands \X Nat)]
  BY <1>2 DEF Init
<1>7. \A e \in Ends : Begun(e)
  BY DEF Init, Begun
<1>8. ASSUME NEW e \in Ends PROVE Talk(e)
  <2>1. todo[e] = <<>> /\ todo[Peer(e)] = <<>>
    BY EndFacts DEF Init
  <2> QED
    BY <2>1, Silence DEF Talk
<1> QED
  BY <1>4, <1>5, <1>6, <1>7, <1>8 DEF SessionInv

LEMMA StepSafe ==
  ASSUME SessionInv, NEW e \in Ends, Step(e)
  PROVE  SessionInv'
<1>1. CASE SendChunk(e)
  BY <1>1, SendChunkSafe
<1>2. CASE SendFails(e)
  BY <1>2, SendFailsSafe
<1>3. CASE BrokenPipe(e)
  BY <1>3, DiesSafe DEF BrokenPipe
<1>4. CASE ReceiveChunk(e)
  BY <1>4, ReceiveChunkSafe
<1>5. CASE RefuseChain(e)
  BY <1>5, RefuseChainSafe
<1>6. CASE ReceiveFails(e)
  BY <1>6, ReceiveFailsSafe
<1>7. CASE TakeLock(e)
  BY <1>7, TakeLockSafe
<1>8. CASE ReleaseLock(e)
  BY <1>8, ReleaseLockSafe
<1>9. CASE Close(e)
  BY <1>9, CloseSafe
<1> QED
  BY <1>1, <1>2, <1>3, <1>4, <1>5, <1>6, <1>7, <1>8, <1>9 DEF Step

LEMMA NextSafe ==
  ASSUME SessionInv, [Next \/ \E n \in Nodes : Stall(n)]_vars
  PROVE  SessionInv'
<1>1. /\ status \in [Nodes -> {"up", "down", "stalled"}]
      /\ mutex \in [Nodes -> Ends \cup {NoOne, Mining}]
  BY DEF SessionInv, TypeOK
<1>2. ASSUME NEW e \in Ends, Step(e) PROVE SessionInv'
  BY <1>2, StepSafe
<1>3. ASSUME NEW s \in Senders, Pay(s) PROVE SessionInv'
  BY <1>3, PaySafe
<1>4. ASSUME NEW n \in Nodes, Connect(n) PROVE SessionInv'
  BY <1>4, ConnectSafe
<1>5. ASSUME NEW n \in Nodes, MineBegins(n) PROVE SessionInv'
  BY <1>1, <1>5, NodeStepSafe DEF MineBegins
<1>6. ASSUME NEW n \in Nodes, MineEnds(n) PROVE SessionInv'
  BY <1>1, <1>6, NodeStepSafe DEF MineEnds
<1>7. ASSUME NEW n \in Nodes, Crash(n) PROVE SessionInv'
  BY <1>7, DiesSafe DEF Crash
<1>8. ASSUME NEW n \in Nodes, Start(n) PROVE SessionInv'
  BY <1>1, <1>8, NodeStepSafe DEF Start
<1>9. ASSUME NEW n \in Nodes, Stall(n) PROVE SessionInv'
  BY <1>1, <1>9, NodeStepSafe DEF Stall
<1>10. CASE UNCHANGED vars
  BY <1>1, <1>10, NodeStepSafe DEF vars
<1> QED
  BY <1>2, <1>3, <1>4, <1>5, <1>6, <1>7, <1>8, <1>9, <1>10 DEF Next

-----------------------------------------------------------------------------
(***************************************************************************)
(* Every connection follows its script (SessionInv), whatever dies, is     *)
(* reset or stalls, and however small the socket buffers are.              *)
(***************************************************************************)
THEOREM SessionsFollowTheScript == SlowSpec => []SessionInv
<1>1. Init => SessionInv
  BY InitSafe
<1>2. SessionInv /\ [Next \/ \E n \in Nodes : Stall(n)]_vars => SessionInv'
  BY NextSafe
<1> QED
  BY <1>1, <1>2, PTL DEF SlowSpec

(***************************************************************************)
(* Type correctness of the sockets and their threads: no buffer overflows  *)
(* and no message is sent past its end.                                    *)
(***************************************************************************)
THEOREM SocketsTyped == Spec => []TypeOK
<1>1. Init => SessionInv
  BY InitSafe
<1>2. SessionInv /\ [Next]_vars => SessionInv'
  BY NextSafe
<1>3. SessionInv => TypeOK
  BY DEF SessionInv
<1> QED
  BY <1>1, <1>2, <1>3, PTL DEF Spec

(***************************************************************************)
(* No thread of HandleConnection, PollPeer or run_send_tx ever meets a     *)
(* command it does not expect: the branches of daemon.h that drop a        *)
(* connection for it are dead code between nodes of this program.          *)
(***************************************************************************)
THEOREM OnlyExpectedCommands == Spec => []CommandsExpected
<1>1. Init => SessionInv
  BY InitSafe
<1>2. SessionInv /\ [Next]_vars => SessionInv'
  BY NextSafe
<1>3. SessionInv => CommandsExpected
  BY ExpectedArrives DEF CommandsExpected
<1> QED
  BY <1>1, <1>2, <1>3, PTL DEF Spec
=============================================================================
