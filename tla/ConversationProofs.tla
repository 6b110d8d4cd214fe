------------------------- MODULE ConversationProofs -------------------------
(***************************************************************************)
(* What clients can make the daemon do, for any number of clients and      *)
(* users, any scripts, any system and any group database.                  *)
(***************************************************************************)
EXTENDS Conversation, FiniteSetTheorems, SequenceTheorems, TLAPS

-----------------------------------------------------------------------------
(* Queues.                                                                 *)

Waits(q, c) == \E i \in DOMAIN q : q[i] = c
Unique(q) == \A i, j \in DOMAIN q : q[i] = q[j] => i = j

LEMMA Enqueue ==
    ASSUME NEW q \in Seq(Clients), Unique(q), NEW c \in Clients, ~ Waits(q, c)
    PROVE  /\ Append(q, c) \in Seq(Clients)
           /\ Len(Append(q, c)) = Len(q) + 1
           /\ Unique(Append(q, c))
           /\ \A d : Waits(Append(q, c), d) <=> Waits(q, d) \/ d = c
<1> DEFINE after == Append(q, c)
<1>1. /\ after \in Seq(Clients)
      /\ Len(after) = Len(q) + 1
      /\ \A i \in 1..Len(q) : after[i] = q[i]
      /\ after[Len(q) + 1] = c
  OBVIOUS
<1>2. DOMAIN q = 1..Len(q) /\ DOMAIN after = 1..(Len(q) + 1) /\ Len(q) \in Nat
  BY <1>1
<1> HIDE DEF after
<1>3. DOMAIN after = DOMAIN q \cup {Len(q) + 1} /\ Len(q) + 1 \notin DOMAIN q
  BY <1>2
<1>4. \A i \in DOMAIN q : after[i] = q[i]
  BY <1>1, <1>2
<1>5. Unique(after)
  BY <1>1, <1>3, <1>4 DEF Unique, Waits
<1>6. \A d : Waits(after, d) <=> Waits(q, d) \/ d = c
  BY <1>1, <1>3, <1>4 DEF Waits
<1> QED
  BY <1>1, <1>5, <1>6 DEF after

LEMMA Dequeue ==
    ASSUME NEW q \in Seq(Clients), Unique(q), q # <<>>
    PROVE  /\ Head(q) \in Clients
           /\ Tail(q) \in Seq(Clients)
           /\ Len(Tail(q)) = Len(q) - 1
           /\ Unique(Tail(q))
           /\ Waits(q, Head(q))
           /\ \A d : Waits(Tail(q), d) <=> Waits(q, d) /\ d # Head(q)
<1> DEFINE after == Tail(q)
           n == Len(q)
<1>1. /\ after \in Seq(Clients)
      /\ Len(after) = n - 1
      /\ \A i \in 1..(n - 1) : after[i] = q[i + 1]
      /\ Head(q) = q[1]
      /\ n \in Nat \ {0}
      /\ q[1] \in Clients
  OBVIOUS
<1>2. DOMAIN q = 1..n /\ DOMAIN after = 1..(n - 1)
  BY <1>1
<1> HIDE DEF after, n
<1>3. Unique(after)
  <2>1. ASSUME NEW i \in DOMAIN after, NEW j \in DOMAIN after, after[i] = after[j]
        PROVE  i = j
    <3>1. /\ i \in 1..(n - 1) /\ j \in 1..(n - 1)
          /\ i + 1 \in DOMAIN q /\ j + 1 \in DOMAIN q
          /\ q[i + 1] = q[j + 1]
      BY <1>1, <1>2, <2>1
    <3>2. i + 1 = j + 1
      BY <3>1 DEF Unique
    <3> QED
      BY <3>1, <3>2
  <2> QED
    BY <2>1 DEF Unique
<1>4. Waits(q, Head(q))
  <2>1. 1 \in DOMAIN q
    BY <1>1, <1>2
  <2> QED
    BY <1>1, <2>1 DEF Waits
<1>5. ASSUME NEW d PROVE Waits(after, d) <=> Waits(q, d) /\ d # Head(q)
  <2>1. ASSUME Waits(after, d) PROVE Waits(q, d) /\ d # Head(q)
    <3>1. PICK i \in DOMAIN after : after[i] = d
      BY <2>1 DEF Waits
    <3>2. i \in 1..(n - 1) /\ i + 1 \in DOMAIN q /\ 1 \in DOMAIN q /\ q[i + 1] = d /\ i + 1 # 1
      BY <1>1, <1>2, <3>1
    <3> QED
      BY <1>1, <3>2 DEF Unique, Waits
  <2>2. ASSUME Waits(q, d), d # Head(q) PROVE Waits(after, d)
    <3>1. PICK i \in DOMAIN q : q[i] = d
      BY <2>2 DEF Waits
    <3>2. i - 1 \in 1..(n - 1) /\ (i - 1) + 1 = i
      BY <1>1, <1>2, <2>2, <3>1
    <3>3. i - 1 \in DOMAIN after /\ after[i - 1] = d
      BY <1>1, <1>2, <3>1, <3>2
    <3> QED
      BY <3>3 DEF Waits
  <2> QED
    BY <2>1, <2>2
<1> QED
  BY <1>1, <1>3, <1>4, <1>5 DEF after, n

-----------------------------------------------------------------------------
(* What is read.                                                           *)

\* Pieces are put together from the first to the last.
LEMMA JoinedFold ==
    ASSUME NEW pieces \in Seq(Seq(STRING)), Len(pieces) \in {1, 2}
    PROVE  Joined(pieces) = IF Len(pieces) = 1 THEN pieces[1] ELSE pieces[1] \o pieces[2]
<1> DEFINE cat(a, b) == a \o b
           last == Len(pieces)
           Joins(f) == f = [n \in 0..last |-> IF n = 0 THEN <<>> ELSE cat(f[n - 1], pieces[n])]
           join == CHOOSE f : Joins(f)
           witness == [n \in 0..last |->
                          IF n = 0 THEN <<>>
                          ELSE IF n = 1 THEN pieces[1] ELSE cat(pieces[1], pieces[2])]
<1>1. Joined(pieces) = join[last]
  BY Zenon DEF Joined
<1>2. cat(<<>>, pieces[1]) = pieces[1]
  <2>1. pieces[1] \in Seq(STRING)
    OBVIOUS
  <2> QED
    BY <2>1
<1>3. last \in {1, 2}
  OBVIOUS
<1> HIDE DEF last, cat
<1>4. Joins(witness)
  <2>1. /\ witness[0] = <<>>
        /\ witness[1] = pieces[1]
        /\ last = 2 => witness[2] = cat(pieces[1], pieces[2])
    BY <1>3
  <2>2. witness = [n \in 0..last |-> witness[n]]
    OBVIOUS
  <2> HIDE DEF witness
  <2>3. ASSUME NEW n \in 0..last
        PROVE  witness[n] = IF n = 0 THEN <<>> ELSE cat(witness[n - 1], pieces[n])
    <3>1. n = 0 \/ (n = 1 /\ n - 1 = 0) \/ (n = 2 /\ n - 1 = 1 /\ last = 2)
      BY <1>3
    <3> QED
      BY <1>2, <2>1, <3>1
  <2> QED
    BY <2>2, <2>3
<1>5. Joins(join)
  <2> HIDE DEF witness, Joins
  <2> QED
    BY <1>4
<1> HIDE DEF join
<1>6. join[1] = pieces[1] /\ (last = 2 => join[2] = cat(pieces[1], pieces[2]))
  <2>1. join[0] = <<>>
    BY <1>3, <1>5
  <2>2. join[1] = pieces[1]
    BY <1>2, <1>3, <1>5, <2>1
  <2> QED
    BY <1>5, <2>2
<1>7. Joined(pieces) = IF last = 1 THEN pieces[1] ELSE cat(pieces[1], pieces[2])
  BY <1>1, <1>3, <1>6
<1> QED
  BY <1>7 DEF last, cat

LEMMA CommandType == ASSUME NEW words PROVE read_command(words) \in {-1, 0, 1}
  BY DEF read_command, parse_command

LEMMA ParseExact ==
    ASSUME NEW words \in Seq(STRING), parse_command(words) # 0
    PROVE  /\ Len(words) >= 1
           /\ words[1] \in {"up", "down"}
           /\ Len(words) = 1 \/ words[2] = "nul"
           /\ parse_command(words) = Direction[words[1]]
<1>1. CASE Reads(words, "up")
  <2>1. parse_command(words) = 1 /\ words[1] = "up"
    BY <1>1 DEF parse_command, Reads
  <2>2. Direction["up"] = 1
    BY DEF Direction
  <2> QED
    BY <1>1, <2>1, <2>2 DEF Reads
<1>2. CASE ~ Reads(words, "up") /\ Reads(words, "down")
  <2>1. parse_command(words) = -1 /\ words[1] = "down"
    BY <1>2 DEF parse_command, Reads
  <2>2. Direction["down"] = -1
    BY DEF Direction
  <2> QED
    BY <1>2, <2>1, <2>2 DEF Reads
<1> QED
  BY <1>1, <1>2 DEF parse_command

\* Only a command is one, and it asks for its direction.
Obeys(words, direction) == IsCommand(words) /\ direction = Direction[words[1]]

LEMMA CommandExact ==
    ASSUME NEW words \in Seq(STRING), read_command(words) # 0
    PROVE  Obeys(words, read_command(words))
<1>1. CASE Len(words) > 0 /\ words[Len(words)] = "newline"
  <2> DEFINE command == SubSeq(words, 1, Len(words) - 1)
  <2>1. read_command(words) = parse_command(command)
    BY <1>1 DEF read_command
  <2>2. PICK n \in Nat : n = Len(words) - 1 /\ Len(words) = n + 1
    BY <1>1, LenProperties
  <2>3. /\ command \in Seq(STRING)
        /\ Len(command) = n
        /\ \A i \in 1..n : command[i] = words[i]
    <3>1. \A i \in 1..n : words[i] \in STRING
      BY <2>2
    <3>2. /\ SubSeq(words, 1, n) \in Seq(STRING)
          /\ Len(SubSeq(words, 1, n)) = IF 1 <= n THEN n - 1 + 1 ELSE 0
          /\ \A i \in 1..(n - 1 + 1) : SubSeq(words, 1, n)[i] = words[1 + i - 1]
      BY <3>1, SubSeqProperties
    <3>3. command = SubSeq(words, 1, n)
      BY <2>2
    <3> HIDE DEF command
    <3>4. \A i \in 1..n : command[i] = words[i]
      BY <3>2, <3>3
    <3> QED
      BY <3>2, <3>3, <3>4
  <2> HIDE DEF command
  <2>4. /\ Len(command) >= 1
        /\ command[1] \in {"up", "down"}
        /\ Len(command) = 1 \/ command[2] = "nul"
        /\ parse_command(command) = Direction[command[1]]
    BY <2>1, <2>3, ParseExact
  <2>5. command[1] = words[1]
    BY <2>2, <2>3, <2>4
  <2>6. CASE n = 1
    <3>1. Len(words) = 2 /\ words[2] = "newline"
      BY <1>1, <2>2, <2>6
    <3>2. words = <<words[1], "newline">>
      BY <3>1
    <3> QED
      BY <2>1, <2>4, <2>5, <3>2 DEF Obeys, IsCommand
  <2>7. CASE n # 1
    <3>1. command[2] = words[2]
      BY <2>2, <2>3, <2>4, <2>7
    <3> QED
      BY <2>1, <2>3, <2>4, <2>5, <2>7, <3>1 DEF Obeys, IsCommand
  <2> QED
    BY <2>6, <2>7
<1>2. CASE ~ (Len(words) > 0 /\ words[Len(words)] = "newline")
  <2>1. read_command(words) = parse_command(words)
    BY <1>2 DEF read_command
  <2> QED
    BY <2>1, ParseExact DEF Obeys, IsCommand
<1> QED
  BY <1>1, <1>2

LEMMA CommandOf ==
    ASSUME NEW word \in {"up", "down"}
    PROVE  /\ read_command(<<word>>) = Direction[word]
           /\ read_command(<<word>> \o <<"newline">>) = Direction[word]
           /\ Direction[word] \in {-1, 1}
<1>1. parse_command(<<word>>) = Direction[word] /\ read_command(<<word>>) = Direction[word]
  <2>1. Len(<<word>>) = 1 /\ <<word>>[1] = word /\ word # "newline"
    OBVIOUS
  <2>2. read_command(<<word>>) = parse_command(<<word>>)
    BY <2>1 DEF read_command
  <2>3. CASE word = "up"
    BY <2>1, <2>2, <2>3 DEF parse_command, Reads, Direction
  <2>4. CASE word = "down"
    BY <2>1, <2>2, <2>4 DEF parse_command, Reads, Direction
  <2> QED
    BY <2>3, <2>4
<1> DEFINE Words == {word, "newline"}
           both == <<word, "newline">>
           first == SubSeq(both, 1, 1)
<1>2. <<word>> \o <<"newline">> = both
  <2>1. <<word>> \in Seq(Words) /\ <<"newline">> \in Seq(Words) /\ both \in Seq(Words)
    OBVIOUS
  <2> DEFINE a == <<word>>
             b == <<"newline">>
             ab == a \o b
  <2>2. Len(a) = 1 /\ Len(b) = 1 /\ a[1] = word /\ b[1] = "newline"
    OBVIOUS
  <2>3. Len(both) = 2 /\ both[1] = word /\ both[2] = "newline"
    OBVIOUS
  <2> HIDE DEF a, b, both, Words
  <2>4. /\ ab \in Seq(Words)
        /\ Len(ab) = Len(a) + Len(b)
        /\ \A i \in 1..(Len(a) + Len(b)) :
              ab[i] = IF i <= Len(a) THEN a[i] ELSE b[i - Len(a)]
    BY <2>1, ConcatProperties DEF a, b
  <2> HIDE DEF ab
  <2>5. Len(ab) = 2 /\ ab[1] = word /\ ab[2] = "newline"
    BY <2>2, <2>4
  <2>6. ab = both
    BY <2>1, <2>3, <2>4, <2>5, SeqEqual
  <2> QED
    BY <2>6 DEF ab, a, b
<1>3. first = <<word>>
  <2>1. /\ first \in Seq(Words)
        /\ Len(first) = 1
        /\ first[1] = word
    <3>1. both[1] = word /\ \A i \in 1..1 : both[i] \in Words
      OBVIOUS
    <3> HIDE DEF both
    <3>2. /\ first \in Seq(Words)
          /\ Len(first) = IF 1 <= 1 THEN 1 - 1 + 1 ELSE 0
          /\ \A i \in 1..(1 - 1 + 1) : first[i] = both[1 + i - 1]
      BY <3>1, SubSeqProperties
    <3> HIDE DEF first
    <3> QED
      BY <3>1, <3>2
  <2> HIDE DEF first
  <2> QED
    BY <2>1
<1>4. read_command(both) = Direction[word]
  <2>1. both[2] = "newline" /\ Len(both) = 2 /\ 2 - 1 = 1
    OBVIOUS
  <2> HIDE DEF both
  <2>2. read_command(both) = parse_command(first)
    BY <2>1 DEF read_command
  <2> QED
    BY <1>1, <1>3, <2>2
<1>5. Direction[word] \in {-1, 1}
  <2>1. CASE word = "up"
    BY <2>1 DEF Direction
  <2>2. CASE word = "down"
    BY <2>2 DEF Direction
  <2> QED
    BY <2>1, <2>2
<1> QED
  BY <1>1, <1>2, <1>4, <1>5

-----------------------------------------------------------------------------
(* The invariant.                                                          *)

Busy == {"authorize", "read", "adjust", "close"}

\* Where the main thread may be, and whom it serves.
Loop ==
    /\ main \in Busy \cup {"before_bind", "bind", "after_bind", "while", "select", "cleanup", "exited"}
    /\ running \in BOOLEAN
    /\ socket \in {"none", "fresh", "exposed", "closed"}
    /\ lookup \in Lookups
    /\ hand \in {-1, 0, 1}
    /\ main = "adjust" => hand # 0
    /\ main \in Busy => serving \in Clients
    /\ main \notin Busy => serving = Nobody

\* A client waits once, and not while it is served.
Queue ==
    /\ backlog \in Seq(Clients)
    /\ Len(backlog) <= Backlog
    /\ Unique(backlog)
    /\ ~ Waits(backlog, serving)

\* What a client that is connected has sent is what has arrived.
Pieces ==
    /\ client \in [Clients -> {"start", "sending", "exited", "killed", "failed"}]
    /\ sent \in [Clients -> Nat]
    /\ arrived \in [Clients -> Seq(Seq(STRING))]
    /\ executed \in [Clients -> Seq({-1, 1})]
    /\ \A c \in Clients :
          /\ sent[c] <= Len(Script[c])
          /\ Len(arrived[c]) <= sent[c]
          /\ Waits(backlog, c) \/ serving = c =>
                /\ client[c] \in {"sending", "exited"}
                /\ Len(arrived[c]) = sent[c]
                /\ \A i \in 1..sent[c] : arrived[c][i] = Script[c][i]
          /\ client[c] = "start" => executed[c] = <<>> /\ sent[c] = 0 /\ arrived[c] = <<>>

\* A client is pressed for while it is served, once, and if it may.
Pressed ==
    /\ main \in {"read", "adjust"} => access_control_is_authorized(User[serving], lookup)
    /\ main = "adjust" =>
          /\ IsDimmit(serving) => hand = Request(serving)
          /\ Len(Script[serving]) = 1 => Obeys(Script[serving][1], hand)
    /\ \A c \in Clients :
          /\ executed[c] # <<>> => ~ Waits(backlog, c) /\ (serving = c => main = "close")
          /\ IsDimmit(c) => executed[c] \in {<<>>, <<Request(c)>>}
          /\ Len(Script[c]) = 1 /\ executed[c] # <<>> =>
                IsCommand(Script[c][1]) /\ executed[c] = <<Direction[Script[c][1][1]]>>
          /\ executed[c] # <<>> => AnyClient \/ ~ GroupExists \/ Member(User[c])

\* A dimmit that is disconnected before it has sent everything has got what it came for,
\* or is not going to.
Left ==
    \A c \in Clients :
        /\ IsDimmit(c)
        /\ client[c] \in {"sending", "killed"}
        /\ ~ Waits(backlog, c)
        /\ serving = c => main = "close"
        => executed[c] # <<>> \/ refused[c] # "no" \/ ~ running

\* Whoever is turned away is turned away for a reason.
Refusals == refused \in [Clients -> Lookups \cup {"no"}] /\ MembersAreLetIn

IInv == Loop /\ Queue /\ Pieces /\ Pressed /\ Left /\ Refusals

LEMMA Initially == Init => IInv
<1> SUFFICES ASSUME Init PROVE IInv
  OBVIOUS
<1>1. Loop
  BY DEF Init, Loop, Busy, Lookups
<1>2. backlog = <<>> /\ \A c : ~ Waits(backlog, c)
  BY DEF Init, Waits
<1>3. Queue
  BY <1>2, BacklogAssumption DEF Queue, Unique
<1>4. Pieces
  BY <1>2, ClientsAssumption DEF Init, Pieces
<1>5. Pressed /\ Left
  BY DEF Init, Pressed, Left
<1>6. Refusals
  BY DEF Init, Refusals, MembersAreLetIn
<1> QED
  BY <1>1, <1>3, <1>4, <1>5, <1>6 DEF IInv

-----------------------------------------------------------------------------
(* The main thread and its queue.                                          *)

LEMMA LoopStep == ASSUME IInv, Next PROVE Loop'
<1> USE DEF IInv, Loop, Busy, Goto, clients
<1>1. CASE BeforeBind
  BY <1>1 DEF BeforeBind
<1>2. CASE Listen
  BY <1>2 DEF Listen
<1>3. CASE AfterBind
  BY <1>3 DEF AfterBind
<1>4. CASE While
  BY <1>4 DEF While
<1>5. CASE IdleTick
  BY <1>5 DEF IdleTick
<1>6. CASE Accept
  <2>1. serving' \in Clients
    BY <1>6, Dequeue DEF Accept, Queue
  <2> QED
    BY <1>6, <2>1 DEF Accept
<1>7. CASE Authorize
  BY <1>7 DEF Authorize
<1>8. CASE Read
  <2>1. hand' \in {-1, 0, 1}
    BY <1>8, CommandType DEF Read
  <2> QED
    BY <1>8, <2>1 DEF Read
<1>9. CASE ReadNothing
  BY <1>9 DEF ReadNothing
<1>10. CASE Adjust
  BY <1>10 DEF Adjust
<1>11. CASE Close
  BY <1>11 DEF Close, Lookups
<1>12. CASE Cleanup
  BY <1>12 DEF Cleanup
<1>13. CASE Signal
  BY <1>13 DEF Signal
<1>14. ASSUME NEW c \in Clients, Client(c) PROVE Loop'
  BY <1>14 DEF Client, Connect, ConnectFails, Send, SendFails, Done, daemon
<1>15. CASE AcceptFails
  BY <1>15 DEF AcceptFails
<1> QED
  BY <1>1, <1>2, <1>3, <1>4, <1>5, <1>6, <1>7, <1>8, <1>9, <1>10, <1>11, <1>12, <1>13, <1>14, <1>15
     DEF Next, Main

\* The queue changes when a client connects, is accepted or finds the daemon gone.
LEMMA QueueChanges ==
    ASSUME IInv, Next
    PROVE  \/ backlog' = backlog /\ serving' \in {serving, Nobody}
           \/ Accept
           \/ backlog' = <<>> /\ serving' = serving /\ ~ running'
           \/ \E c \in Clients : Connect(c)
  BY DEF Next, Main, BeforeBind, Listen, AfterBind, While, IdleTick, AcceptFails, Authorize, Read, ReadNothing,
     Adjust, Close, Cleanup, Signal, Client, ConnectFails, Send, SendFails, Done, daemon, Goto

LEMMA NobodyWaits == ASSUME Queue PROVE ~ Waits(backlog, Nobody)
<1>1. \A i \in DOMAIN backlog : backlog[i] \in Clients
  BY DEF Queue
<1> QED
  BY <1>1, ClientsAssumption DEF Waits

LEMMA QueueStep == ASSUME IInv, Next PROVE Queue'
<1> USE DEF IInv, Queue
<1>1. CASE backlog' = backlog /\ serving' \in {serving, Nobody}
  BY <1>1, NobodyWaits
<1>2. CASE Accept
  BY <1>2, Dequeue, BacklogAssumption DEF Accept
<1>3. CASE backlog' = <<>> /\ serving' = serving
  BY <1>3, BacklogAssumption DEF Unique, Waits
<1>4. ASSUME NEW c \in Clients, Connect(c) PROVE Queue'
  <2>1. ~ Waits(backlog, c) /\ serving # c
    BY <1>4 DEF Connect, Pieces
  <2>2. /\ backlog' = Append(backlog, c)
        /\ serving' = serving
        /\ Len(backlog) < Backlog
    BY <1>4 DEF Connect, daemon
  <2>3. Len(backlog) + 1 <= Backlog
    BY <2>2, BacklogAssumption
  <2> QED
    BY <2>1, <2>2, <2>3, Enqueue
<1> QED
  BY <1>1, <1>2, <1>3, <1>4, QueueChanges

-----------------------------------------------------------------------------
(* The clients.                                                            *)

\* Main leaves everything about the clients alone but when it serves them.
LEMMA ClientsQuiet ==
    ASSUME IInv, Next, ~ Adjust, ~ Close, ~ \E c \in Clients : Client(c)
    PROVE  UNCHANGED <<client, sent, arrived, executed>>
  BY DEF Next, Main, BeforeBind, Listen, AfterBind, While, IdleTick, Accept, AcceptFails, Authorize, Read,
     ReadNothing, Cleanup, Signal, clients

\* A client that waits has waited before, or connects.
LEMMA Waiting ==
    ASSUME IInv, Next, NEW c \in Clients, ~ Connect(c)
    PROVE  /\ Waits(backlog', c) => Waits(backlog, c)
           /\ serving' = c => Waits(backlog, c) \/ serving = c
<1>1. CASE backlog' = backlog /\ serving' \in {serving, Nobody}
  BY <1>1, ClientsAssumption
<1>2. CASE Accept
  BY <1>2, Dequeue DEF Accept, IInv, Queue
<1>3. CASE backlog' = <<>> /\ serving' = serving
  BY <1>3 DEF Waits
<1>4. ASSUME NEW d \in Clients, Connect(d)
      PROVE  /\ Waits(backlog', c) => Waits(backlog, c)
             /\ serving' = c => Waits(backlog, c) \/ serving = c
  <2>1. d # c /\ ~ Waits(backlog, d) /\ backlog' = Append(backlog, d) /\ serving' = serving
    BY <1>4 DEF Connect, IInv, Pieces, daemon
  <2> QED
    BY <2>1, Enqueue DEF IInv, Queue
<1> QED
  BY <1>1, <1>2, <1>3, <1>4, QueueChanges

LEMMA ConnectedMeans == \A c : Connected(c) <=> Waits(backlog, c) \/ serving = c
  BY DEF Connected, Waits

LEMMA PiecesStep == ASSUME IInv, Next PROVE Pieces'
<1>1. CASE UNCHANGED <<client, sent, arrived, executed>>
  <2>1. \A c \in Clients : ~ Connect(c)
    <3>1. ASSUME NEW c \in Clients, Connect(c) PROVE client'[c] = "sending" /\ client[c] = "start"
      BY <3>1 DEF Connect, IInv, Pieces
    <3> QED
      BY <1>1, <3>1
  <2> QED
    BY <1>1, <2>1, Waiting DEF IInv, Pieces
<1>2. CASE Adjust
  <2>1. /\ serving \in Clients /\ hand \in {-1, 1}
        /\ UNCHANGED <<client, sent, arrived, backlog, serving>>
        /\ executed' = [executed EXCEPT ![serving] = Append(executed[serving], hand)]
    BY <1>2 DEF Adjust, Goto, IInv, Loop, Busy, clients
  <2>2. executed[serving] \in Seq({-1, 1})
    BY <2>1 DEF IInv, Pieces
  <2>3. Append(executed[serving], hand) \in Seq({-1, 1})
    BY <2>1, <2>2
  <2>4. executed' \in [Clients -> Seq({-1, 1})]
    BY <2>1, <2>3 DEF IInv, Pieces
  <2>5. client[serving] # "start"
    BY <2>1 DEF IInv, Pieces
  <2>6. \A c \in Clients : client[c] = "start" => executed'[c] = executed[c]
    BY <2>1, <2>5 DEF IInv, Pieces
  <2> QED
    BY <2>1, <2>4, <2>6 DEF IInv, Pieces
<1>3. CASE Close
  <2>1. /\ serving \in Clients /\ serving' = Nobody
        /\ UNCHANGED <<client, sent, executed, backlog>>
        /\ arrived' = [arrived EXCEPT ![serving] = <<>>]
    BY <1>3 DEF Close, Goto, IInv, Loop, Busy, clients
  <2>2. arrived' \in [Clients -> Seq(Seq(STRING))]
    <3>1. <<>> \in Seq(Seq(STRING))
      OBVIOUS
    <3> QED
      BY <2>1, <3>1 DEF IInv, Pieces
  <2>3. \A c \in Clients \ {serving} : arrived'[c] = arrived[c]
    BY <2>1 DEF IInv, Pieces
  <2>4. arrived'[serving] = <<>> /\ Len(arrived'[serving]) = 0 /\ ~ Waits(backlog, serving)
    BY <2>1 DEF IInv, Pieces, Queue
  <2>5. sent[serving] \in Nat
    BY <2>1 DEF IInv, Pieces
  <2>6. ASSUME NEW c \in Clients
        PROVE  /\ sent'[c] <= Len(Script[c])
               /\ Len(arrived'[c]) <= sent'[c]
               /\ Waits(backlog', c) \/ serving' = c =>
                    /\ client'[c] \in {"sending", "exited"}
                    /\ Len(arrived'[c]) = sent'[c]
                    /\ \A i \in 1..sent'[c] : arrived'[c][i] = Script[c][i]
               /\ client'[c] = "start" => executed'[c] = <<>> /\ sent'[c] = 0 /\ arrived'[c] = <<>>
    <3>1. CASE c = serving
      BY <2>1, <2>4, <2>5, <3>1, ClientsAssumption DEF IInv, Pieces
    <3>2. CASE c # serving
      BY <2>1, <2>3, <3>2, ClientsAssumption DEF IInv, Pieces
    <3> QED
      BY <3>1, <3>2
  <2> QED
    BY <2>1, <2>2, <2>6 DEF IInv, Pieces
<1>4. ASSUME NEW d \in Clients, Connect(d) PROVE Pieces'
  <2>1. /\ client[d] = "start"
        /\ client' = [client EXCEPT ![d] = "sending"]
        /\ UNCHANGED <<sent, arrived, executed>>
        /\ serving' = serving
    BY <1>4 DEF Connect, daemon
  <2>2. arrived[d] = <<>> /\ sent[d] = 0 /\ Len(arrived[d]) = 0
    BY <2>1 DEF IInv, Pieces
  <2>3. ASSUME NEW c \in Clients \ {d}, Waits(backlog', c) \/ serving' = c
        PROVE  Waits(backlog, c) \/ serving = c
    <3>1. ~ Connect(c)
      BY <2>1 DEF Connect, IInv, Pieces
    <3> QED
      BY <2>3, <3>1, Waiting
  <2>4. client'[d] = "sending" /\ \A c \in Clients \ {d} : client'[c] = client[c]
    BY <2>1 DEF IInv, Pieces
  <2>5. client' \in [Clients -> {"start", "sending", "exited", "killed", "failed"}]
    BY <2>1 DEF IInv, Pieces
  <2> QED
    BY <2>1, <2>2, <2>3, <2>4, <2>5 DEF IInv, Pieces
<1>5. ASSUME NEW d \in Clients, Send(d) PROVE Pieces'
  <2>1. /\ client[d] = "sending"
        /\ Waits(backlog, d) \/ serving = d
        /\ sent[d] < Len(Script[d])
        /\ sent' = [sent EXCEPT ![d] = sent[d] + 1]
        /\ arrived' = [arrived EXCEPT ![d] = Append(arrived[d], Script[d][sent[d] + 1])]
        /\ UNCHANGED <<client, executed, backlog, serving>>
    BY <1>5, ConnectedMeans DEF Send, daemon
  <2>2. PICK n \in Nat : n = sent[d] /\ n + 1 <= Len(Script[d])
    BY <2>1, ClientsAssumption DEF IInv, Pieces
  <2>3. Script[d] \in Seq(Seq(STRING)) /\ Script[d][n + 1] \in Seq(STRING)
    BY <2>2, ClientsAssumption, ElementOfSeq
  <2>4. arrived[d] \in Seq(Seq(STRING)) /\ Len(arrived[d]) = n
        /\ \A i \in 1..n : arrived[d][i] = Script[d][i]
    BY <2>1, <2>2 DEF IInv, Pieces
  <2> DEFINE more == Append(arrived[d], Script[d][n + 1])
  <2>5. /\ more \in Seq(Seq(STRING)) /\ Len(more) = n + 1
        /\ \A i \in 1..(n + 1) : more[i] = Script[d][i]
    <3> DEFINE piece == Script[d][n + 1]
    <3>1. piece \in Seq(STRING)
      BY <2>3
    <3> HIDE DEF piece
    <3>2. /\ Append(arrived[d], piece) \in Seq(Seq(STRING))
          /\ Len(Append(arrived[d], piece)) = n + 1
          /\ \A i \in 1..n : Append(arrived[d], piece)[i] = arrived[d][i]
          /\ Append(arrived[d], piece)[n + 1] = piece
      BY <2>4, <3>1
    <3>3. \A i \in 1..(n + 1) : i \in 1..n \/ i = n + 1
      OBVIOUS
    <3> QED
      BY <2>4, <3>2, <3>3 DEF piece
  <2> HIDE DEF more
  <2>6. /\ sent' = [sent EXCEPT ![d] = n + 1]
        /\ arrived' = [arrived EXCEPT ![d] = more]
    BY <2>1, <2>2 DEF more
  <2>7. /\ sent' \in [Clients -> Nat] /\ sent'[d] = n + 1
        /\ arrived' \in [Clients -> Seq(Seq(STRING))] /\ arrived'[d] = more
        /\ \A c \in Clients \ {d} : sent'[c] = sent[c] /\ arrived'[c] = arrived[c]
    BY <2>5, <2>6 DEF IInv, Pieces
  <2>8. ASSUME NEW c \in Clients
        PROVE  /\ sent'[c] <= Len(Script[c])
               /\ Len(arrived'[c]) <= sent'[c]
               /\ Waits(backlog', c) \/ serving' = c =>
                    /\ client'[c] \in {"sending", "exited"}
                    /\ Len(arrived'[c]) = sent'[c]
                    /\ \A i \in 1..sent'[c] : arrived'[c][i] = Script[c][i]
               /\ client'[c] = "start" => executed'[c] = <<>> /\ sent'[c] = 0 /\ arrived'[c] = <<>>
    <3>1. CASE c = d
      <4>1. client[d] # "start" /\ client[d] = "sending"
        BY <2>1
      <4>2. sent'[c] = n + 1 /\ arrived'[c] = more /\ client'[c] = "sending"
        BY <2>1, <2>7, <3>1, <4>1
      <4>3. Len(more) = n + 1 /\ n + 1 <= Len(Script[c]) /\ n + 1 \in Nat
        BY <2>2, <2>5, <3>1
      <4>4. \A i \in 1..(n + 1) : more[i] = Script[c][i]
        BY <2>5, <3>1
      <4> QED
        BY <4>2, <4>3, <4>4
    <3>2. CASE c # d
      BY <2>1, <2>7, <3>2 DEF IInv, Pieces
    <3> QED
      BY <3>1, <3>2
  <2> QED
    BY <2>1, <2>7, <2>8 DEF IInv, Pieces
<1>6. ASSUME NEW d \in Clients, SendFails(d) PROVE Pieces'
  <2>1. /\ client[d] = "sending" /\ ~ Waits(backlog, d) /\ serving # d
        /\ sent[d] < Len(Script[d])
        /\ sent' = [sent EXCEPT ![d] = sent[d] + 1]
        /\ client' \in {[client EXCEPT ![d] = "killed"], client}
        /\ UNCHANGED <<arrived, executed, backlog, serving>>
    BY <1>6, ConnectedMeans DEF SendFails, daemon
  <2>2. PICK n \in Nat : n = sent[d] /\ n + 1 <= Len(Script[d]) /\ Len(arrived[d]) <= n + 1
    <3>1. /\ sent[d] \in Nat /\ Len(Script[d]) \in Nat /\ Len(arrived[d]) \in Nat
          /\ Len(arrived[d]) <= sent[d]
      BY ClientsAssumption DEF IInv, Pieces
    <3> QED
      BY <2>1, <3>1
  <2>3. /\ sent' \in [Clients -> Nat] /\ sent'[d] = n + 1
        /\ \A c \in Clients \ {d} : sent'[c] = sent[c]
    <3>1. sent' = [sent EXCEPT ![d] = n + 1] /\ sent \in [Clients -> Nat]
      BY <2>1, <2>2 DEF IInv, Pieces
    <3> QED
      BY <3>1
  <2>4. /\ client' \in [Clients -> {"start", "sending", "exited", "killed", "failed"}]
        /\ client'[d] \in {"killed", "sending"}
        /\ \A c \in Clients \ {d} : client'[c] = client[c]
    <3>1. client \in [Clients -> {"start", "sending", "exited", "killed", "failed"}]
      BY DEF IInv, Pieces
    <3>2. CASE client' = [client EXCEPT ![d] = "killed"]
      BY <3>1, <3>2
    <3>3. CASE client' = client
      BY <2>1, <3>1, <3>3
    <3> QED
      BY <2>1, <3>2, <3>3
  <2> QED
    BY <2>1, <2>2, <2>3, <2>4 DEF IInv, Pieces
<1>7. ASSUME NEW d \in Clients, ConnectFails(d) \/ Done(d) PROVE Pieces'
  <2>1. /\ \/ client[d] = "start" /\ client' = [client EXCEPT ![d] = "failed"]
           \/ client[d] = "sending" /\ client' = [client EXCEPT ![d] = "exited"]
        /\ UNCHANGED <<sent, arrived, executed, backlog, serving>>
    BY <1>7 DEF ConnectFails, Done, daemon
  <2>2. /\ client' \in [Clients -> {"start", "sending", "exited", "killed", "failed"}]
        /\ \A c \in Clients \ {d} : client'[c] = client[c]
        /\ \/ client[d] = "start" /\ client'[d] = "failed"
           \/ client[d] = "sending" /\ client'[d] = "exited"
    BY <2>1 DEF IInv, Pieces
  <2> QED
    BY <2>1, <2>2 DEF IInv, Pieces
<1> QED
  BY <1>1, <1>2, <1>3, <1>4, <1>5, <1>6, <1>7, ClientsQuiet DEF Client

-----------------------------------------------------------------------------
(* Presses.                                                                *)

\* Who is let in is a member of the group, if there is one.
LEMMA AuthorizedAreMembers ==
    ASSUME NEW user, NEW g, access_control_is_authorized(user, g)
    PROVE  AnyClient \/ ~ GroupExists \/ Member(user)
  BY DEF access_control_is_authorized, GroupList, Member

LEMMA RefusedForAReason ==
    ASSUME NEW user, IsFiniteSet(user.groups), NEW g \in Lookups,
           ~ access_control_is_authorized(user, g)
    PROVE  \/ g = "unknown" /\ ~ AnyClient
           \/ GroupExists /\ ~ AnyClient /\ ~ KnownMember(user)
           \/ g = "grew" /\ Cardinality(GroupList(user)) > GroupListMax
<1> DEFINE size == Cardinality(GroupList(user))
<1>1. ~ AnyClient
  BY DEF access_control_is_authorized
<1>2. CASE g # "unknown"
  <2>1. /\ GroupExists
        /\ ~ (user.named /\ user.primary = PolicyGroup)
        /\ ~ (size <= GroupListMax \/ g # "grew") \/ PolicyGroup \notin GroupList(user)
    BY <1>2 DEF access_control_is_authorized, ReadsGroups
  <2>2. CASE PolicyGroup \notin GroupList(user)
    BY <1>1, <2>1, <2>2 DEF KnownMember, GroupList
  <2>3. CASE ~ (size <= GroupListMax) /\ g = "grew"
    <3>1. size \in Nat
      <4>1. IsFiniteSet(IF user.named THEN user.groups ELSE {})
        BY FS_EmptySet
      <4>2. IsFiniteSet((IF user.named THEN user.groups ELSE {}) \cup {user.egid})
        BY <4>1, FS_AddElement
      <4>3. (IF user.named THEN user.groups ELSE {}) \cup {user.egid} = GroupList(user)
        BY DEF GroupList
      <4> QED
        BY <4>2, <4>3, FS_CardinalityType
    <3> HIDE DEF size
    <3>2. size > GroupListMax
      BY <2>3, <3>1, GroupListAssumption
    <3> QED
      BY <2>3, <3>2 DEF size
  <2> QED
    BY <2>1, <2>2, <2>3
<1> QED
  BY <1>1, <1>2

LEMMA RefusalsStep == ASSUME IInv, Next PROVE Refusals'
<1>1. CASE Authorize
  <2>1. serving \in Clients /\ lookup \in Lookups
    BY <1>1 DEF Authorize, IInv, Loop, Busy
  <2>2. CASE refused' = refused
    BY <2>2 DEF IInv, Refusals, MembersAreLetIn
  <2>3. CASE refused' = [refused EXCEPT ![serving] = lookup]
             /\ ~ access_control_is_authorized(User[serving], lookup)
    <3>1. /\ refused' \in [Clients -> Lookups \cup {"no"}]
          /\ refused'[serving] = lookup
          /\ \A c \in Clients \ {serving} : refused'[c] = refused[c]
      BY <2>1, <2>3 DEF IInv, Refusals
    <3>2. \/ lookup = "unknown" /\ ~ AnyClient
          \/ GroupExists /\ ~ AnyClient /\ ~ KnownMember(User[serving])
          \/ lookup = "grew" /\ Cardinality(GroupList(User[serving])) > GroupListMax
      BY <2>1, <2>3, UsersAssumption, RefusedForAReason
    <3>3. MembersAreLetIn'
      BY <3>1, <3>2 DEF IInv, Refusals, MembersAreLetIn
    <3> QED
      BY <3>1, <3>3 DEF Refusals
  <2> QED
    BY <1>1, <2>2, <2>3 DEF Authorize
<1>2. CASE refused' = refused
  BY <1>2 DEF IInv, Refusals, MembersAreLetIn
<1> QED
  BY <1>1, <1>2 DEF Next, Main, BeforeBind, Listen, AfterBind, While, IdleTick, Accept, AcceptFails,
     Read, ReadNothing, Adjust, Close, Cleanup, Signal,
     Client, Connect, ConnectFails, Send, SendFails, Done, daemon

\* Wherever the read falls between the two sends of a dimmit, it gives its direction;
\* and of one piece it gives no direction but that of a command.
LEMMA ReadGives ==
    ASSUME IInv, Read
    PROVE  /\ IsDimmit(serving) => hand' = Request(serving) /\ hand' \in {-1, 1}
           /\ Len(Script[serving]) = 1 /\ hand' # 0 => Obeys(Script[serving][1], hand')
<1> DEFINE script == Script[serving]
<1>1. serving \in Clients
  BY DEF Read, IInv, Loop, Busy
<1>2. PICK n \in 1..Len(arrived[serving]) :
        hand' = read_command(Joined(SubSeq(arrived[serving], 1, n)))
  BY DEF Read
<1>3. /\ arrived[serving] \in Seq(Seq(STRING))
      /\ Len(arrived[serving]) <= Len(script)
      /\ \A i \in 1..Len(arrived[serving]) : arrived[serving][i] = script[i]
  <2>1. /\ arrived[serving] \in Seq(Seq(STRING))
        /\ Len(arrived[serving]) = sent[serving]
        /\ sent[serving] <= Len(script)
        /\ \A i \in 1..sent[serving] : arrived[serving][i] = script[i]
    BY <1>1 DEF IInv, Pieces
  <2> QED
    BY <2>1
<1>4. script \in Seq(Seq(STRING)) /\ Len(script) \in Nat
  BY <1>1, ClientsAssumption
<1> DEFINE pieces == SubSeq(arrived[serving], 1, n)
<1>5. /\ pieces \in Seq(Seq(STRING))
      /\ Len(pieces) = n
      /\ \A i \in 1..n : pieces[i] = script[i]
      /\ n \in Nat /\ 1 <= n /\ n <= Len(script)
  <2>1. /\ Len(arrived[serving]) \in Nat /\ n \in Nat /\ 1 <= n
        /\ \A i \in 1..n : arrived[serving][i] \in Seq(STRING) /\ arrived[serving][i] = script[i]
    BY <1>2, <1>3
  <2>2. /\ pieces \in Seq(Seq(STRING))
        /\ Len(pieces) = IF 1 <= n THEN n - 1 + 1 ELSE 0
        /\ \A i \in 1..(n - 1 + 1) : pieces[i] = arrived[serving][1 + i - 1]
    <3> HIDE DEF pieces
    <3> QED
      BY <2>1, SubSeqProperties DEF pieces
  <2> HIDE DEF pieces
  <2>3. n - 1 + 1 = n /\ \A i \in 1..n : 1 + i - 1 = i
    BY <2>1
  <2>4. \A i \in 1..n : pieces[i] = script[i]
    BY <2>1, <2>2, <2>3
  <2>5. n <= Len(script)
    BY <1>2, <1>3, <1>4, <2>1
  <2> QED
    BY <2>1, <2>2, <2>3, <2>4, <2>5
<1> HIDE DEF pieces
<1>6. n \in {1, 2} => Joined(pieces) = IF n = 1 THEN pieces[1] ELSE pieces[1] \o pieces[2]
  BY <1>5, JoinedFold
<1>7. hand' = read_command(Joined(pieces))
  BY <1>2 DEF pieces
<1>8. ASSUME IsDimmit(serving) PROVE hand' = Request(serving) /\ hand' \in {-1, 1}
  <2>1. PICK word \in {"up", "down"} : script = << <<word>>, <<"newline">> >>
    BY <1>8 DEF IsDimmit
  <2>2. Len(script) = 2 /\ script[1] = <<word>> /\ script[2] = <<"newline">> /\ script[1][1] = word
    BY <2>1
  <2> HIDE DEF script
  <2>3. n \in {1, 2} /\ pieces[1] = <<word>> /\ (n = 2 => pieces[2] = <<"newline">>)
    BY <1>5, <2>2
  <2>4. Joined(pieces) = <<word>> \/ Joined(pieces) = <<word>> \o <<"newline">>
    BY <1>6, <2>3, Zenon
  <2>5. hand' = Direction[word] /\ Direction[word] \in {-1, 1}
    BY <1>7, <2>4, CommandOf, Zenon
  <2>6. Request(serving) = Direction[word]
    BY <2>2 DEF Request, script
  <2> QED
    BY <2>5, <2>6
<1>9. ASSUME Len(script) = 1, hand' # 0 PROVE Obeys(script[1], hand')
  <2>1. n = 1 /\ pieces[1] = script[1] /\ script[1] \in Seq(STRING)
    BY <1>4, <1>5, <1>9
  <2>2. Joined(pieces) = script[1]
    BY <1>6, <2>1
  <2> QED
    BY <1>7, <1>9, <2>1, <2>2, CommandExact
<1> QED
  BY <1>8, <1>9

\* main, serving, the group database and the hand change by main's own steps.
LEMMA MainMoves ==
    ASSUME Next, main \in Busy
    PROVE  \/ UNCHANGED <<main, serving, lookup, hand, executed>>
           \/ Authorize \/ Read \/ ReadNothing \/ Adjust \/ Close
  BY DEF Next, Main, Busy, BeforeBind, Listen, AfterBind, While, IdleTick, Accept, AcceptFails, Cleanup, Signal,
     Client, Connect, ConnectFails, Send, SendFails, Done, daemon, Goto

LEMMA MainComes ==
    ASSUME Next, main' \in {"read", "adjust"}
    PROVE  \/ UNCHANGED <<main, serving, lookup, hand, executed>>
           \/ Authorize /\ main' = "read" /\ UNCHANGED <<serving, lookup, executed>>
              /\ access_control_is_authorized(User[serving], lookup)
           \/ Read /\ UNCHANGED <<serving, lookup, executed>>
              /\ main = "read" /\ main' = "adjust" /\ hand' # 0
  BY DEF Next, Main, BeforeBind, Listen, AfterBind, While, IdleTick, Accept, AcceptFails, Authorize, Read,
     ReadNothing, Adjust, Close, Cleanup, Signal,
     Client, Connect, ConnectFails, Send, SendFails, Done, daemon, Goto

LEMMA PressedStep == ASSUME IInv, Next PROVE Pressed'
<1>1. main' \in {"read", "adjust"} => access_control_is_authorized(User[serving'], lookup')
  BY MainComes DEF IInv, Pressed
<1>2. main' = "adjust" =>
        /\ IsDimmit(serving') => hand' = Request(serving')
        /\ Len(Script[serving']) = 1 => Obeys(Script[serving'][1], hand')
  BY MainComes, ReadGives DEF IInv, Pressed
<1>3. ASSUME ~ Adjust, NEW c \in Clients PROVE executed'[c] = executed[c]
  BY <1>3 DEF Next, Main, BeforeBind, Listen, AfterBind, While, IdleTick, Accept, AcceptFails, Authorize, Read,
     ReadNothing, Close, Cleanup, Signal,
     Client, Connect, ConnectFails, Send, SendFails, Done, daemon
<1>4. ASSUME ~ Adjust, NEW c \in Clients, executed[c] # <<>>
      PROVE  ~ Waits(backlog', c) /\ (serving' = c => main' = "close")
  <2>1. ~ Connect(c) /\ ~ Waits(backlog, c)
    BY <1>4 DEF Connect, IInv, Pieces, Pressed
  <2>2. ASSUME serving' = c PROVE main' = "close"
    <3>1. serving = c /\ main = "close"
      BY <1>4, <2>1, <2>2, Waiting DEF IInv, Pressed
    <3>2. ~ Close
      BY <2>2, ClientsAssumption DEF Close
    <3>3. ~ Authorize /\ ~ Read /\ ~ ReadNothing
      BY <3>1 DEF Authorize, Read, ReadNothing, Goto
    <3> QED
      BY <1>4, <3>1, <3>2, <3>3, MainMoves DEF Busy
  <2> QED
    BY <2>1, <2>2, Waiting
<1>5. CASE ~ Adjust
  BY <1>1, <1>2, <1>3, <1>4, <1>5 DEF IInv, Pressed
<1>6. CASE Adjust
  <2>1. /\ main = "adjust" /\ main' = "close" /\ serving \in Clients
        /\ executed' = [executed EXCEPT ![serving] = Append(executed[serving], hand)]
        /\ UNCHANGED <<backlog, serving>>
    BY <1>6 DEF Adjust, Goto, IInv, Loop, Busy, clients
  <2>2. executed[serving] = <<>>
    BY <2>1 DEF IInv, Pressed
  <2>3. /\ executed'[serving] = <<hand>>
        /\ \A c \in Clients \ {serving} : executed'[c] = executed[c]
    BY <2>1, <2>2 DEF IInv, Pieces
  <2>4. ~ Waits(backlog, serving)
    BY DEF IInv, Queue
  <2>5. AnyClient \/ ~ GroupExists \/ Member(User[serving])
    BY <2>1, AuthorizedAreMembers DEF IInv, Pressed
  <2>6. ASSUME NEW c \in Clients
        PROVE  /\ executed'[c] # <<>> => ~ Waits(backlog', c) /\ (serving' = c => main' = "close")
               /\ IsDimmit(c) => executed'[c] \in {<<>>, <<Request(c)>>}
               /\ Len(Script[c]) = 1 /\ executed'[c] # <<>> =>
                     IsCommand(Script[c][1]) /\ executed'[c] = <<Direction[Script[c][1][1]]>>
               /\ executed'[c] # <<>> => AnyClient \/ ~ GroupExists \/ Member(User[c])
    <3>1. CASE c = serving
      BY <2>1, <2>3, <2>4, <2>5, <3>1 DEF IInv, Pressed, Obeys
    <3>2. CASE c # serving
      BY <2>1, <2>3, <3>2 DEF IInv, Pressed
    <3> QED
      BY <3>1, <3>2
  <2> QED
    BY <1>1, <1>2, <2>6 DEF Pressed
<1> QED
  BY <1>5, <1>6

LEMMA Kept ==
    ASSUME IInv, Next, NEW c \in Clients
    PROVE  /\ executed[c] # <<>> => executed'[c] # <<>>
           /\ ~ running => ~ running'
           /\ refused[c] # "no" => refused'[c] # "no"
<1>1. ~ running => ~ running'
  BY DEF Next, Main, BeforeBind, Listen, AfterBind, While, IdleTick, Accept, AcceptFails, Authorize, Read,
     ReadNothing, Adjust, Close, Cleanup, Signal,
     Client, Connect, ConnectFails, Send, SendFails, Done, daemon
<1>0. refused[c] # "no" => refused'[c] # "no"
  <2>1. CASE Authorize
    BY <2>1 DEF Authorize, IInv, Loop, Busy, Refusals, Lookups
  <2>2. CASE refused' = refused
    BY <2>2
  <2> QED
    BY <2>1, <2>2 DEF Next, Main, BeforeBind, Listen, AfterBind, While, IdleTick, Accept, AcceptFails,
       Read, ReadNothing, Adjust, Close, Cleanup, Signal,
       Client, Connect, ConnectFails, Send, SendFails, Done, daemon
<1>2. CASE executed' = executed
  BY <1>0, <1>1, <1>2
<1>3. CASE Adjust
  <2>1. /\ main = "adjust" /\ serving \in Clients
        /\ executed' = [executed EXCEPT ![serving] = Append(executed[serving], hand)]
    BY <1>3 DEF Adjust, Goto, IInv, Loop, Busy
  <2>2. executed[serving] = <<>>
    BY <2>1 DEF IInv, Pressed
  <2> QED
    BY <1>0, <1>1, <2>1, <2>2 DEF IInv, Pieces
<1> QED
  BY <1>2, <1>3 DEF Next, Main, BeforeBind, Listen, AfterBind, While, IdleTick, Accept, AcceptFails, Authorize,
     Read, ReadNothing, Close, Cleanup, Signal,
     Client, Connect, ConnectFails, Send, SendFails, Done, daemon

\* A client ends where it is, or goes on sending.
LEMMA ClientMoves ==
    ASSUME IInv, Next, NEW c \in Clients, client'[c] \in {"sending", "killed"}
    PROVE  \/ client[c] \in {"sending", "killed"}
           \/ Connect(c)
<1>1. CASE UNCHANGED client
  BY <1>1
<1>2. ASSUME NEW d \in Clients, Client(d)
      PROVE  client[c] \in {"sending", "killed"} \/ Connect(c)
  BY <1>2 DEF Client, Connect, ConnectFails, Send, SendFails, Done, IInv, Pieces
<1> QED
  BY <1>1, <1>2 DEF Next, Main, BeforeBind, Listen, AfterBind, While, IdleTick, Accept, AcceptFails, Authorize,
     Read, ReadNothing, Adjust, Close, Cleanup, Signal, clients

LEMMA LeftStep == ASSUME IInv, Next PROVE Left'
<1> SUFFICES ASSUME NEW c \in Clients,
                    IsDimmit(c),
                    client'[c] \in {"sending", "killed"},
                    ~ Waits(backlog', c),
                    serving' = c => main' = "close"
             PROVE  executed'[c] # <<>> \/ refused'[c] # "no" \/ ~ running'
  <2>1. \A c \in Clients : IsDimmit(c)' = IsDimmit(c)
    BY DEF IsDimmit
  <2> QED
    BY <2>1 DEF Left
<1>1. ~ Connect(c)
  <2>1. ASSUME Connect(c) PROVE Waits(backlog', c)
    <3>1. ~ Waits(backlog, c) /\ backlog' = Append(backlog, c)
      BY <2>1 DEF Connect, IInv, Pieces
    <3> QED
      BY <3>1, Enqueue DEF IInv, Queue
  <2> QED
    BY <2>1
<1>2. client[c] \in {"sending", "killed"}
  BY <1>1, ClientMoves
<1>3. CASE ~ Waits(backlog, c) /\ (serving = c => main = "close")
  BY <1>2, <1>3, Kept DEF IInv, Left
<1>4. CASE Waits(backlog, c)
  <2>1. ~ Accept
    BY <1>4, Dequeue DEF Accept, Goto, IInv, Queue
  <2>2. ASSUME NEW d \in Clients, Connect(d) PROVE FALSE
    <3>1. ~ Waits(backlog, d) /\ backlog' = Append(backlog, d)
      BY <2>2 DEF Connect, IInv, Pieces
    <3> QED
      BY <1>4, <3>1, Enqueue DEF IInv, Queue
  <2> QED
    BY <1>4, <2>1, <2>2, QueueChanges DEF IInv, Loop
<1>5. CASE serving = c /\ main # "close"
  <2>1. main \in Busy /\ client[c] = "sending"
    BY <1>2, <1>5, ClientsAssumption DEF IInv, Loop, Pieces
  <2>2. ~ Close /\ ~ UNCHANGED <<main, serving>>
    BY <1>5 DEF Close, Goto
  <2>3. CASE Authorize
    <3>1. main' # "close" => refused' = [refused EXCEPT ![c] = lookup] \/ main' = "read"
      BY <1>5, <2>3 DEF Authorize
    <3>2. refused' = [refused EXCEPT ![c] = lookup] => refused'[c] # "no"
      BY DEF IInv, Loop, Refusals, Lookups
    <3> QED
      BY <1>5, <2>3, <3>2 DEF Authorize
  <2>4. CASE Read
    BY <1>5, <2>4, ReadGives DEF Read
  <2>5. CASE ReadNothing
    BY <1>5, <2>1, <2>5, Kept DEF ReadNothing
  <2>6. CASE Adjust
    <3>1. /\ executed' = [executed EXCEPT ![c] = Append(executed[c], hand)]
          /\ executed[c] = <<>>
      BY <1>5, <2>6 DEF Adjust, Goto, IInv, Pressed
    <3> QED
      BY <3>1 DEF IInv, Pieces
  <2> QED
    BY <2>1, <2>2, <2>3, <2>4, <2>5, <2>6, MainMoves
<1> QED
  BY <1>3, <1>4, <1>5

-----------------------------------------------------------------------------
(* The theorems.                                                           *)

LEMMA Inductive == IInv /\ [Next]_vars => IInv'
<1> SUFFICES ASSUME IInv, [Next]_vars PROVE IInv'
  OBVIOUS
<1>1. CASE Next
  BY <1>1, LoopStep, QueueStep, PiecesStep, PressedStep, LeftStep, RefusalsStep DEF IInv
<1>2. CASE UNCHANGED vars
  BY <1>2 DEF vars, daemon, clients, IInv, Loop, Queue, Pieces, Pressed, Left, Refusals,
     MembersAreLetIn, IsDimmit
<1> QED
  BY <1>1, <1>2

\* The invariant holds of every behaviour.
LEMMA Invariant == Spec => []IInv
  BY Initially, Inductive, PTL DEF Spec

\* Type correctness, for every set of clients, script and backlog.
THEOREM TypeCorrect == Spec => []TypeOK
<1>1. IInv => TypeOK
  <2> SUFFICES ASSUME IInv PROVE TypeOK
    OBVIOUS
  <2>1. \A c \in Clients : sent[c] \in 0..Len(Script[c]) /\ Len(arrived[c]) <= sent[c]
    BY ClientsAssumption DEF IInv, Pieces
  <2> QED
    BY <2>1 DEF IInv, Loop, Busy, Queue, Pieces, Refusals, TypeOK, Unique
<1> QED
  BY <1>1, Invariant, PTL

\* A press of dimmit-up or dimmit-down is done once at most and in its direction,
\* for any number of clients and wherever the single recv of read_command falls.
THEOREM PressesAreDoneOnce == Spec => []PressedOnce
<1>1. IInv => PressedOnce
  BY DEF IInv, Pressed, PressedOnce
<1> QED
  BY <1>1, Invariant, PTL

\* Of what is sent in one piece, whatever it is, only a word that is alone, or before a
\* final newline, or before a NUL, presses anything, and only in its direction: the
\* comparison is of C strings, and what is behind a NUL is never seen.
THEOREM OnlyCommandsPress == Spec => []OnlyExactCommands
<1>1. IInv => OnlyExactCommands
  BY DEF IInv, Pressed, OnlyExactCommands
<1> QED
  BY <1>1, Invariant, PTL

\* access_control_is_authorized stands before every press: nothing is done for a user
\* outside the group, on any system, for any users and groups, and also when the
\* group database changes between its two answers.
THEOREM StrangersDoNotPress == Spec => []OnlyMembersPress
<1>1. IInv => OnlyMembersPress
  BY DEF IInv, Pressed, OnlyMembersPress
<1> QED
  BY <1>1, Invariant, PTL

\* And nobody is turned away but for not belonging to the group, for having no
\* credentials, or for more groups than fit while the database grows.
THEOREM MembersAreAuthorized == Spec => []MembersAreLetIn
<1>1. IInv => MembersAreLetIn
  BY DEF IInv, Refusals
<1> QED
  BY <1>1, Invariant, PTL

\* A dimmit that dies of SIGPIPE has lost nothing that it was to get.
THEOREM KilledHasItsPress == Spec => []KilledAfterItsPress
<1>1. IInv => KilledAfterItsPress
  <2> SUFFICES ASSUME IInv, NEW c \in Clients, IsDimmit(c), client[c] = "killed"
               PROVE  executed[c] # <<>> \/ refused[c] # "no" \/ ~ running
    BY DEF KilledAfterItsPress
  <2>1. ~ Waits(backlog, c) /\ serving # c
    BY DEF IInv, Pieces
  <2> QED
    BY <2>1 DEF IInv, Left
<1> QED
  BY <1>1, Invariant, PTL
=============================================================================
