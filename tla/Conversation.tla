---------------------------- MODULE Conversation ----------------------------
(***************************************************************************)
(* One client after the other: dimmit.c (and others that write to the      *)
(* socket), the accept loop of dimmitd.c with read_command, and the        *)
(* access-control hooks between them.  What a press does to the displays   *)
(* is the business of module Daemon.                                       *)
(*                                                                         *)
(* A client sends its script piece by piece; the daemon reads once and     *)
(* closes, so that the two may miss each other in many ways.               *)
(***************************************************************************)
EXTENDS AccessControl, Sequences

CONSTANTS
  Clients,
  User,        \* User[c]: who runs client c
  Script,      \* Script[c]: the pieces that c sends, sequences of "up", "down",
               \* "newline", "nul" and anything else
  Backlog,     \* connections waiting to be accepted (ACCEPT_BACKLOG)
  Nobody       \* no client

ASSUME BacklogAssumption == Backlog \in Nat \ {0}
ASSUME ClientsAssumption ==
    /\ Nobody \notin Clients
    /\ \A c \in Clients : Script[c] \in Seq(Seq(STRING))
ASSUME UsersAssumption == \A c \in Clients : IsFiniteSet(User[c].groups)

VARIABLES
  main,        \* where the daemon's main thread is
  running,     \* the flag the signal handler clears
  socket,      \* "none", "fresh", "exposed" or "closed"
  backlog,     \* the connections that wait, in their order
  serving,     \* the client that is accepted, or Nobody
  lookup,      \* what the system answers to is_authorized
  hand,        \* the direction that read_command returned
  client,      \* client[c]: where c is
  sent,        \* sent[c]: how many pieces c has sent
  arrived,     \* arrived[c]: the pieces the daemon has not read
  executed,    \* executed[c]: the directions pressed for c
  refused      \* refused[c]: the lookup with which c was turned away, or "no"

daemon == <<main, running, socket, serving, lookup, hand, executed, refused>>
clients == <<client, sent>>
vars == <<daemon, backlog, clients, arrived>>

-----------------------------------------------------------------------------
(* command.c                                                               *)

\* A faulty parser goes through all the words, and the last command wins.
parse_every_word(words) ==
    LET commands == {i \in DOMAIN words : words[i] \in {"up", "down"}}
    IN  IF commands = {} THEN 0
        ELSE IF words[CHOOSE i \in commands : \A j \in commands : j <= i] = "up" THEN 1 ELSE -1

\* strcmp: the string ends before the first NUL.
Reads(words, word) ==
    /\ Len(words) >= 1 /\ words[1] = word
    /\ Len(words) = 1 \/ words[2] = "nul"

parse_command(words) ==
    CASE Reads(words, "up") -> 1 [] Reads(words, "down") -> -1 [] OTHER -> 0

\* A faulty read_command leaves the newline.
read_unstripped(words) == parse_command(words)

\* One newline at the end is cut off.
read_command(words) ==
    LET last == Len(words)
    IN  IF last > 0 /\ words[last] = "newline"
        THEN parse_command(SubSeq(words, 1, last - 1))
        ELSE parse_command(words)

Joined(pieces) ==
    LET join[n \in 0..Len(pieces)] == IF n = 0 THEN <<>> ELSE join[n - 1] \o pieces[n]
    IN  join[Len(pieces)]

-----------------------------------------------------------------------------
(* dimmitd.c: main.                                                        *)

Goto(from, to) == main = from /\ main' = to

\* Without the privilege main returns.
BeforeBind ==
    /\ main = "before_bind"
    /\ main' = IF access_control_before_bind THEN "bind" ELSE "exited"
    /\ UNCHANGED <<running, socket, backlog, serving, lookup, hand, clients, arrived, executed, refused>>

Listen ==
    /\ Goto("bind", "after_bind")
    /\ socket' = "fresh"
    /\ UNCHANGED <<running, backlog, serving, lookup, hand, clients, arrived, executed, refused>>

\* A failure is not fatal.
AfterBind ==
    /\ Goto("after_bind", "while")
    /\ socket' \in {"fresh", "exposed"}
    /\ UNCHANGED <<running, backlog, serving, lookup, hand, clients, arrived, executed, refused>>

While ==
    /\ main = "while"
    /\ main' = IF running THEN "select" ELSE "cleanup"
    /\ UNCHANGED <<running, socket, backlog, serving, lookup, hand, clients, arrived, executed, refused>>

IdleTick ==
    /\ Goto("select", "while")
    /\ backlog = <<>> \/ ~ running
    /\ UNCHANGED <<running, socket, backlog, serving, lookup, hand, clients, arrived, executed, refused>>

Accept ==
    /\ Goto("select", "authorize")
    /\ backlog # <<>>
    /\ serving' = Head(backlog)
    /\ backlog' = Tail(backlog)
    /\ lookup' \in Lookups
    /\ UNCHANGED <<running, socket, hand, clients, arrived, executed, refused>>

\* accept fails for reasons of its own, and with EINTR when the signal comes.
AcceptFails ==
    /\ main = "select"
    /\ backlog # <<>>
    /\ main' \in {"cleanup"} \cup (IF running \/ System = "windows" THEN {} ELSE {"while"})
    /\ UNCHANGED <<running, socket, backlog, serving, lookup, hand, clients, arrived, executed, refused>>

Authorize ==
    /\ main = "authorize"
    /\ \/ /\ access_control_is_authorized(User[serving], lookup)
          /\ main' = "read"
          /\ UNCHANGED refused
       \/ /\ ~ access_control_is_authorized(User[serving], lookup)
          /\ main' = "close"
          /\ refused' = [refused EXCEPT ![serving] = lookup]
    /\ UNCHANGED <<running, socket, backlog, serving, lookup, hand, clients, arrived, executed>>

\* A faulty recv does not wait for the client.
read_early ==
    /\ Goto("read", "close")
    /\ arrived[serving] = <<>>
    /\ UNCHANGED <<running, socket, backlog, serving, lookup, hand, clients, arrived, executed, refused>>

\* recv returns what has arrived, or some of it: at least one piece ...
Read ==
    /\ main = "read"
    /\ \E n \in 1..Len(arrived[serving]) :
          /\ hand' = read_command(Joined(SubSeq(arrived[serving], 1, n)))
          /\ main' = IF hand' # 0 THEN "adjust" ELSE "close"
    /\ UNCHANGED <<running, socket, backlog, serving, lookup, clients, arrived, executed, refused>>

\* ... or nothing, from a client that is gone or when the signal comes.
ReadNothing ==
    /\ Goto("read", "close")
    /\ arrived[serving] = <<>>
    /\ client[serving] # "sending" \/ ~ running
    /\ UNCHANGED <<running, socket, backlog, serving, lookup, hand, clients, arrived, executed, refused>>

Adjust ==
    /\ Goto("adjust", "close")
    /\ executed' = [executed EXCEPT ![serving] = Append(@, hand)]
    /\ UNCHANGED <<running, socket, backlog, serving, lookup, hand, clients, arrived, refused>>

\* A faulty daemon stays with the client and finds the old bytes in its buffer.
close_forgotten ==
    /\ Goto("close", "read")
    /\ UNCHANGED <<running, socket, backlog, serving, lookup, hand, clients, arrived, executed, refused>>

\* net_close of the client, and what it sent besides is lost.
Close ==
    /\ Goto("close", "while")
    /\ arrived' = [arrived EXCEPT ![serving] = <<>>]
    /\ serving' = Nobody
    /\ hand' = 0
    /\ lookup' = "steady"
    /\ UNCHANGED <<running, socket, backlog, clients, executed, refused>>

\* The connections that nobody accepted are reset.
Cleanup ==
    /\ Goto("cleanup", "exited")
    /\ running' = FALSE
    /\ socket' = "closed"
    /\ backlog' = <<>>
    /\ UNCHANGED <<serving, lookup, hand, clients, arrived, executed, refused>>

Signal ==
    /\ running
    /\ running' = FALSE
    /\ UNCHANGED <<main, socket, backlog, serving, lookup, hand, clients, arrived, executed, refused>>

-----------------------------------------------------------------------------
(* dimmit.c                                                                *)

Listening == socket \in {"fresh", "exposed"}

\* A connect waits for a place in the backlog.
Connect(c) ==
    /\ client[c] = "start"
    /\ Listening
    /\ may_connect(User[c], socket)
    /\ Len(backlog) < Backlog
    /\ backlog' = Append(backlog, c)
    /\ client' = [client EXCEPT ![c] = "sending"]
    /\ UNCHANGED <<daemon, sent, arrived>>

ConnectFails(c) ==
    /\ client[c] = "start"
    /\ ~ Listening \/ ~ may_connect(User[c], socket)
    /\ client' = [client EXCEPT ![c] = "failed"]
    /\ UNCHANGED <<daemon, backlog, sent, arrived>>

Connected(c) == serving = c \/ \E i \in DOMAIN backlog : backlog[i] = c

Send(c) ==
    /\ client[c] = "sending"
    /\ sent[c] < Len(Script[c])
    /\ Connected(c)
    /\ arrived' = [arrived EXCEPT ![c] = Append(@, Script[c][sent[c] + 1])]
    /\ sent' = [sent EXCEPT ![c] = @ + 1]
    /\ UNCHANGED <<daemon, backlog, client>>

\* A faulty client sends its newline once more.
sends_again(c) ==
    /\ client[c] = "sending"
    /\ ~ Connected(c)
    /\ sent' = [sent EXCEPT ![c] = @ + 1]
    /\ client' = [client EXCEPT ![c] = "killed"]
    /\ UNCHANGED <<daemon, backlog, arrived>>

\* A send to a socket that the daemon has closed: nobody ignores SIGPIPE, and the
\* client dies of it; Windows has none, and the client complains and goes on.
SendFails(c) ==
    /\ client[c] = "sending"
    /\ sent[c] < Len(Script[c])
    /\ ~ Connected(c)
    /\ sent' = [sent EXCEPT ![c] = @ + 1]
    /\ client' \in {[client EXCEPT ![c] = "killed"]}
                   \cup (IF System = "windows" THEN {client} ELSE {})
    /\ UNCHANGED <<daemon, backlog, arrived>>

Done(c) ==
    /\ client[c] = "sending"
    /\ sent[c] = Len(Script[c])
    /\ client' = [client EXCEPT ![c] = "exited"]
    /\ UNCHANGED <<daemon, backlog, sent, arrived>>

-----------------------------------------------------------------------------

Init ==
    /\ main = "before_bind"
    /\ running = TRUE
    /\ socket = "none"
    /\ backlog = <<>>
    /\ serving = Nobody
    /\ lookup = "steady"
    /\ hand = 0
    /\ client = [c \in Clients |-> "start"]
    /\ sent = [c \in Clients |-> 0]
    /\ arrived = [c \in Clients |-> <<>>]
    /\ executed = [c \in Clients |-> <<>>]
    /\ refused = [c \in Clients |-> "no"]

Main ==
    \/ BeforeBind \/ Listen \/ AfterBind \/ While \/ IdleTick \/ Accept \/ AcceptFails \/ Authorize
    \/ Read \/ ReadNothing \/ Adjust \/ Close \/ Cleanup

Client(c) == Connect(c) \/ ConnectFails(c) \/ Send(c) \/ SendFails(c) \/ Done(c)

Next == Main \/ Signal \/ \E c \in Clients : Client(c)

\* Main is scheduled, and so is a client, which never waits between its sends.
Fairness == WF_vars(Main) /\ \A c \in Clients : WF_vars(Client(c))

Spec == Init /\ [][Next]_vars

FairSpec == Spec /\ Fairness

-----------------------------------------------------------------------------
(* Properties.                                                             *)

TypeOK ==
    /\ main \in {"before_bind", "bind", "after_bind", "while", "select", "authorize",
                 "read", "adjust", "close", "cleanup", "exited"}
    /\ running \in BOOLEAN
    /\ socket \in {"none", "fresh", "exposed", "closed"}
    /\ serving \in Clients \cup {Nobody}
    /\ lookup \in Lookups
    /\ hand \in {-1, 0, 1}
    /\ refused \in [Clients -> Lookups \cup {"no"}]
    /\ client \in [Clients -> {"start", "sending", "exited", "killed", "failed"}]
    /\ \A c \in Clients :
          /\ sent[c] \in 0..Len(Script[c])
          /\ Len(arrived[c]) <= sent[c]
    /\ backlog \in Seq(Clients)
    /\ Len(backlog) <= Backlog
    /\ \A i, j \in DOMAIN backlog : backlog[i] = backlog[j] => i = j

\* What dimmit-up and dimmit-down send, and what it asks for.
Direction == [up |-> 1, down |-> -1]
IsDimmit(c) == \E word \in {"up", "down"} : Script[c] = << <<word>>, <<"newline">> >>
Request(c) == Direction[Script[c][1][1]]

\* A press of dimmit-up or dimmit-down is done once at most and in its direction,
\* wherever the daemon's single read falls between its two sends.
PressedOnce ==
    \A c \in Clients : IsDimmit(c) => executed[c] \in {<<>>, <<Request(c)>>}

\* Of what comes in one piece, only a command is obeyed, in its direction: the word
\* alone, with one newline after it, or with a NUL after it and then anything at all.
\* Two commands in one piece are none.
IsCommand(words) ==
    /\ words[1] \in {"up", "down"}
    /\ Len(words) = 1 \/ words = <<words[1], "newline">> \/ words[2] = "nul"
OnlyExactCommands ==
    \A c \in Clients :
        Len(Script[c]) = 1 /\ executed[c] # <<>> =>
            /\ IsCommand(Script[c][1])
            /\ executed[c] = <<Direction[Script[c][1][1]]>>

\* A client that dies of its second send has lost nothing: its press was done, or
\* it was turned away, or the daemon is on its way out.
KilledAfterItsPress ==
    \A c \in Clients :
        IsDimmit(c) /\ client[c] = "killed" =>
            executed[c] # <<>> \/ refused[c] # "no" \/ ~ running

\* "A connecting client must belong to that group": nothing is done for a user that
\* does not, as long as there is such a group.
Member(user) == PolicyGroup \in user.groups \cup {user.egid, user.primary}
OnlyMembersPress ==
    \A c \in Clients :
        executed[c] # <<>> => AnyClient \/ ~ GroupExists \/ Member(User[c])

\* Nobody else is turned away: who is, does not belong to the group as far as the user
\* database knows, or could not be identified, or has more groups than are listed at
\* first and was read again just when there were still more.
KnownMember(user) ==
    PolicyGroup \in {user.egid} \cup (IF user.named THEN user.groups \cup {user.primary} ELSE {})
MembersAreLetIn ==
    \A c \in Clients :
        refused[c] # "no" =>
            \/ refused[c] = "unknown" /\ ~ AnyClient
            \/ GroupExists /\ ~ AnyClient /\ ~ KnownMember(User[c])
            \/ refused[c] = "grew" /\ Cardinality(GroupList(User[c])) > GroupListMax

\* A press that gets through connect is done, unless the daemon ends or has turned its
\* user away; clients that hang up or talk nonsense hold nobody up.
PressesGetThrough ==
    \A c \in Clients :
        IsDimmit(c) /\ client[c] = "sending"
            ~> executed[c] = <<Request(c)>> \/ refused[c] # "no" \/ ~ running
=============================================================================
