--------------------------- MODULE MCConversation ---------------------------
(* Three clients on Linux: dimmit-up run by a member whose process runs as    *)
(* another group, dimmit-down by somebody who is in too many groups to be     *)
(* listed at once and not in that one, and a program of a user without a name *)
(* that runs as the group and writes a NUL and more after its command.        *)
EXTENDS Conversation

CONSTANTS member, stranger, garbler

Person(root, egid, primary, groups, named) ==
    [root |-> root, egid |-> egid, primary |-> primary, groups |-> groups, named |-> named]
MCDaemonUser == Person(TRUE, "wheel", "wheel", {}, TRUE)
MCUser ==
    [c \in Clients |->
        CASE c = member   -> Person(FALSE, "users", "i2c", {}, TRUE)
          [] c = stranger -> Person(TRUE, "wheel", "wheel", {"users", "games", "audio"}, TRUE)
          [] c = garbler  -> Person(FALSE, "i2c", "i2c", {}, FALSE)]
MCScript ==
    [c \in Clients |->
        CASE c = member   -> << <<"up">>, <<"newline">> >>
          [] c = stranger -> << <<"down">>, <<"newline">> >>
          [] c = garbler  -> << <<"up", "nul", "down", "newline">> >>]
=============================================================================
