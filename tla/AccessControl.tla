--------------------------- MODULE AccessControl ---------------------------
(***************************************************************************)
(* Who may drive the brightness: the three hooks of access-control.h, for  *)
(* Linux, NetBSD, macOS and Windows.                                       *)
(*                                                                         *)
(* A user is [root, egid, primary, groups, named]: whether it is the       *)
(* superuser, the group its process runs as, the primary group and the     *)
(* other groups that the user database has for it, and whether the user    *)
(* database knows it at all.                                               *)
(***************************************************************************)
EXTENDS Integers, FiniteSets

CONSTANTS
  System,      \* "linux", "netbsd", "darwin" or "windows"
  GroupExists, \* whether the group database knows the group of the policy
  DaemonUser,  \* the user that runs the daemon
  GroupListMax \* the groups that fit at the first attempt (32)

ASSUME SystemAssumption == System \in {"linux", "netbsd", "darwin", "windows"}
ASSUME GroupListAssumption == GroupListMax \in Nat

\* The group that the policy of the system is about.
PolicyGroup == CASE System = "linux" -> "i2c" [] System = "netbsd" -> "wheel" [] OTHER -> "none"

\* macOS and Windows let everybody press who gets through connect.
AnyClient == System \in {"darwin", "windows"}

access_control_before_bind == System = "linux" => DaemonUser.root

\* Whom a socket in the file system lets in: its owner ("fresh", under the usual
\* umask), and its group too once it is "exposed"; Windows has its own lists, and
\* those are left open here.  after_bind hands it to the policy's group on Linux only.
SocketGroup(exposure) ==
    IF exposure = "fresh" THEN "nobody"
    ELSE IF System = "linux" /\ GroupExists THEN PolicyGroup
    ELSE DaemonUser.egid
may_connect(user, exposure) ==
    \/ System = "windows"
    \/ user.root \/ user = DaemonUser
    \/ SocketGroup(exposure) \in user.groups \cup {user.egid, user.primary}

\* getgrouplist, for a user of the database and for one that is not in it.
GroupList(user) == {user.egid} \cup (IF user.named THEN user.groups ELSE {})

\* What the system answers while a client is looked at: its credentials are "unknown",
\* or known, and then the group database may have "grew" between two readings of the
\* list; the list is read again, once, with the size it was said to have.
Lookups == {"steady", "grew", "unknown"}
ReadsGroups(user, lookup) ==
    Cardinality(GroupList(user)) <= GroupListMax \/ lookup # "grew"

\* A faulty one takes a list that it could not read for a member's ...
authorized_unread(user, lookup) ==
    \/ AnyClient
    \/ /\ lookup # "unknown"
       /\ \/ ~ GroupExists
          \/ user.named /\ user.primary = PolicyGroup
          \/ ~ ReadsGroups(user, lookup)
          \/ PolicyGroup \in GroupList(user)

\* ... and another one looks at the list only, and forgets the primary group.
authorized_by_list(user, lookup) ==
    \/ AnyClient
    \/ /\ lookup # "unknown"
       /\ ~ GroupExists \/ (ReadsGroups(user, lookup) /\ PolicyGroup \in GroupList(user))

access_control_is_authorized(user, lookup) ==
    \/ AnyClient
    \/ /\ lookup # "unknown"
       /\ \/ ~ GroupExists
          \/ user.named /\ user.primary = PolicyGroup
          \/ ReadsGroups(user, lookup) /\ PolicyGroup \in GroupList(user)
=============================================================================
