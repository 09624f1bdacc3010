----------------------------- MODULE UsersGroup -----------------------------
(***************************************************************************)
(* The two hash tables of coordination::UsersGroup                         *)
(* (src/server/coordination/users_group.h, user.h): uid -> the fds of the  *)
(* user's devices in login order, and fd -> uid.  The class keeps them     *)
(* inverse of each other (its invariants_ok); the server routes by the     *)
(* first and decides who is logged in by the second.                       *)
(***************************************************************************)
EXTENDS Sequences, SequencesExt

CONSTANTS
    Uid,    \* user names
    Fd      \* file descriptors

VARIABLES
    uid_to_fd,  \* the users online, each with its User::fds_
    fd_to_uid   \* the fds logged in, each with its user

vars == <<uid_to_fd, fd_to_uid>>

-----------------------------------------------------------------------------
(* Queries *)

has_fd(fd) == fd \in DOMAIN fd_to_uid

online(uid) == uid \in DOMAIN uid_to_fd

(* query_all: every device of uid, oldest first; none when uid is offline. *)
query_all(uid) == IF online(uid) THEN uid_to_fd[uid] ELSE <<>>

-----------------------------------------------------------------------------
(* Operations *)

(* Seeded fault: a repeated login of the same user counts as a new one. *)
RegisterResultTwice(uid, fd) ==
    IF has_fd(fd) /\ fd_to_uid[fd] # uid THEN "FdConflict" ELSE "Registered"

(* How register_user classifies a login before it touches either table. *)
RegisterResult(uid, fd) ==
    IF ~ has_fd(fd) THEN "Registered"
    ELSE IF fd_to_uid[fd] = uid THEN "AlreadyBound" ELSE "FdConflict"

(* The two tables after a login that is committed; emplace leaves an entry *)
(* that is already there alone.                                            *)
AddFd(uid, fd) ==
    /\ fd_to_uid' = [f \in DOMAIN fd_to_uid \cup {fd} |->
                        IF has_fd(f) THEN fd_to_uid[f] ELSE uid]
    /\ uid_to_fd' = [u \in DOMAIN uid_to_fd \cup {uid} |->
                        IF u = uid THEN Append(query_all(uid), fd) ELSE uid_to_fd[u]]

(* Seeded fault: no classification, the last login wins the fd table. *)
RegisterOverwrites(uid, fd) ==
    /\ fd_to_uid' = [f \in DOMAIN fd_to_uid \cup {fd} |->
                        IF f = fd THEN uid ELSE fd_to_uid[f]]
    /\ uid_to_fd' = [u \in DOMAIN uid_to_fd \cup {uid} |->
                        IF u # uid THEN uid_to_fd[u]
                        ELSE IF fd \in ToSet(query_all(uid)) THEN query_all(uid)
                        ELSE Append(query_all(uid), fd)]

(* The three outcomes of a login: only Registered touches the tables. *)
register_user(uid, fd) ==
    \/ /\ RegisterResult(uid, fd) = "Registered"
       /\ AddFd(uid, fd)
    \/ /\ RegisterResult(uid, fd) # "Registered"
       /\ UNCHANGED vars

(* Seeded fault: the gap is filled with the last device. *)
SwapAndPop(fds, fd) ==
    [i \in 1..Len(fds) - 1 |-> IF fds[i] = fd THEN fds[Len(fds)] ELSE fds[i]]

(* User::delete_device: std::find, then erase that one element. *)
delete_device(fds, fd) == RemoveFirst(fds, fd)

(* The two tables once the device fd of uid is gone; a user whose last *)
(* device left is erased.                                              *)
DropFd(uid, fd) ==
    LET left == delete_device(uid_to_fd[uid], fd)
        users == IF left = <<>> THEN DOMAIN uid_to_fd \ {uid} ELSE DOMAIN uid_to_fd
    IN  /\ fd_to_uid' = Restrict(fd_to_uid, DOMAIN fd_to_uid \ {fd})
        /\ uid_to_fd' = [u \in users |-> IF u = uid THEN left ELSE uid_to_fd[u]]

delete_fd(fd) ==
    \/ /\ has_fd(fd)
       /\ online(fd_to_uid[fd])
       /\ DropFd(fd_to_uid[fd], fd)
    \/ /\ ~ (has_fd(fd) /\ online(fd_to_uid[fd]))
       /\ UNCHANGED vars

-----------------------------------------------------------------------------
Init ==
    /\ uid_to_fd = [u \in {} |-> <<>>]
    /\ fd_to_uid = [f \in {} |-> <<>>]

Next ==
    \E fd \in Fd :
        \/ \E uid \in Uid : register_user(uid, fd)
        \/ delete_fd(fd)

Spec == Init /\ [][Next]_vars

-----------------------------------------------------------------------------
(* Properties *)

(* Both tables are partial functions over the users and the fds. *)
TypeOK ==
    /\ DOMAIN uid_to_fd \subseteq Uid
    /\ DOMAIN fd_to_uid \subseteq Fd
    /\ uid_to_fd \in [DOMAIN uid_to_fd -> Seq(Fd)]
    /\ fd_to_uid \in [DOMAIN fd_to_uid -> Uid]

(* No user entry is left without a device (users_group.h:53). *)
NoEmptyUser == \A uid \in DOMAIN uid_to_fd : uid_to_fd[uid] # <<>>

(* Every device listed for a user is logged in as that user, so no request *)
(* can be routed to an fd that is closed or that belongs to someone else   *)
(* (users_group.h:55-60).                                                  *)
ForwardExact ==
    \A uid \in DOMAIN uid_to_fd : \A i \in 1..Len(uid_to_fd[uid]) :
        /\ has_fd(uid_to_fd[uid][i])
        /\ fd_to_uid[uid_to_fd[uid][i]] = uid

(* Every logged-in fd is listed for its user exactly once, so one          *)
(* disconnect clears it completely (users_group.h:66-80).                  *)
BackwardExact ==
    \A fd \in DOMAIN fd_to_uid :
        /\ online(fd_to_uid[fd])
        /\ \E i \in 1..Len(uid_to_fd[fd_to_uid[fd]]) :
              \A j \in 1..Len(uid_to_fd[fd_to_uid[fd]]) :
                  uid_to_fd[fd_to_uid[fd]][j] = fd <=> j = i

(* invariants_ok(): the two tables are exact inverses of each other. *)
InvariantsOk == NoEmptyUser /\ ForwardExact /\ BackwardExact

(* A connection keeps its identity: an fd that is bound before and after a *)
(* step is bound to the same user (the FdConflict branch refuses the       *)
(* other login, users_group.h:103-107).                                    *)
NoRebind ==
    [][\A fd \in DOMAIN fd_to_uid :
          fd \in DOMAIN fd_to_uid' => fd_to_uid'[fd] = fd_to_uid[fd]]_vars

(* The two tables implement the one table of Presence: what query_all      *)
(* answers for every user is that user's devices, oldest login first, and  *)
(* registering, refusing or deleting changes it as Presence says.          *)
P == INSTANCE Presence WITH devices <- [uid \in Uid |-> query_all(uid)]

ImplementsPresence == P!Spec
=============================================================================
