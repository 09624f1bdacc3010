------------------------------ MODULE Presence ------------------------------
(***************************************************************************)
(* What the users group of com_lite promises, in one table: for every user *)
(* the devices that are online, oldest login first.  A connection (an fd)  *)
(* is a device of at most one user, and it changes user only by going      *)
(* offline first.  UsersGroup implements this with two hash tables.        *)
(***************************************************************************)
EXTENDS Sequences, SequencesExt

CONSTANTS
    Uid,    \* user names
    Fd      \* file descriptors

VARIABLE devices

Offline == <<>>

Bound(fd) == \E uid \in Uid : fd \in ToSet(devices[uid])

Init == devices = [uid \in Uid |-> Offline]

(* A device that belongs to nobody becomes the newest device of uid. *)
Bind(uid, fd) ==
    /\ ~ Bound(fd)
    /\ devices' = [devices EXCEPT ![uid] = Append(@, fd)]

(* A device goes offline; the other devices of its user keep their order. *)
Unbind(uid, fd) ==
    /\ fd \in ToSet(devices[uid])
    /\ devices' = [devices EXCEPT ![uid] = RemoveFirst(@, fd)]

Next == \E uid \in Uid, fd \in Fd : Bind(uid, fd) \/ Unbind(uid, fd)

Spec == Init /\ [][Next]_devices
=============================================================================
