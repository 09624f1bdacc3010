-------------------------- MODULE UsersGroupProofs --------------------------
(***************************************************************************)
(* Proofs about UsersGroup for any set of users and any set of fds.        *)
(* TypeOK /\ InvariantsOk is inductive: the classification of a login lets *)
(* AddFd run only for an fd in neither table, and BackwardExact (exactly   *)
(* one entry per fd) is what makes DropFd clear both tables.               *)
(***************************************************************************)
EXTENDS UsersGroup, FiniteSetTheorems, SequenceTheorems, TLAPS

(* Removing the only occurrence of a device: the other devices stay, in    *)
(* their order, and the list gets shorter by one.                          *)
LEMMA DeleteDevice ==
    ASSUME NEW S, NEW s \in Seq(S), NEW e, NEW i \in 1..Len(s), s[i] = e,
           \A j \in 1..Len(s) : s[j] = e => j = i
    PROVE  /\ delete_device(s, e) \in Seq(S)
           /\ Len(delete_device(s, e)) = Len(s) - 1
           /\ \A j \in 1..Len(s)-1 :
                 delete_device(s, e)[j] = IF j < i THEN s[j] ELSE s[j+1]
<1> DEFINE I == {j \in 1..Len(s) : s[j] = e}
           a == SubSeq(s, 1, i-1)
           b == SubSeq(s, i+1, Len(s))
<1>1. I = {i} /\ I # {}
  OBVIOUS
<1>2. Min(I) = i
  <2>1. \A x : (x \in I /\ \A y \in I : x =< y) <=> x = i
    BY <1>1
  <2> QED
    BY <2>1 DEF Min
<1>3. delete_device(s, e) = a \o b
  <2>1. \E j \in 1..Len(s) : s[j] = e
    OBVIOUS
  <2> QED
    BY <1>1, <1>2, <2>1 DEF delete_device, RemoveFirst, RemoveAt, SelectInSeq
<1>4. /\ a \in Seq(S) /\ Len(a) = i - 1
      /\ \A j \in 1..Len(a) : a[j] = s[j]
  BY SubSeqProperties
<1>5. /\ b \in Seq(S) /\ Len(b) = Len(s) - i
      /\ \A j \in 1..Len(b) : b[j] = s[i+j]
  BY SubSeqProperties
<1> HIDE DEF a, b
<1>6. /\ a \o b \in Seq(S)
      /\ Len(a \o b) = Len(a) + Len(b)
      /\ \A j \in 1..Len(a) + Len(b) : (a \o b)[j] = IF j <= Len(a) THEN a[j] ELSE b[j - Len(a)]
  BY <1>4, <1>5, ConcatProperties
<1>7. ASSUME NEW j \in 1..Len(s)-1
      PROVE  (a \o b)[j] = IF j < i THEN s[j] ELSE s[j+1]
  <2>1. CASE j < i
    BY <1>4, <1>6, <2>1
  <2>2. CASE ~ (j < i)
    <3>1. j - Len(a) \in 1..Len(b) /\ i + (j - Len(a)) = j + 1
      BY <1>4, <1>5, <2>2
    <3> QED
      BY <1>4, <1>5, <1>6, <2>2, <3>1
  <2> QED
    BY <2>1, <2>2
<1> QED
  BY <1>3, <1>4, <1>5, <1>6, <1>7
-----------------------------------------------------------------------------
Inv == TypeOK /\ InvariantsOk

LEMMA InitInv == Init => Inv
  BY DEF Init, Inv, TypeOK, InvariantsOk, NoEmptyUser, ForwardExact, BackwardExact

(* A login that is committed adds one entry to each table. *)
LEMMA AddFdInv ==
    ASSUME Inv, NEW uid \in Uid, NEW fd \in Fd, ~ has_fd(fd), AddFd(uid, fd)
    PROVE  Inv'
<1> USE DEF has_fd, online
<1> DEFINE old == query_all(uid)
           new == Append(old, fd)
<1>1. /\ DOMAIN fd_to_uid' = DOMAIN fd_to_uid \cup {fd}
      /\ fd_to_uid'[fd] = uid
      /\ \A f \in DOMAIN fd_to_uid : f # fd /\ fd_to_uid'[f] = fd_to_uid[f]
  BY DEF AddFd
<1>2. /\ DOMAIN uid_to_fd' = DOMAIN uid_to_fd \cup {uid}
      /\ uid_to_fd'[uid] = new
      /\ \A u \in DOMAIN uid_to_fd \ {uid} : uid_to_fd'[u] = uid_to_fd[u]
  BY DEF AddFd
<1>3. /\ old \in Seq(Fd)
      /\ \A i \in 1..Len(old) : old[i] # fd /\ has_fd(old[i]) /\ fd_to_uid[old[i]] = uid
  BY DEF query_all, Inv, TypeOK, InvariantsOk, ForwardExact
<1>4. /\ new \in Seq(Fd) /\ new # <<>> /\ Len(new) = Len(old) + 1
      /\ \A i \in 1..Len(old) : new[i] = old[i]
      /\ new[Len(old) + 1] = fd
  BY <1>3, AppendProperties
<1> HIDE DEF new, old
<1>5. TypeOK'
  <2>1. /\ DOMAIN uid_to_fd' \subseteq Uid
        /\ DOMAIN fd_to_uid' \subseteq Fd
    BY <1>1, <1>2 DEF Inv, TypeOK
  <2>2. uid_to_fd' \in [DOMAIN uid_to_fd' -> Seq(Fd)]
    BY <1>2, <1>4 DEF AddFd, Inv, TypeOK
  <2>3. fd_to_uid' \in [DOMAIN fd_to_uid' -> Uid]
    BY <1>1 DEF AddFd, Inv, TypeOK
  <2> QED
    BY <2>1, <2>2, <2>3 DEF TypeOK
<1>6. NoEmptyUser'
  BY <1>2, <1>4 DEF Inv, InvariantsOk, NoEmptyUser
<1>7. ForwardExact'
  <2> SUFFICES ASSUME NEW u \in DOMAIN uid_to_fd', NEW i \in 1..Len(uid_to_fd'[u])
               PROVE  /\ uid_to_fd'[u][i] \in DOMAIN fd_to_uid'
                      /\ fd_to_uid'[uid_to_fd'[u][i]] = u
    BY DEF ForwardExact
  <2>1. CASE u = uid
    <3>1. i \in 1..Len(old) \/ i = Len(old) + 1
      BY <1>2, <1>3, <1>4, <2>1
    <3> QED
      BY <1>1, <1>2, <1>3, <1>4, <2>1, <3>1
  <2>2. CASE u # uid
    BY <1>1, <1>2, <2>2 DEF Inv, InvariantsOk, ForwardExact
  <2> QED
    BY <2>1, <2>2
<1>8. BackwardExact'
  <2> SUFFICES ASSUME NEW f \in DOMAIN fd_to_uid'
               PROVE  /\ fd_to_uid'[f] \in DOMAIN uid_to_fd'
                      /\ \E i \in 1..Len(uid_to_fd'[fd_to_uid'[f]]) :
                            \A j \in 1..Len(uid_to_fd'[fd_to_uid'[f]]) :
                                uid_to_fd'[fd_to_uid'[f]][j] = f <=> j = i
    BY DEF BackwardExact
  <2>1. CASE f = fd
    <3>1. \A j \in 1..Len(new) : new[j] = fd <=> j = Len(old) + 1
      BY <1>3, <1>4
    <3> QED
      BY <1>1, <1>2, <1>3, <1>4, <2>1, <3>1
  <2>2. CASE f # fd
    <3>1. f \in DOMAIN fd_to_uid /\ fd_to_uid'[f] = fd_to_uid[f]
      BY <1>1, <2>2
    <3>2. fd_to_uid[f] \in DOMAIN uid_to_fd
      BY <3>1 DEF Inv, InvariantsOk, BackwardExact
    <3>3. PICK i \in 1..Len(uid_to_fd[fd_to_uid[f]]) :
             \A j \in 1..Len(uid_to_fd[fd_to_uid[f]]) :
                 uid_to_fd[fd_to_uid[f]][j] = f <=> j = i
      BY <3>1 DEF Inv, InvariantsOk, BackwardExact
    <3>4. CASE fd_to_uid[f] = uid
      <4>1. old = uid_to_fd[uid]
        BY <3>2, <3>4 DEF old, query_all
      <4>2. i \in 1..Len(old) /\ \A j \in 1..Len(old) : old[j] = f <=> j = i
        BY <3>3, <3>4, <4>1
      <4>3. i \in 1..Len(new) /\ \A j \in 1..Len(new) : new[j] = f <=> j = i
        <5>1. \A j \in 1..Len(new) : j \in 1..Len(old) \/ j = Len(old) + 1
          BY <1>3, <1>4
        <5>2. i \in 1..Len(new) /\ i # Len(old) + 1
          BY <1>3, <1>4, <4>2
        <5> QED
          BY <1>4, <2>2, <4>2, <5>1, <5>2
      <4> QED
        BY <1>2, <3>1, <3>4, <4>3
    <3>5. CASE fd_to_uid[f] # uid
      <4> DEFINE v == fd_to_uid[f]
      <4>1. v \in DOMAIN uid_to_fd' /\ uid_to_fd'[v] = uid_to_fd[v]
        BY <1>2, <3>2, <3>5
      <4>2. i \in 1..Len(uid_to_fd'[v]) /\ \A j \in 1..Len(uid_to_fd'[v]) : uid_to_fd'[v][j] = f <=> j = i
        BY <3>3, <4>1
      <4>3. fd_to_uid'[f] = v
        BY <3>1
      <4> HIDE DEF v
      <4> QED
        BY <4>1, <4>2, <4>3
    <3> QED
      BY <3>4, <3>5
  <2> QED
    BY <2>1, <2>2
<1> QED
  BY <1>5, <1>6, <1>7, <1>8 DEF Inv, InvariantsOk

(* A disconnect removes the entry of fd from both tables. *)
LEMMA DropFdInv ==
    ASSUME Inv, NEW fd \in Fd, has_fd(fd), DropFd(fd_to_uid[fd], fd)
    PROVE  Inv'
<1> USE DEF has_fd, online
<1> DEFINE uid == fd_to_uid[fd]
           s == uid_to_fd[uid]
           left == delete_device(s, fd)
<1>1. /\ uid \in DOMAIN uid_to_fd /\ uid \in Uid
      /\ s \in Seq(Fd)
  BY DEF Inv, TypeOK, InvariantsOk, BackwardExact
<1>2. PICK k \in 1..Len(s) : \A j \in 1..Len(s) : s[j] = fd <=> j = k
  BY DEF Inv, InvariantsOk, BackwardExact
<1>3. /\ left \in Seq(Fd) /\ Len(left) = Len(s) - 1
      /\ \A j \in 1..Len(s)-1 : left[j] = IF j < k THEN s[j] ELSE s[j+1]
  <2>1. s[k] = fd /\ \A j \in 1..Len(s) : s[j] = fd => j = k
    BY <1>2
  <2> HIDE DEF s
  <2> QED
    BY <1>1, <2>1, DeleteDevice
<1>4. /\ DOMAIN fd_to_uid' = DOMAIN fd_to_uid \ {fd}
      /\ \A f \in DOMAIN fd_to_uid \ {fd} : fd_to_uid'[f] = fd_to_uid[f]
  BY DEF DropFd, Restrict
<1>5. /\ DOMAIN uid_to_fd' = IF left = <<>> THEN DOMAIN uid_to_fd \ {uid} ELSE DOMAIN uid_to_fd
      /\ left # <<>> => uid_to_fd'[uid] = left
      /\ \A u \in DOMAIN uid_to_fd \ {uid} : uid_to_fd'[u] = uid_to_fd[u]
  BY <1>1 DEF DropFd
<1>6. \A j \in 1..Len(left) :
         /\ left[j] # fd
         /\ has_fd(left[j]) /\ fd_to_uid[left[j]] = uid
  <2> SUFFICES ASSUME NEW j \in 1..Len(left)
               PROVE  left[j] # fd /\ has_fd(left[j]) /\ fd_to_uid[left[j]] = uid
    OBVIOUS
  <2>1. PICK m \in 1..Len(s) : m # k /\ left[j] = s[m]
    <3>1. CASE j < k
      BY <1>1, <1>2, <1>3, <3>1
    <3>2. CASE ~ (j < k)
      BY <1>1, <1>2, <1>3, <3>2
    <3> QED
      BY <3>1, <3>2
  <2> QED
    BY <1>1, <1>2, <2>1 DEF Inv, InvariantsOk, ForwardExact
<1>7. TypeOK'
  <2>1. /\ DOMAIN uid_to_fd' \subseteq Uid
        /\ DOMAIN fd_to_uid' \subseteq Fd
    BY <1>4, <1>5 DEF Inv, TypeOK
  <2>2. uid_to_fd' \in [DOMAIN uid_to_fd' -> Seq(Fd)]
    BY <1>3, <1>5 DEF DropFd, Inv, TypeOK
  <2>3. fd_to_uid' \in [DOMAIN fd_to_uid' -> Uid]
    BY <1>4 DEF DropFd, Restrict, Inv, TypeOK
  <2> QED
    BY <2>1, <2>2, <2>3 DEF TypeOK
<1> HIDE DEF left
<1>8. NoEmptyUser'
  BY <1>5 DEF Inv, InvariantsOk, NoEmptyUser
<1>9. ForwardExact'
  <2> SUFFICES ASSUME NEW u \in DOMAIN uid_to_fd', NEW i \in 1..Len(uid_to_fd'[u])
               PROVE  /\ uid_to_fd'[u][i] \in DOMAIN fd_to_uid'
                      /\ fd_to_uid'[uid_to_fd'[u][i]] = u
    BY DEF ForwardExact
  <2>1. CASE u = uid
    BY <1>4, <1>5, <1>6, <2>1
  <2>2. CASE u # uid
    BY <1>4, <1>5, <2>2 DEF Inv, InvariantsOk, ForwardExact
  <2> QED
    BY <2>1, <2>2
<1>10. BackwardExact'
  <2> SUFFICES ASSUME NEW f \in DOMAIN fd_to_uid'
               PROVE  /\ fd_to_uid'[f] \in DOMAIN uid_to_fd'
                      /\ \E i \in 1..Len(uid_to_fd'[fd_to_uid'[f]]) :
                            \A j \in 1..Len(uid_to_fd'[fd_to_uid'[f]]) :
                                uid_to_fd'[fd_to_uid'[f]][j] = f <=> j = i
    BY DEF BackwardExact
  <2>1. f \in DOMAIN fd_to_uid /\ f # fd /\ fd_to_uid'[f] = fd_to_uid[f]
    BY <1>4
  <2>2. fd_to_uid[f] \in DOMAIN uid_to_fd
    BY <2>1 DEF Inv, InvariantsOk, BackwardExact
  <2>3. PICK i \in 1..Len(uid_to_fd[fd_to_uid[f]]) :
           \A j \in 1..Len(uid_to_fd[fd_to_uid[f]]) :
               uid_to_fd[fd_to_uid[f]][j] = f <=> j = i
    BY <2>1 DEF Inv, InvariantsOk, BackwardExact
  <2>4. CASE fd_to_uid[f] = uid
    <3>1. i # k /\ i \in 1..Len(s) /\ \A j \in 1..Len(s) : s[j] = f <=> j = i
      BY <1>2, <2>1, <2>3, <2>4
    <3> DEFINE n == IF i < k THEN i ELSE i - 1
    <3>2. n \in 1..Len(left) /\ \A j \in 1..Len(left) : left[j] = f <=> j = n
      BY <1>1, <1>2, <1>3, <3>1
    <3>3. left # <<>>
      BY <1>3, <3>2
    <3> HIDE DEF n
    <3>4. fd_to_uid'[f] = uid /\ uid \in DOMAIN uid_to_fd' /\ uid_to_fd'[uid] = left
      BY <1>5, <2>1, <2>2, <2>4, <3>3
    <3> QED
      BY <3>2, <3>4
  <2>5. CASE fd_to_uid[f] # uid
    <3> DEFINE v == fd_to_uid[f]
    <3>1. v \in DOMAIN uid_to_fd' /\ uid_to_fd'[v] = uid_to_fd[v]
      BY <1>5, <2>2, <2>5
    <3>2. i \in 1..Len(uid_to_fd'[v]) /\ \A j \in 1..Len(uid_to_fd'[v]) : uid_to_fd'[v][j] = f <=> j = i
      BY <2>3, <3>1
    <3>3. fd_to_uid'[f] = v
      BY <2>1
    <3> HIDE DEF v
    <3> QED
      BY <3>1, <3>2, <3>3
  <2> QED
    BY <2>4, <2>5
<1> QED
  BY <1>7, <1>8, <1>9, <1>10 DEF Inv, InvariantsOk

LEMMA NextInv == Inv /\ [Next]_vars => Inv'
<1> SUFFICES ASSUME Inv, [Next]_vars PROVE Inv'
  OBVIOUS
<1>1. CASE UNCHANGED vars
  BY <1>1 DEF vars, Inv, TypeOK, InvariantsOk, NoEmptyUser, ForwardExact, BackwardExact,
              has_fd, online
<1>2. ASSUME NEW fd \in Fd, NEW uid \in Uid, register_user(uid, fd) PROVE Inv'
  BY <1>1, <1>2, AddFdInv DEF register_user, RegisterResult
<1>3. ASSUME NEW fd \in Fd, delete_fd(fd) PROVE Inv'
  BY <1>1, <1>3, DropFdInv DEF delete_fd
<1> QED
  BY <1>1, <1>2, <1>3 DEF Next

-----------------------------------------------------------------------------
(* Both tables keep their type. *)
THEOREM TypeCorrect == Spec => []TypeOK
  BY InitInv, NextInv, PTL DEF Spec, Inv

(* invariants_ok() holds after every sequence of logins and disconnects:   *)
(* the two tables stay exact inverses of each other.                       *)
THEOREM TablesInverse == Spec => []InvariantsOk
  BY InitInv, NextInv, PTL DEF Spec, Inv

(* A connection never changes user without disconnecting first. *)
THEOREM IdentityStable == Spec => NoRebind
<1>1. Inv /\ [Next]_vars =>
        [\A fd \in DOMAIN fd_to_uid :
            fd \in DOMAIN fd_to_uid' => fd_to_uid'[fd] = fd_to_uid[fd]]_vars
  <2> SUFFICES ASSUME Next, NEW f \in DOMAIN fd_to_uid, f \in DOMAIN fd_to_uid'
               PROVE  fd_to_uid'[f] = fd_to_uid[f]
    BY DEF vars
  <2>1. ASSUME NEW fd \in Fd, NEW uid \in Uid, register_user(uid, fd)
        PROVE  fd_to_uid'[f] = fd_to_uid[f]
    BY <2>1 DEF register_user, AddFd, has_fd, vars
  <2>2. ASSUME NEW fd \in Fd, delete_fd(fd)
        PROVE  fd_to_uid'[f] = fd_to_uid[f]
    BY <2>2 DEF delete_fd, DropFd, Restrict, vars
  <2> QED
    BY <2>1, <2>2 DEF Next
<1> QED
  BY <1>1, InitInv, NextInv, PTL DEF Spec, NoRebind

-----------------------------------------------------------------------------
(* Refinement of Presence: for every user, query_all before and after a    *)
(* step are related as the step of Presence says.                          *)

(* Presence imports its own copies of the sequence operators. *)
LEMMA SameRemoveFirst == \A s, e : P!RemoveFirst(s, e) = RemoveFirst(s, e)
  BY DEF P!RemoveFirst, RemoveFirst, P!RemoveAt, RemoveAt,
         P!SelectInSeq, SelectInSeq, P!Min, Min

LEMMA BoundIffHasFd ==
    ASSUME Inv, NEW fd \in Fd
    PROVE  P!Bound(fd) <=> has_fd(fd)
<1>1. ASSUME NEW uid \in Uid, fd \in P!ToSet(query_all(uid)) PROVE has_fd(fd)
  <2>1. PICK i \in 1..Len(query_all(uid)) : query_all(uid)[i] = fd
    BY <1>1 DEF P!ToSet, query_all, online, Inv, TypeOK
  <2> QED
    BY <2>1 DEF query_all, online, Inv, TypeOK, InvariantsOk, ForwardExact
<1>2. ASSUME has_fd(fd) PROVE fd \in P!ToSet(query_all(fd_to_uid[fd]))
  BY <1>2 DEF has_fd, online, query_all, P!ToSet, Inv, TypeOK, InvariantsOk, BackwardExact
<1>3. has_fd(fd) => fd_to_uid[fd] \in Uid
  BY DEF has_fd, Inv, TypeOK
<1> QED
  BY <1>1, <1>2, <1>3 DEF P!Bound

LEMMA AddFdBinds ==
    ASSUME Inv, NEW uid \in Uid, NEW fd \in Fd, ~ has_fd(fd), AddFd(uid, fd)
    PROVE  P!Bind(uid, fd)
<1>1. query_all(uid)' = Append(query_all(uid), fd)
  BY DEF AddFd, query_all, online
<1>2. \A u \in Uid \ {uid} : query_all(u)' = query_all(u)
  BY DEF AddFd, query_all, online
<1> QED
  BY <1>1, <1>2, BoundIffHasFd DEF P!Bind

LEMMA DropFdUnbinds ==
    ASSUME Inv, NEW fd \in Fd, has_fd(fd), NEW uid, uid = fd_to_uid[fd], DropFd(uid, fd)
    PROVE  uid \in Uid /\ P!Unbind(uid, fd)
<1>1. uid \in Uid /\ online(uid)
  BY DEF has_fd, Inv, TypeOK, InvariantsOk, BackwardExact
<1>2. fd \in P!ToSet(query_all(uid))
  BY <1>1 DEF has_fd, online, query_all, P!ToSet, Inv, TypeOK, InvariantsOk, BackwardExact
<1>3. query_all(uid)' = P!RemoveFirst(query_all(uid), fd)
  <2>1. query_all(uid)' = delete_device(uid_to_fd[uid], fd)
    BY <1>1 DEF DropFd, query_all, online
  <2> QED
    BY <1>1, <2>1, SameRemoveFirst DEF delete_device, query_all
<1>4. \A u \in Uid \ {uid} : query_all(u)' = query_all(u)
  BY <1>1 DEF DropFd, query_all, online
<1> QED
  BY <1>1, <1>2, <1>3, <1>4 DEF P!Unbind

(* The two tables implement the one table of Presence. *)
THEOREM RefinesPresence == Spec => ImplementsPresence
<1> DEFINE devices == [uid \in Uid |-> query_all(uid)]
<1>1. Init => P!Init
  BY DEF Init, P!Init, P!Offline, query_all, online
<1>2. Inv /\ [Next]_vars => [P!Next]_devices
  <2> SUFFICES ASSUME Inv, [Next]_vars PROVE P!Next \/ UNCHANGED devices
    OBVIOUS
  <2>1. CASE UNCHANGED vars
    BY <2>1 DEF vars, query_all, online
  <2>2. ASSUME NEW fd \in Fd, NEW uid \in Uid, register_user(uid, fd)
        PROVE  P!Next \/ UNCHANGED devices
    <3>1. CASE ~ has_fd(fd) /\ AddFd(uid, fd)
      BY <3>1, AddFdBinds DEF P!Next
    <3> QED
      BY <2>1, <2>2, <3>1 DEF register_user, RegisterResult
  <2>3. ASSUME NEW fd \in Fd, delete_fd(fd)
        PROVE  P!Next \/ UNCHANGED devices
    <3>1. CASE has_fd(fd) /\ DropFd(fd_to_uid[fd], fd)
      BY <3>1, DropFdUnbinds DEF P!Next
    <3> QED
      BY <2>1, <2>3, <3>1 DEF delete_fd
  <2> QED
    BY <2>1, <2>2, <2>3 DEF Next
<1> QED
  BY <1>1, <1>2, InitInv, NextInv, PTL DEF Spec, P!Spec, ImplementsPresence
=============================================================================
