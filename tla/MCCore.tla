------------------------------- MODULE MCCore -------------------------------
(* TLC instances of Core. *)
EXTENDS CoreRefinement

CONSTANTS
    a, b,       \* users
    f1, f2      \* file descriptors

login(uid) == [op |-> "login", uid |-> uid, credential |-> "right", fits |-> TRUE]
longLogin(uid) == [login(uid) EXCEPT !.fits = FALSE]
request(uid) == [op |-> "request", uid |-> uid, fits |-> TRUE]
garbled == [op |-> "garbled"]

(* Users are interchangeable, and so are the fds. *)
Symmetry == Permutations({a, b}) \cup Permutations({f1, f2})

(* Logins and requests among two users, and bytes that are no frame. *)
RoutingFrames == {login(a), login(b), request(a), request(b), garbled}

(* One user with two devices. *)
OneUserFrames == {login(a), request(a)}

(* A login whose answer is too long to send. *)
LongFrames == {longLogin(a), request(a)}
=============================================================================
