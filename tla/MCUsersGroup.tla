---------------------------- MODULE MCUsersGroup ----------------------------
(* TLC instance of UsersGroup: few users, enough fds for a user with       *)
(* several devices whose middle one leaves.                                *)
EXTENDS UsersGroup
=============================================================================
