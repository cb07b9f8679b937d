---------------------------- MODULE MCNameServer ----------------------------
(* Finite instances of NameServer for TLC.                                 *)
EXTENDS NameServer

CONSTANTS c1, c2, c3, u1, u2, nobody, pw1, pw2

MCUserList == <<u1, u2>>
MCPassword == [u \in {u1, u2} |-> IF u = u1 THEN pw1 ELSE pw2]
MCLookups == {<<"/lookup">>, <<"/lookup", u2>>, <<"other">>}
=============================================================================
