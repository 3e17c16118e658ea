----------------------------- MODULE MCImSystem -----------------------------
(* Instances of ImSystem for TLC.                                          *)
EXTENDS ImInv, TLC

CONSTANTS s1, s2, c1, c2, u1, u2

\* User u1 has a session on either im_server.
RoamUserOf == c1 :> u1 @@ c2 :> u1
RoamServerOf == c1 :> s1 @@ c2 :> s2

\* Two users, each with a session on an im_server of its own.
ApartUserOf == c1 :> u1 @@ c2 :> u2
ApartServerOf == c1 :> s1 @@ c2 :> s2

\* Two users on one im_server.
LocalServerOf == c1 :> s1 @@ c2 :> s1
=============================================================================
