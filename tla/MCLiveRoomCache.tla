-------------------------- MODULE MCLiveRoomCache --------------------------
(* A small instance of LiveRoomCache: two users and two administrators.     *)
EXTENDS LiveRoomCache, TLC

CONSTANTS room, old, new, u1, u2, a1, a2

OneRoom == {room}
Texts == {old, new}
TwoReaders == {u1, u2}
TwoAdmins == {a1, a2}
=============================================================================
