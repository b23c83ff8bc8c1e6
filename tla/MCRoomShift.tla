---- MODULE MCRoomShift ----
EXTENDS RoomShift
RoomOffsets == {-1, 1}
====
