---------------------------- MODULE MCAnnouncer ----------------------------
(* Instances of Announcer: a torrent with a tier of two trackers, and one   *)
(* that shares the first of them.                                          *)
EXTENDS Announcer

CONSTANTS t1, t2, a, b

OwnerOfOne == <<t1>>
OwnerOfTwo == <<t1, t2>>
TrackersOfOne == << <<a>> >>
TrackersOfTwo == << <<a, b>>, <<a>> >>
=============================================================================
