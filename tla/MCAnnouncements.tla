--------------------------- MODULE MCAnnouncements ---------------------------
(***************************************************************************)
(* A bounded instance of Announcements: two members, two requests to send, *)
(* and one worker killed or one delivery repeated.                         *)
(***************************************************************************)
EXTENDS Announcements

CONSTANTS m1, m2
==============================================================================
