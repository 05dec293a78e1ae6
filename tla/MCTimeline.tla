----------------------------- MODULE MCTimeline -----------------------------
(* Model values for checking Timeline: two statuses, a status that goes    *)
(* missing, and a change of the date and of the rest of the record.        *)
EXTENDS Timeline

TimelineContents ==
  {[status |-> "s", date |-> 1, rest |-> 0],
   [status |-> "t", date |-> NoValue, rest |-> 0],
   [status |-> NoValue, date |-> 1, rest |-> 0],
   [status |-> "s", date |-> 2, rest |-> 1]}
=============================================================================
