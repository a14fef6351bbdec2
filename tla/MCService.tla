----------------------------- MODULE MCService -----------------------------
(* create_job over request bodies of every type of member. *)
EXTENDS Creation

SmallMonths == <<3, 2, 3>>

\* An hour each day, written with five fields, with a leading space, with six
\* fields; a * and a word for the seconds; a day no month has; every other month.
\* Then numbers a cron_int does not hold: the step 9 is 1, the minute 9 is 1, the
\* step 8 is 0; and the step 7 from 1, which wraps to 0.
Any == <<Single(Star)>>
On(n) == <<Single(n)>>
Text(leading, fields) == [leading |-> leading, fields |-> fields]
MCTexts ==
    <<Text(FALSE, <<On(0), On(1), Any, Any, Any>>),
      Text(TRUE,  <<On(0), On(1), Any, Any, Any>>),
      Text(FALSE, <<On(0), On(0), On(1), Any, Any, Any>>),
      Text(FALSE, <<Any, Any, Any, Any, Any, Any>>),
      Text(FALSE, <<On(Word), On(0), Any, Any, Any, Any>>),
      Text(TRUE,  <<On(0), On(0), On(3), On(2), Any>>),
      Text(TRUE,  <<<<Part(Star, None, 1)>>, On(0), <<Part(1, 2, None)>>, Any, Any>>),
      Text(FALSE, <<On(5), On(0), On(0), Any, Any, Any>>),
      Text(TRUE,  <<On(0), On(0), On(1), <<Part(1, None, 2)>>, Any>>),
      Text(FALSE, <<On(0), <<Part(0, None, 9)>>, On(0), Any, Any, Any>>),
      Text(FALSE, <<On(0), On(9), On(0), Any, Any, Any>>),
      Text(FALSE, <<On(0), <<Part(0, None, 8)>>, On(0), Any, Any, Any>>),
      Text(FALSE, <<On(0), <<Part(1, None, 7)>>, On(0), Any, Any, Any>>)>>

MCBodies ==
    [kind             : {"object", "scalar"},
     name             : {String(1), String(0), Number(1)},
     type             : {Number(n) : n \in -1 .. 3} \cup {Absent},
     payload          : {String(1), Absent},
     next_run_time    : {Absent, Number(-1), Number(0), Number(5), Number(70), String(1)},
     interval_seconds : {Absent, Null, Number(0), Number(2), Number(70), Other},
     cron_expr        : {String(n) : n \in 0 .. Len(MCTexts)} \cup {Absent, Number(1)},
     max_retries      : {Absent, Number(-1)}]
=============================================================================
