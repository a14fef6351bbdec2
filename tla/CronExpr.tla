------------------------------ MODULE CronExpr ------------------------------
(***************************************************************************)
(* make_cron of the vendored croncpp: which cron expressions are accepted, *)
(* and the sets of values they stand for.                                  *)
(*                                                                         *)
(* The text of an expression is abstracted to what the parser tells apart. *)
(* A field of it is a sequence of comma-separated parts; a part is         *)
(* first-last/step, and each of the three is a token:                      *)
(*   Star        the character *                                           *)
(*   n >= 0      text std::stoul reads the number n from                   *)
(*   Word        text that begins with no number: std::stoul throws        *)
(*   None        not written (no "-", no "/")                              *)
(* The names of days and months are the numbers they are replaced by, and  *)
(* a ? that stands for a whole day field is a *.                           *)
(***************************************************************************)
EXTENDS Integers, Sequences

CONSTANTS MaxSecond, MaxMinute, MaxHour, MaxDayOfWeek, MaxDayOfMonth, MaxMonth,
          CronIntSize  \* how many numbers a cron_int holds (256: it is a uint8_t)

Maxima == {MaxSecond, MaxMinute, MaxHour, MaxDayOfWeek, MaxDayOfMonth, MaxMonth}

\* At least half of the numbers of a cron_int are above every field, so that no
\* increment, forwards or (wrapping) backwards, jumps over them for ever.
ASSUME CronIntAssumption ==
    /\ CronIntSize \in Nat \ {0}
    /\ \A max \in Maxima : max \in Nat /\ 2 * (max + 1) <= CronIntSize

Star == -1
Word == -2
None == -3

Part(first, last, step) == [first |-> first, last |-> last, step |-> step]
Single(first) == Part(first, None, None)

Readable(token) == token >= 0

\* The number std::stoul reads, cut down to a cron_int.
to_cron_int(token) == token % CronIntSize

\* make_range: the values a part without its step stands for.  A lone * is
\* the whole range, everywhere else it is no number.
RangeOf(part, minval, maxval) ==
    LET first == to_cron_int(part.first)
        last  == IF part.last = None THEN first ELSE to_cron_int(part.last)
    IN  IF part.last = None /\ part.first = Star
        THEN [ok |-> TRUE, first |-> minval, last |-> maxval]
        ELSE [ok |-> /\ Readable(part.first)
                     /\ part.last # None => Readable(part.last)
                     /\ {first, last} \subseteq minval .. maxval
                     /\ first <= last,
              first |-> first, last |-> last]

\* One part of set_cron_field.
PartOk(part, minval, maxval) ==
    /\ RangeOf(part, minval, maxval).ok
    /\ part.step # None => Readable(part.step) /\ to_cron_int(part.step) > 0

\* The loop over a cron_int i, which wraps, until i is past the range.  An
\* increment without a range runs to maxval.
PartValues(part, minval, maxval) ==
    LET range == RangeOf(part, minval, maxval)
        last  == IF part.step # None /\ part.last = None THEN maxval ELSE range.last
        step  == IF part.step = None THEN 1 ELSE to_cron_int(part.step)
        i(n)  == (range.first - minval + n * step) % CronIntSize
        turns == {n \in 0 .. CronIntSize - 1 : \A k \in 0 .. n : i(k) <= last - minval}
    IN  {minval + i(n) : n \in turns}

FieldOk(field, minval, maxval) ==
    /\ field # <<>>
    /\ \A k \in DOMAIN field : PartOk(field[k], minval, maxval)

FieldValues(field, minval, maxval) ==
    UNION {PartValues(field[k], minval, maxval) : k \in DOMAIN field}

\* make_cron of a sequence of fields.  The months of the result are from 0.
Accepted(fields) ==
    /\ Len(fields) = 6
    /\ FieldOk(fields[1], 0, MaxSecond)
    /\ FieldOk(fields[2], 0, MaxMinute)
    /\ FieldOk(fields[3], 0, MaxHour)
    /\ FieldOk(fields[4], 1, MaxDayOfMonth)
    /\ FieldOk(fields[5], 1, MaxMonth)
    /\ FieldOk(fields[6], 0, MaxDayOfWeek)

make_cron(fields) ==
    [seconds       |-> FieldValues(fields[1], 0, MaxSecond),
     minutes       |-> FieldValues(fields[2], 0, MaxMinute),
     hours         |-> FieldValues(fields[3], 0, MaxHour),
     days_of_month |-> FieldValues(fields[4], 1, MaxDayOfMonth),
     months        |-> {m - 1 : m \in FieldValues(fields[5], 1, MaxMonth)},
     days_of_week  |-> FieldValues(fields[6], 0, MaxDayOfWeek)]
=============================================================================
