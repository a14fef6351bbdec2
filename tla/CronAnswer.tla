----------------------------- MODULE CronAnswer -----------------------------
(***************************************************************************)
(* A call of cron_next, and what it promises: the next time that matches.  *)
(***************************************************************************)
EXTENDS CronNext

CONSTANTS Exprs,  \* the expressions
          Times   \* and the times asked about

ASSUME AskedAssumption == Exprs \subseteq AllExprs /\ Times \subseteq Nat

VARIABLES cex, date, next

asked == <<cex, date, next>>

Unasked == -2

AskInit ==
    /\ cex \in Exprs
    /\ date \in Times
    /\ next = Unasked

Ask ==
    /\ next = Unasked
    /\ next' = cron_next(cex, date)
    /\ UNCHANGED <<cex, date>>

AskSpec == AskInit /\ [][Ask]_asked

-----------------------------------------------------------------------------
Answered == next \notin {Unasked, INVALID}

\* The answer is a later time that matches.
NextMatches == Answered => next > date /\ Matches(cex, next)

\* No time before the answer does.
NextIsEarliest == Answered => NoneMatches(cex, date + 1 .. next - 1)

\* AC2, "the correct next run time": the answer is the next time that matches.
NextIsCorrect == NextMatches /\ NextIsEarliest

\* For a plain expression cron_next returns a later time that matches.
PlainNextMatches == Plain(cex) => NextMatches

\* For a plain expression it passes over no matching time.
PlainNextIsEarliest == Plain(cex) => NextIsEarliest

\* Some day of every month, or some day of every week, is named: the search
\* does not give up.
PlainIsAnswered == Plain(cex) => next # INVALID
=============================================================================
