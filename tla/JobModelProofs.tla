--------------------------- MODULE JobModelProofs ---------------------------
(* What the conversions of JobModel do, for every width of an int. *)
EXTENDS JobModel, TLAPS

\* What is left of a long long assigned to an int is an int.
LEMMA ToIntIsInt == ASSUME NEW n \in Int PROVE ToInt(n) \in CInt
<1>1. IntLimit \in Nat /\ IntLimit > 0
  BY IntLimitAssumption
<1>2. (n + IntLimit) % (2 * IntLimit) \in 0 .. 2 * IntLimit - 1
  BY <1>1
<1>. QED
  BY <1>1, <1>2 DEF ToInt, CInt

\* An int is left as it is: insert_job stores a next_run_time that fits.
LEMMA ToIntFits == ASSUME NEW n \in CInt PROVE ToInt(n) = n
<1>1. IntLimit \in Nat /\ IntLimit > 0
  BY IntLimitAssumption
<1>2. n + IntLimit \in 0 .. 2 * IntLimit - 1
  BY <1>1 DEF CInt
<1>3. (n + IntLimit) % (2 * IntLimit) = n + IntLimit
  BY <1>1, <1>2
<1>. QED
  BY <1>1, <1>2, <1>3 DEF ToInt, CInt

\* An enumerator that was stored is read back as itself.
LEMMA EnumeratorsSurvive ==
    /\ \A s \in Status : int_to_status(s) = s
    /\ \A y \in Job_Type : int_to_type(y) = y
  BY DEF int_to_status, int_to_type
=============================================================================
