----------------------------- MODULE AtomicFile -----------------------------
(***************************************************************************)
(* What a pager in journal_mode=DELETE promises of the database file: a    *)
(* transaction happens at one moment or not at all.  Without a power loss  *)
(* a committed transaction stays.  A power loss may take back the last one *)
(* and no other, for a directory is not synced when a journal is deleted.  *)
(***************************************************************************)
EXTENDS Naturals

CONSTANTS Pages,  \* the pages of the file
          Header  \* the page with the change counter

VARIABLES content,  \* per page what the last transaction left there
          older     \* what a power loss may leave in its place

Init ==
    /\ content \in [Pages -> Nat]
    /\ older = {}

\* Every commit counts one on the change counter.
Commit ==
    /\ DOMAIN content' = Pages
    /\ content'[Header] = content[Header] + 1
    /\ older' \subseteq {content}

\* What was written last has become durable.
Settle ==
    /\ UNCHANGED content
    /\ older' \subseteq older

PowerLoss ==
    /\ content' \in older
    /\ older' = {}

Next == Settle \/ Commit \/ PowerLoss

Spec == Init /\ [][Next]_<<content, older>>
=============================================================================
