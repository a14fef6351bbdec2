----------------------------- MODULE PagerSafety -----------------------------
(***************************************************************************)
(* The rollback journal makes a transaction happen at one moment or not at *)
(* all, and readers see no other, for any number of processes, pages and   *)
(* transactions, with failed calls, killed processes and power losses.     *)
(*                                                                         *)
(* Why: whoever changes a page of the file holds the exclusive lock, and   *)
(* has a journal on the disk that says what was there; Content, the file   *)
(* as a rollback would leave it, therefore changes when the journal is     *)
(* deleted and at no other step, and it is never torn.  A process trusts   *)
(* its cache if the change counter is the one it knows, and no two commits *)
(* leave the same counter.                                                 *)
(***************************************************************************)
EXTENDS Pager, FiniteSetTheorems, TLAPS

\* The file has no page of a transaction that does not exist.
Value == 0 .. MaxTxn
Entries == [page : Pages, val : Value]
Files == [Pages -> 0 .. Torn]
Journals == [exists : BOOLEAN, count : Nat, recs : Seq(Entries)]
Caches == UNION {[d -> Value] : d \in SUBSET Pages}

-----------------------------------------------------------------------------
(***************************************************************************)
(* The disk.                                                               *)
(***************************************************************************)
PagesOf(j) == {j.recs[k].page : k \in DOMAIN j.recs}
Distinct(j) == \A k, l \in DOMAIN j.recs : j.recs[k].page = j.recs[l].page => k = l

\* A journal that would be played back.
Sealed(j) == j.exists /\ j.count = Len(j.recs) /\ j.count > 0

Durable(pg) == maybe[pg] = {file[pg]}

\* A rollback would change nothing.
Intact == \A pg \in Pages : Durable(pg) /\ file[pg] = Content[pg]

\* Contents that transactions have left, none of which was reported as failed.
Sound(content) ==
    /\ content \in [Pages -> 0 .. last]
    /\ \A pg \in DataPages : content[pg] \notin failed

\* A page that may be torn, or may not be what a read sees, has a record in a
\* journal that no power loss takes away.
DiskInvariant ==
    /\ Distinct(journal)
    /\ journal.count = 0 => \A pg \in Pages : Durable(pg)
    /\ journal.count # 0 => /\ Sealed(journal) /\ jsync # "none"
                            /\ \A pg \in Pages \ PagesOf(journal) : Durable(pg)
    /\ jsync = "records" => Intact
    /\ jsync # "none" => journal.exists /\ ghosts = {}
    /\ \A g \in ghosts : Sealed(g) /\ Distinct(g) /\ Sound(Restored(file, g))
    /\ Sound(Content)

-----------------------------------------------------------------------------
(***************************************************************************)
(* The locks.                                                              *)
(***************************************************************************)
Sharing   == {"exists", "reserved", "first_byte", "hot", "validate", "reader"}
Reserving == {"writer", "lock"}
Undoing   == {"undo", "delete_undone"}
HotSteps  == {"sync_hot", "play_hot", "delete_hot"}
Committing == {"sync_records", "header", "sync_header", "write_file", "delete"}
Writing   == Reserving \cup Undoing \cup Committing \cup {"play"}

\* The lock that goes with a step.
Holds(p) ==
    /\ at[p] = "open" => lock[p] = NO_LOCK
    /\ at[p] \in Sharing => lock[p] = SHARED_LOCK
    /\ at[p] \in Reserving => lock[p] = RESERVED_LOCK
    /\ at[p] \in Undoing => lock[p] >= RESERVED_LOCK
    /\ at[p] \in Committing \cup HotSteps \cup {"play"} => lock[p] = EXCLUSIVE_LOCK
    /\ at[p] = "error" => lock[p] \in {SHARED_LOCK, EXCLUSIVE_LOCK}
    /\ lock[p] \in {RESERVED_LOCK, PENDING_LOCK} => journal.count = 0
    /\ at[p] \in {"validate", "reader"} => journal.count = 0

Excludes(p, q) ==
    /\ lock[p] >= RESERVED_LOCK => lock[q] < RESERVED_LOCK
    /\ lock[p] = EXCLUSIVE_LOCK => lock[q] = NO_LOCK

-----------------------------------------------------------------------------
(***************************************************************************)
(* The processes.                                                          *)
(***************************************************************************)
Agrees(p) == \A pg \in DOMAIN cache[p] : cache[p][pg] = Content[pg]

\* A cache that will be trusted only if it is right.
Stale(p) ==
    \/ DOMAIN cache[p] = {}
    \/ vers[p] <= Content[Header] /\ (vers[p] = Content[Header] => Agrees(p))

\* A process that does not write.
ReaderInvariant(p) ==
    /\ at[p] \in {"open"} \cup Sharing \cup HotSteps => dirty[p] = {} /\ Stale(p)
    /\ at[p] = "reader" =>
          Header \in DOMAIN cache[p] /\ vers[p] = Content[Header] /\ Agrees(p)
    /\ at[p] \notin {"write_file", "play", "play_hot", "error"} => pos[p] = 0

\* How many of the dirty pages are written before page pg.
Rank(p, pg) == Cardinality({q \in dirty[p] : q < pg})

Below(content, n) == \A pg \in Pages : content[pg] < n

\* The k-th record has been played back.
Played(k) == file[journal.recs[k].page] = journal.recs[k].val

\* A process that writes: its cache and its journal.
Owns(p) ==
    /\ IsFiniteSet(dirty[p]) /\ dirty[p] \subseteq DOMAIN cache[p]
    /\ Header \in DOMAIN cache[p]
    /\ mine[p] = last /\ Below(Content, last)
    /\ \A g \in ghosts : Below(Restored(file, g), last)
    /\ \A pg \in DOMAIN cache[p] \ dirty[p] : cache[p][pg] = Content[pg]
    /\ dirty[p] # {} =>
          /\ journal.exists /\ PagesOf(journal) = dirty[p]
          /\ \A k \in DOMAIN journal.recs :
                journal.recs[k].val = Content[journal.recs[k].page]

\* How far it has come.
Stage(p) ==
    /\ at[p] # "writer" => dirty[p] # {}
    /\ at[p] \in Reserving \cup Committing => last \notin failed
    /\ at[p] = "writer" =>
          /\ Header \notin dirty[p] /\ vers[p] = Content[Header]
          /\ \A pg \in dirty[p] : cache[p][pg] = last
    /\ at[p] \in {"lock"} \cup Committing =>
          /\ Header \in dirty[p] /\ cache[p][Header] = Content[Header] + 1
          /\ \A pg \in dirty[p] \cap DataPages : cache[p][pg] = last
    /\ at[p] \in {"sync_records", "header"} => journal.count = 0
    /\ at[p] \in {"header", "sync_header"} => jsync = "records"
    /\ at[p] = "sync_header" => journal.count # 0
    /\ at[p] \in {"write_file", "delete", "play"} =>
          journal.count # 0 /\ jsync = "all" /\ Header \in dirty[p]
    /\ at[p] = "write_file" =>
          \A pg \in dirty[p] : Rank(p, pg) < pos[p] =>
              file[pg] = cache[p][pg] /\ (pg = Header => vers[p] = cache[p][Header])
    /\ at[p] = "delete" =>
          /\ \A pg \in dirty[p] : file[pg] = cache[p][pg]
          /\ vers[p] = cache[p][Header]
          /\ \A pg \in Pages : Durable(pg)
    /\ at[p] = "play" =>
          \A k \in DOMAIN journal.recs : k <= pos[p] =>
              /\ Played(k) /\ cache[p][journal.recs[k].page] = journal.recs[k].val
              /\ journal.recs[k].page = Header => vers[p] = journal.recs[k].val
    /\ at[p] \in Undoing => Intact
    /\ at[p] = "delete_undone" => vers[p] = Content[Header] /\ Agrees(p)

\* A process that rolls back what another has left.
HotInvariant(p) ==
    /\ at[p] = "play_hot" =>
          /\ journal.count # 0 => jsync = "all"
          /\ \A k \in DOMAIN Records(journal) : k <= pos[p] => Played(k)
    /\ at[p] = "delete_hot" => Intact

-----------------------------------------------------------------------------
DiskTypes ==
    /\ file \in Files
    /\ maybe \in [Pages -> SUBSET (0 .. Torn)]
    /\ journal \in Journals /\ ghosts \subseteq Journals
    /\ jsync \in {"none", "records", "all"}

Types ==
    /\ DiskTypes
    /\ at \in [Processes -> Steps]
    /\ lock \in [Processes -> NO_LOCK .. EXCLUSIVE_LOCK]
    /\ cache \in [Processes -> Caches]
    /\ vers \in [Processes -> Value]
    /\ dirty \in [Processes -> SUBSET Pages]
    /\ pos \in [Processes -> Nat]
    /\ mine \in [Processes -> Value]
    /\ last \in Value
    /\ failed \subseteq 1 .. last

LocalInvariant(p) ==
    /\ Holds(p) /\ ReaderInvariant(p) /\ HotInvariant(p)
    /\ at[p] \in Writing => Owns(p) /\ Stage(p)

PagerInvariant ==
    /\ Types
    /\ DiskInvariant
    /\ \A p \in Processes : LocalInvariant(p)
    /\ \A p \in Processes : \A q \in Others(p) : Excludes(p, q)

-----------------------------------------------------------------------------
(***************************************************************************)
(* What a rollback leaves.                                                 *)
(***************************************************************************)
LEMMA Constants ==
    /\ MaxTxn \in Nat /\ Torn \in Nat /\ Torn = MaxTxn + 1
    /\ Value \subseteq 0 .. Torn /\ Torn \notin Value
    /\ Header \in Pages /\ Header \notin DataPages /\ Pages \subseteq Nat
    /\ \A pg \in Pages : pg # Header => pg \in DataPages /\ pg > Header
BY PagerAssumption DEF Torn, Value, Pages, Header

LEMMA WholeRecords ==
    ASSUME NEW j \in Journals, Sealed(j)
    PROVE  /\ Records(j) = j.recs
           /\ DOMAIN j.recs = 1 .. Len(j.recs)
           /\ \A k \in DOMAIN j.recs : j.recs[k].page \in Pages /\ j.recs[k].val \in Value
<1>1. j.recs \in Seq(Entries) /\ j.count \in Nat
  BY DEF Journals
<1>2. DOMAIN j.recs = 1 .. Len(j.recs)
  BY <1>1
<1>3. \A k \in DOMAIN j.recs : j.recs[k] \in Entries
  BY <1>1
<1>4. Records(j) = SubSeq(j.recs, 1, Len(j.recs))
  BY <1>1 DEF Sealed, Records
<1>5. Records(j) = j.recs
  BY <1>1, <1>4
<1> QED
  BY <1>2, <1>3, <1>5 DEF Entries

LEMMA RestoredEmpty ==
    ASSUME NEW f, NEW j, j.count = 0
    PROVE  Restored(f, j) = f
BY DEF Restored

LEMMA RestoredWhole ==
    ASSUME NEW f \in Files, NEW j \in Journals, Sealed(j), Distinct(j)
    PROVE  /\ Restored(f, j) \in Files
           /\ \A k \in DOMAIN j.recs : Restored(f, j)[j.recs[k].page] = j.recs[k].val
           /\ \A pg \in Pages \ PagesOf(j) : Restored(f, j)[pg] = f[pg]
<1> DEFINE of(pg) == {k \in DOMAIN Records(j) : j.recs[k].page = pg}
           r == [pg \in Pages |-> IF of(pg) = {} THEN f[pg]
                                  ELSE j.recs[CHOOSE k \in of(pg) : TRUE].val]
<1>1. Restored(f, j) = r
  <2>1. j.count # 0
    BY DEF Sealed, Journals
  <2> QED
    BY <2>1 DEF Restored
<1>2. DOMAIN Records(j) = DOMAIN j.recs
  BY WholeRecords
<1>3. ASSUME NEW k \in DOMAIN j.recs
      PROVE  r[j.recs[k].page] = j.recs[k].val
  <2>1. of(j.recs[k].page) = {k}
    BY <1>2, <1>3 DEF Distinct
  <2>2. (CHOOSE l \in of(j.recs[k].page) : TRUE) = k
    BY <2>1
  <2>3. j.recs[k].page \in Pages
    BY WholeRecords
  <2> QED
    BY <2>1, <2>2, <2>3
<1>4. ASSUME NEW pg \in Pages \ PagesOf(j)
      PROVE  r[pg] = f[pg]
  <2>1. of(pg) = {}
    BY <1>2 DEF PagesOf
  <2> QED
    BY <2>1
<1>5. ASSUME NEW pg \in Pages
      PROVE  r[pg] \in 0 .. Torn
  <2>1. CASE pg \in PagesOf(j)
    <3>1. PICK k \in DOMAIN j.recs : pg = j.recs[k].page
      BY <2>1 DEF PagesOf
    <3>2. j.recs[k].val \in 0 .. Torn
      BY WholeRecords, Constants
    <3> QED
      BY <1>3, <3>1, <3>2
  <2>2. CASE pg \notin PagesOf(j)
    BY <1>4, <2>2 DEF Files
  <2> QED
    BY <2>1, <2>2
<1>6. r \in Files
  BY <1>5 DEF Files
<1> QED
  BY <1>1, <1>3, <1>4, <1>6

\* A rollback does not look at the pages it writes.
LEMMA RestoredSame ==
    ASSUME NEW f \in Files, NEW g \in Files, NEW j \in Journals, Sealed(j), Distinct(j),
           \A pg \in Pages \ PagesOf(j) : f[pg] = g[pg]
    PROVE  Restored(f, j) = Restored(g, j)
<1>1. /\ Restored(f, j) \in Files /\ Restored(g, j) \in Files
      /\ \A k \in DOMAIN j.recs : /\ Restored(f, j)[j.recs[k].page] = j.recs[k].val
                                  /\ Restored(g, j)[j.recs[k].page] = j.recs[k].val
      /\ \A pg \in Pages \ PagesOf(j) : Restored(f, j)[pg] = f[pg] /\ Restored(g, j)[pg] = g[pg]
  BY RestoredWhole
<1>2. ASSUME NEW pg \in Pages
      PROVE  Restored(f, j)[pg] = Restored(g, j)[pg]
  <2>1. CASE pg \in PagesOf(j)
    BY <1>1, <2>1 DEF PagesOf
  <2>2. CASE pg \notin PagesOf(j)
    BY <1>1, <2>2
  <2> QED
    BY <2>1, <2>2
<1> QED
  BY <1>1, <1>2 DEF Files

\* It changes nothing if the file has what it would write.
LEMMA RestoredFixed ==
    ASSUME NEW f \in Files, NEW j \in Journals, Sealed(j), Distinct(j),
           \A k \in DOMAIN j.recs : f[j.recs[k].page] = j.recs[k].val
    PROVE  Restored(f, j) = f
<1>1. /\ Restored(f, j) \in Files
      /\ \A k \in DOMAIN j.recs : Restored(f, j)[j.recs[k].page] = j.recs[k].val
      /\ \A pg \in Pages \ PagesOf(j) : Restored(f, j)[pg] = f[pg]
  BY RestoredWhole
<1>2. ASSUME NEW pg \in Pages
      PROVE  Restored(f, j)[pg] = f[pg]
  <2>1. CASE pg \in PagesOf(j)
    BY <1>1, <2>1 DEF PagesOf
  <2>2. CASE pg \notin PagesOf(j)
    BY <1>1, <2>2
  <2> QED
    BY <2>1, <2>2
<1> QED
  BY <1>1, <1>2 DEF Files

-----------------------------------------------------------------------------
(***************************************************************************)
(* The step of one process.                                                *)
(***************************************************************************)
\* It leaves what the others know.
Alone(p) ==
    \A q \in Others(p) :
        /\ at'[q] = at[q] /\ lock'[q] = lock[q]
        /\ cache'[q] = cache[q] /\ vers'[q] = vers[q] /\ dirty'[q] = dirty[q]
        /\ pos'[q] = pos[q] /\ mine'[q] = mine[q]

LEMMA SameDisk ==
    ASSUME disk' = disk
    PROVE  /\ Content' = Content
           /\ file' = file /\ maybe' = maybe /\ journal' = journal
           /\ jsync' = jsync /\ ghosts' = ghosts
BY DEF disk, Content

LEMMA OthersStay ==
    ASSUME PagerInvariant, NEW p \in Processes, Alone(p), disk' = disk, last' = last,
           NEW q \in Others(p), at[q] \in Writing => failed' = failed
    PROVE  LocalInvariant(q)'
<1> USE SameDisk
<1>1. LocalInvariant(q) /\ q \in Processes
  BY DEF PagerInvariant, Others
<1>2. /\ at'[q] = at[q] /\ lock'[q] = lock[q]
      /\ cache'[q] = cache[q] /\ vers'[q] = vers[q] /\ dirty'[q] = dirty[q]
      /\ pos'[q] = pos[q] /\ mine'[q] = mine[q]
  BY DEF Alone
<1>3. Holds(q)'
  BY <1>1, <1>2 DEF LocalInvariant, Holds
<1>4. ReaderInvariant(q)'
  BY <1>1, <1>2 DEF LocalInvariant, ReaderInvariant, Stale, Agrees
<1>5. HotInvariant(q)'
  BY <1>1, <1>2 DEF LocalInvariant, HotInvariant, Intact, Durable, Played
<1>6. at'[q] \in Writing => Owns(q)'
  BY <1>1, <1>2 DEF LocalInvariant, Owns, Below, PagesOf
<1>7. at'[q] \in Writing => Stage(q)'
  <2>1. \A pg : Rank(q, pg)' = Rank(q, pg)
    BY <1>2 DEF Rank
  <2> QED
    BY <1>1, <1>2, <2>1 DEF LocalInvariant, Stage, Agrees, Intact, Durable, Played, Writing
<1> QED
  BY <1>3, <1>4, <1>5, <1>6, <1>7 DEF LocalInvariant

LEMMA OthersWait ==
    ASSUME PagerInvariant, NEW p \in Processes, Alone(p), Content' = Content,
           NEW q \in Others(p), lock[q] < RESERVED_LOCK,
           lock[q] # NO_LOCK => journal'.count = 0 \/ journal'.count = journal.count
    PROVE  LocalInvariant(q)'
<1>1. LocalInvariant(q) /\ q \in Processes
  BY DEF PagerInvariant, Others
<1>2. /\ at'[q] = at[q] /\ lock'[q] = lock[q]
      /\ cache'[q] = cache[q] /\ vers'[q] = vers[q] /\ dirty'[q] = dirty[q]
      /\ pos'[q] = pos[q] /\ mine'[q] = mine[q]
  BY DEF Alone
<1>3. lock[q] \in 0 .. 4 /\ at[q] \in Steps
  BY <1>1 DEF PagerInvariant, Types, NO_LOCK, EXCLUSIVE_LOCK
<1>4. at[q] \in {"open", "error"} \cup Sharing
  <2>1. at[q] \notin Reserving \cup Undoing \cup Committing \cup HotSteps \cup {"play"}
    BY <1>1, <1>3 DEF LocalInvariant, Holds, RESERVED_LOCK, EXCLUSIVE_LOCK
  <2> QED
    BY <1>3, <2>1 DEF Steps, Sharing, Reserving, Undoing, Committing, HotSteps
<1>5. Holds(q)'
  <2>1. Holds(q)
    BY <1>1 DEF LocalInvariant
  <2>2. at[q] \in {"validate", "reader"} => lock[q] # NO_LOCK
    BY <2>1 DEF Holds, Sharing, NO_LOCK, SHARED_LOCK
  <2>3. lock[q] \notin {RESERVED_LOCK, PENDING_LOCK}
    BY <1>3 DEF RESERVED_LOCK, PENDING_LOCK
  <2> QED
    BY <1>2, <2>1, <2>2, <2>3 DEF Holds
<1>6. ReaderInvariant(q)'
  BY <1>1, <1>2 DEF LocalInvariant, ReaderInvariant, Stale, Agrees
<1>7. HotInvariant(q)'
  BY <1>2, <1>4 DEF HotInvariant, Sharing
<1>8. at'[q] \notin Writing
  BY <1>2, <1>4 DEF Writing, Sharing, Reserving, Undoing, Committing
<1> QED
  BY <1>5, <1>6, <1>7, <1>8 DEF LocalInvariant

\* What is left to show of a step.
LEMMA Moved ==
    ASSUME PagerInvariant, NEW p \in Processes, Alone(p),
           Types', DiskInvariant', LocalInvariant(p)',
           \A q \in Others(p) : LocalInvariant(q)',
           \A q \in Others(p) : Excludes(p, q)' /\ Excludes(q, p)'
    PROVE  PagerInvariant'
<1>1. \A q \in Processes : LocalInvariant(q)'
  BY DEF Others
<1>2. ASSUME NEW q \in Processes, NEW r \in Others(q)
      PROVE  Excludes(q, r)'
  <2>1. CASE q = p \/ r = p
    BY <1>2, <2>1 DEF Others
  <2>2. CASE q # p /\ r # p
    <3>1. lock'[q] = lock[q] /\ lock'[r] = lock[r]
      BY <1>2, <2>2 DEF Others, Alone
    <3>2. Excludes(q, r)
      BY <1>2 DEF PagerInvariant
    <3> QED
      BY <3>1, <3>2 DEF Excludes
  <2> QED
    BY <2>1, <2>2
<1> QED
  BY <1>1, <1>2 DEF PagerInvariant

\* A step under a lock that is kept or given back excludes whom it excluded.
LEMMA Lowered ==
    ASSUME PagerInvariant, NEW p \in Processes, Alone(p), NEW q \in Others(p),
           lock'[p] \in Nat, lock'[p] <= lock[p]
    PROVE  Excludes(p, q)' /\ Excludes(q, p)'
<1>1. q \in Processes /\ p \in Others(q) /\ lock'[q] = lock[q]
  BY DEF Others, Alone
<1>2. Excludes(p, q) /\ Excludes(q, p)
  BY <1>1 DEF PagerInvariant
<1>3. lock[p] \in 0 .. 4 /\ lock[q] \in 0 .. 4
  BY <1>1 DEF PagerInvariant, Types, NO_LOCK, EXCLUSIVE_LOCK
<1> QED
  BY <1>1, <1>2, <1>3 DEF Excludes, NO_LOCK, RESERVED_LOCK, EXCLUSIVE_LOCK

-----------------------------------------------------------------------------
(***************************************************************************)
(* What the invariant says of the disk.                                    *)
(***************************************************************************)
LEMMA TypesOf ==
    ASSUME PagerInvariant, NEW p \in Processes
    PROVE  /\ at[p] \in Steps /\ lock[p] \in 0 .. 4 /\ vers[p] \in Value /\ mine[p] \in Value
           /\ dirty[p] \subseteq Pages /\ pos[p] \in Nat
           /\ cache[p] \in Caches
           /\ LocalInvariant(p)
BY DEF PagerInvariant, Types, NO_LOCK, EXCLUSIVE_LOCK

LEMMA CacheOf ==
    ASSUME PagerInvariant, NEW p \in Processes
    PROVE  /\ DOMAIN cache[p] \subseteq Pages
           /\ cache[p] \in [DOMAIN cache[p] -> Value]
BY TypesOf DEF Caches

LEMMA ContentTypes ==
    ASSUME PagerInvariant
    PROVE  /\ Content \in [Pages -> 0 .. last]
           /\ \A pg \in Pages : Content[pg] \in Value /\ Content[pg] \in Nat
           /\ file \in Files /\ journal \in Journals /\ last \in Value
           /\ Distinct(journal)
<1>1. Content \in [Pages -> 0 .. last] /\ last \in Value
  BY DEF PagerInvariant, DiskInvariant, Sound, Types
<1>2. \A pg \in Pages : Content[pg] \in Value /\ Content[pg] \in Nat
  BY <1>1, Constants DEF Value
<1> QED
  BY <1>1, <1>2 DEF PagerInvariant, DiskInvariant, Types, DiskTypes

\* No journal would be played back.
LEMMA AtRest ==
    ASSUME PagerInvariant, journal.count = 0
    PROVE  Content = file /\ Intact
<1>1. Content = file
  BY RestoredEmpty DEF Content
<1> QED
  BY <1>1 DEF PagerInvariant, DiskInvariant, Intact

\* One would.
LEMMA Halfway ==
    ASSUME PagerInvariant, journal.count # 0
    PROVE  /\ Sealed(journal) /\ jsync # "none" /\ ghosts = {}
           /\ Records(journal) = journal.recs
           /\ DOMAIN journal.recs = 1 .. Len(journal.recs)
           /\ \A k \in DOMAIN journal.recs :
                 /\ journal.recs[k].page \in Pages /\ journal.recs[k].val \in Value
                 /\ Content[journal.recs[k].page] = journal.recs[k].val
           /\ \A pg \in Pages \ PagesOf(journal) : Content[pg] = file[pg] /\ Durable(pg)
<1>1. file \in Files /\ journal \in Journals /\ Distinct(journal)
  BY ContentTypes
<1>2. /\ Sealed(journal) /\ jsync # "none"
      /\ \A pg \in Pages \ PagesOf(journal) : Durable(pg)
  BY DEF PagerInvariant, DiskInvariant
<1>3. ghosts = {}
  BY <1>2 DEF PagerInvariant, DiskInvariant
<1>4. /\ Records(journal) = journal.recs
      /\ DOMAIN journal.recs = 1 .. Len(journal.recs)
      /\ \A k \in DOMAIN journal.recs :
            journal.recs[k].page \in Pages /\ journal.recs[k].val \in Value
  BY <1>1, <1>2, WholeRecords
<1>5. /\ \A k \in DOMAIN journal.recs : Content[journal.recs[k].page] = journal.recs[k].val
      /\ \A pg \in Pages \ PagesOf(journal) : Content[pg] = file[pg]
  BY <1>1, <1>2, RestoredWhole DEF Content
<1> QED
  BY <1>2, <1>3, <1>4, <1>5

-----------------------------------------------------------------------------
(***************************************************************************)
(* Steps that leave the disk.                                              *)
(***************************************************************************)
\* A transaction that fails has left nothing that a power loss could bring back.
LEMMA SoundStays ==
    ASSUME PagerInvariant, NEW p \in Processes, last' = last,
           \/ failed' = failed
           \/ at[p] \in Writing /\ failed' = failed \cup {mine[p]}
    PROVE  /\ failed' \subseteq 1 .. last'
           /\ \A c : c = Content \/ (\E g \in ghosts : c = Restored(file, g)) =>
                  /\ c \in [Pages -> 0 .. last']
                  /\ \A pg \in DataPages : c[pg] \notin failed'
<1>1. /\ failed \subseteq 1 .. last /\ last \in Nat /\ Sound(Content)
      /\ \A g \in ghosts : Sound(Restored(file, g))
  BY Constants DEF PagerInvariant, Types, Value, DiskInvariant
<1>2. CASE failed' = failed
  BY <1>1, <1>2 DEF Sound
<1>3. CASE at[p] \in Writing /\ failed' = failed \cup {mine[p]}
  <2>1. /\ mine[p] = last /\ Below(Content, last)
        /\ \A g \in ghosts : Below(Restored(file, g), last)
    BY <1>3 DEF PagerInvariant, LocalInvariant, Owns
  <2>2. DataPages \subseteq Pages
    BY DEF Pages
  <2>3. ASSUME NEW c, Sound(c), Below(c, last)
        PROVE  /\ c \in [Pages -> 0 .. last']
               /\ \A pg \in DataPages : c[pg] \notin failed'
    BY <1>1, <1>3, <2>1, <2>2, <2>3 DEF Sound, Below
  <2>4. \A c : c = Content \/ (\E g \in ghosts : c = Restored(file, g)) =>
                  /\ c \in [Pages -> 0 .. last']
                  /\ \A pg \in DataPages : c[pg] \notin failed'
    BY <1>1, <2>1, <2>3
  <2>5. last >= 1
    <3>1. Content[Header] < last /\ Content[Header] \in Nat
      BY <2>1, Constants, ContentTypes DEF Below, Value
    <3> QED
      BY <3>1, <1>1
  <2>6. last \in 1 .. last' /\ \A n \in failed : n \in 1 .. last'
    BY <1>1, <2>5
  <2> QED
    BY <1>3, <2>1, <2>4, <2>6
<1> QED
  BY <1>2, <1>3

LEMMA DiskStays ==
    ASSUME PagerInvariant, NEW p \in Processes, disk' = disk, last' = last,
           \/ failed' = failed
           \/ at[p] \in Writing /\ failed' = failed \cup {mine[p]}
    PROVE  DiskInvariant' /\ failed' \subseteq 1 .. last'
<1>1. /\ failed' \subseteq 1 .. last'
      /\ \A c : c = Content \/ (\E g \in ghosts : c = Restored(file, g)) =>
             /\ c \in [Pages -> 0 .. last']
             /\ \A pg \in DataPages : c[pg] \notin failed'
  BY SoundStays
<1>2. DiskInvariant
  BY DEF PagerInvariant
<1>3. Sound(Content)'
  BY <1>1, SameDisk DEF Sound
<1>4. (\A g \in ghosts : Sound(Restored(file, g)))'
  BY <1>1, SameDisk DEF Sound
<1> QED
  BY <1>1, <1>2, <1>3, <1>4, SameDisk DEF DiskInvariant, Intact, Durable

LEMMA OneWriter ==
    ASSUME PagerInvariant, NEW p \in Processes, at[p] \in Writing, NEW q \in Others(p)
    PROVE  at[q] \notin Writing
<1> USE DEF NO_LOCK, RESERVED_LOCK, EXCLUSIVE_LOCK
<1>1. /\ Holds(p) /\ Holds(q) /\ Excludes(p, q)
      /\ lock[p] \in 0 .. 4 /\ lock[q] \in 0 .. 4
  BY TypesOf DEF PagerInvariant, LocalInvariant, Others
<1>2. at[p] \in Writing => lock[p] >= 2
  BY <1>1 DEF Holds, Writing
<1>3. at[q] \in Writing => lock[q] >= 2
  BY <1>1 DEF Holds, Writing
<1> QED
  BY <1>1, <1>2, <1>3 DEF Excludes

\* A step of process p to s, under the lock l.
LEMMA Quiet ==
    ASSUME PagerInvariant, NEW p \in Processes, disk' = disk, last' = last,
           \/ failed' = failed
           \/ at[p] \in Writing /\ failed' = failed \cup {mine[p]},
           memory' = memory, NEW l \in 0 .. 4, NEW s \in Steps,
           lock' = [lock EXCEPT ![p] = l], at' = [at EXCEPT ![p] = s]
    PROVE  /\ Alone(p) /\ Types' /\ DiskInvariant'
           /\ \A q \in Others(p) : LocalInvariant(q)' /\ lock'[q] = lock[q]
           /\ at'[p] = s /\ lock'[p] = l /\ Content' = Content
           /\ file' = file /\ maybe' = maybe /\ journal' = journal
           /\ jsync' = jsync /\ ghosts' = ghosts
           /\ cache' = cache /\ vers' = vers /\ dirty' = dirty /\ pos' = pos /\ mine' = mine
<1>1. at \in [Processes -> Steps] /\ lock \in [Processes -> 0 .. 4]
  BY DEF PagerInvariant, Types, NO_LOCK, EXCLUSIVE_LOCK
<1>2. cache' = cache /\ vers' = vers /\ dirty' = dirty /\ pos' = pos /\ mine' = mine
  BY DEF memory
<1>3. Alone(p) /\ \A q \in Others(p) : lock'[q] = lock[q]
  BY <1>1, <1>2 DEF Alone, Others
<1>4. at' \in [Processes -> Steps] /\ lock' \in [Processes -> NO_LOCK .. EXCLUSIVE_LOCK]
  BY <1>1 DEF NO_LOCK, EXCLUSIVE_LOCK
<1>5. DiskInvariant' /\ failed' \subseteq 1 .. last'
  BY DiskStays
<1>6. Types'
  BY <1>2, <1>4, <1>5, SameDisk DEF PagerInvariant, DiskTypes, Types
<1>7. \A q \in Others(p) : LocalInvariant(q)'
  BY <1>3, OneWriter, OthersStay
<1> QED
  BY <1>1, <1>2, <1>3, <1>5, <1>6, <1>7, SameDisk

\* Whoever holds no lock to write does not write.
LEMMA ReadersDoNotWrite ==
    /\ Sharing \cap Writing = {} /\ HotSteps \cap Writing = {}
    /\ "open" \notin Writing /\ "error" \notin Writing
BY DEF Sharing, HotSteps, Writing, Reserving, Undoing, Committing

\* Process p goes to s, under the lock l.
Goes(p, s, l) ==
    /\ disk' = disk /\ memory' = memory /\ last' = last /\ failed' = failed
    /\ at' = [at EXCEPT ![p] = s] /\ lock' = [lock EXCEPT ![p] = l]

Looks == {"exists", "reserved", "first_byte", "hot", "validate"}

LEMMA Looked ==
    ASSUME PagerInvariant, NEW p \in Processes, at[p] \in {"open"} \cup Sharing,
           NEW s, NEW l, Goes(p, s, l),
           \/ s = "open" /\ l = NO_LOCK
           \/ s = "sync_hot" /\ l = EXCLUSIVE_LOCK
           \/ s \in Looks /\ l = SHARED_LOCK,
           s = "validate" => journal.count = 0,
           l <= lock[p] \/ \A q \in Others(p) :
                               lock[q] < PENDING_LOCK /\ (l = EXCLUSIVE_LOCK => lock[q] = NO_LOCK)
    PROVE  PagerInvariant'
<1> USE DEF NO_LOCK, SHARED_LOCK, RESERVED_LOCK, PENDING_LOCK, EXCLUSIVE_LOCK
<1>1. s \in Steps /\ l \in 0 .. 4
  BY DEF Steps, Looks
<1>2. /\ Alone(p) /\ Types' /\ DiskInvariant'
      /\ \A q \in Others(p) : LocalInvariant(q)' /\ lock'[q] = lock[q]
      /\ at'[p] = s /\ lock'[p] = l /\ Content' = Content /\ journal' = journal
      /\ cache' = cache /\ vers' = vers /\ dirty' = dirty /\ pos' = pos
  BY <1>1, Quiet DEF Goes
<1>3. \A q \in Others(p) : Excludes(p, q)' /\ Excludes(q, p)'
  <2>1. CASE l <= lock[p]
    BY <1>2, <2>1, Lowered
  <2>2. CASE \A q \in Others(p) :
                 lock[q] < PENDING_LOCK /\ (l = EXCLUSIVE_LOCK => lock[q] = NO_LOCK)
    <3>1. \A q \in Others(p) : lock[q] \in 0 .. 4
      BY TypesOf DEF Others
    <3>2. l \in {0, 1, 4}
      OBVIOUS
    <3> QED
      BY <1>2, <2>2, <3>1, <3>2 DEF Excludes
  <2> QED
    BY <2>1, <2>2
<1>4. LocalInvariant(p)'
  <2>1. ReaderInvariant(p) /\ pos[p] = 0
    BY DEF PagerInvariant, LocalInvariant, ReaderInvariant, Sharing
  <2>2. ReaderInvariant(p)'
    BY <1>2, <2>1 DEF ReaderInvariant, Stale, Agrees, Sharing, Looks
  <2>3. Holds(p)'
    BY <1>2 DEF Holds, Looks, Sharing, Reserving, Undoing, Committing, HotSteps
  <2> QED
    BY <1>2, <2>2, <2>3 DEF LocalInvariant, HotInvariant, Looks, Writing, Reserving,
         Undoing, Committing
<1> QED
  BY <1>2, <1>3, <1>4, Moved

LEMMA LooksKeep ==
    ASSUME PagerInvariant, NEW p \in Processes,
           \/ SharedLock(p) \/ JournalExists(p) \/ CheckReservedLock(p)
           \/ FirstByte(p) \/ LockHot(p) \/ Unlock(p)
    PROVE  PagerInvariant'
<1>1. lock[p] \in 0 .. 4 /\ Holds(p) /\ lock \in [Processes -> 0 .. 4]
  BY DEF PagerInvariant, LocalInvariant, Types, NO_LOCK, EXCLUSIVE_LOCK
<1>2. at[p] \in Sharing => lock[p] = SHARED_LOCK
  BY <1>1 DEF Holds
<1>3. lock' = lock /\ at[p] \in Sharing => lock' = [lock EXCEPT ![p] = SHARED_LOCK]
  BY <1>1, <1>2
<1>4. ~journal.exists => journal.count = 0
  BY Halfway DEF Sealed
<1>5. SHARED_LOCK <= SHARED_LOCK /\ NO_LOCK <= lock[p]
  BY <1>1 DEF SHARED_LOCK, NO_LOCK
<1>6. CASE SharedLock(p)
  <2>1. Goes(p, "exists", SHARED_LOCK) /\ at[p] = "open"
    BY <1>6 DEF SharedLock, Lock, To, Goes
  <2>2. \A q \in Others(p) : lock[q] < PENDING_LOCK /\ SHARED_LOCK # EXCLUSIVE_LOCK
    BY <1>6 DEF SharedLock, CanShare, SHARED_LOCK, EXCLUSIVE_LOCK
  <2> QED
    BY <2>1, <2>2, Looked DEF Looks
<1>7. CASE JournalExists(p)
  <2>1. PICK s : s = IF journal.exists THEN "reserved" ELSE "validate"
    OBVIOUS
  <2>2. at[p] = "exists" /\ at[p] \in Sharing
    BY <1>7 DEF JournalExists, Sharing
  <2>3. Goes(p, s, SHARED_LOCK)
    BY <1>3, <1>7, <2>1, <2>2 DEF JournalExists, To, Goes
  <2> QED
    BY <1>2, <1>4, <1>5, <2>1, <2>2, <2>3, Looked DEF Looks
<1>8. CASE CheckReservedLock(p)
  <2>1. PICK s : s = IF CanReserve(p) THEN "first_byte" ELSE "validate"
    OBVIOUS
  <2>2. at[p] = "reserved" /\ at[p] \in Sharing
    BY <1>8 DEF CheckReservedLock, Sharing
  <2>3. Goes(p, s, SHARED_LOCK)
    BY <1>3, <1>8, <2>1, <2>2 DEF CheckReservedLock, To, Goes
  <2>4. ASSUME ~CanReserve(p)
        PROVE  journal.count = 0
    <3> USE DEF NO_LOCK, SHARED_LOCK, RESERVED_LOCK, PENDING_LOCK, EXCLUSIVE_LOCK
    <3>1. PICK q \in Others(p) : lock[q] >= 2 /\ lock[q] \in 0 .. 4
      BY <2>4, TypesOf DEF CanReserve, Others
    <3>2. Excludes(q, p) /\ Holds(q)
      BY <3>1 DEF PagerInvariant, LocalInvariant, Others
    <3>3. lock[q] # 4
      BY <1>2, <2>2, <3>2 DEF Excludes
    <3>4. lock[q] \in {2, 3}
      BY <3>1, <3>3
    <3> QED
      BY <3>2, <3>4 DEF Holds
  <2> QED
    BY <1>2, <1>5, <2>1, <2>2, <2>3, <2>4, Looked DEF Looks
<1>9. CASE FirstByte(p)
  <2>1. PICK s : s = IF journal.exists /\ journal.count = 0 THEN "validate" ELSE "hot"
    OBVIOUS
  <2>2. at[p] = "first_byte" /\ at[p] \in Sharing
    BY <1>9 DEF FirstByte, Sharing
  <2>3. Goes(p, s, SHARED_LOCK)
    BY <1>3, <1>9, <2>1, <2>2 DEF FirstByte, To, Goes
  <2> QED
    BY <1>2, <1>5, <2>1, <2>2, <2>3, Looked DEF Looks
<1>10. CASE LockHot(p)
  <2>1. at[p] = "hot" /\ at[p] \in Sharing
    BY <1>10 DEF LockHot, Sharing
  <2>2. CASE CanExclude(p) /\ journal.exists /\ Lock(p, EXCLUSIVE_LOCK) /\ To(p, "sync_hot")
    <3>1. Goes(p, "sync_hot", EXCLUSIVE_LOCK)
      BY <1>10, <2>2 DEF LockHot, Lock, To, Goes
    <3>2. \A q \in Others(p) : lock[q] < PENDING_LOCK /\ lock[q] = NO_LOCK
      BY <2>2 DEF CanExclude, NO_LOCK, PENDING_LOCK
    <3> QED
      BY <2>1, <3>1, <3>2, Looked
  <2>3. CASE CanExclude(p) /\ ~journal.exists /\ To(p, "validate") /\ UNCHANGED lock
    <3>1. Goes(p, "validate", SHARED_LOCK)
      BY <1>3, <1>10, <2>1, <2>3 DEF LockHot, To, Goes
    <3> QED
      BY <1>2, <1>4, <1>5, <2>1, <2>3, <3>1, Looked DEF Looks
  <2>4. CASE ~CanExclude(p) /\ Lock(p, NO_LOCK) /\ To(p, "open")
    <3>1. Goes(p, "open", NO_LOCK)
      BY <1>10, <2>4 DEF LockHot, Lock, To, Goes
    <3> QED
      BY <1>5, <2>1, <3>1, Looked
  <2> QED
    BY <1>10, <2>2, <2>3, <2>4 DEF LockHot
<1>11. CASE Unlock(p)
  <2>1. Goes(p, "open", NO_LOCK) /\ at[p] \in Sharing
    BY <1>11 DEF Unlock, Lock, To, Goes, Sharing
  <2> QED
    BY <1>5, <2>1, Looked
<1> QED
  BY <1>6, <1>7, <1>8, <1>9, <1>10, <1>11

-----------------------------------------------------------------------------
(***************************************************************************)
(* The cache of a reader.                                                  *)
(***************************************************************************)
LEMMA EmptyCache == DOMAIN NoCache = {} /\ NoCache \in Caches
<1>1. DOMAIN NoCache = {}
  BY DEF NoCache
<1>2. NoCache \in Seq(Value) /\ Len(NoCache) = 0
  BY DEF NoCache
<1>3. NoCache \in [1 .. 0 -> Value]
  BY <1>2
<1>4. NoCache \in [{} -> Value]
  <2>1. 1 .. 0 = {}
    OBVIOUS
  <2> QED
    BY <1>3, <2>1
<1> QED
  BY <1>1, <1>4 DEF Caches

LEMMA Cached ==
    ASSUME NEW c \in Caches, NEW pg \in Pages, NEW v \in Value
    PROVE  /\ Put(c, pg, v) \in Caches
           /\ DOMAIN Put(c, pg, v) = DOMAIN c \cup {pg}
           /\ Put(c, pg, v)[pg] = v
           /\ \A q \in DOMAIN c : q # pg => Put(c, pg, v)[q] = c[q]
<1>1. DOMAIN c \subseteq Pages /\ \A q \in DOMAIN c : c[q] \in Value
  BY DEF Caches
<1>2. DOMAIN c \cup {pg} \in SUBSET Pages
  BY <1>1
<1>3. Put(c, pg, v) \in [DOMAIN c \cup {pg} -> Value]
  BY <1>1 DEF Put
<1> QED
  BY <1>2, <1>3 DEF Caches, Put

\* A step that changes what process p knows.
Moves(p) ==
    /\ \E l \in 0 .. 4 : lock' = [lock EXCEPT ![p] = l]
    /\ \E s \in Steps : at' = [at EXCEPT ![p] = s]
    /\ \E c \in Caches : cache' = [cache EXCEPT ![p] = c]
    /\ \E v \in Value : vers' = [vers EXCEPT ![p] = v]
    /\ \E d \in SUBSET Pages : dirty' = [dirty EXCEPT ![p] = d]
    /\ \E n \in Nat : pos' = [pos EXCEPT ![p] = n]
    /\ \E m \in Value : mine' = [mine EXCEPT ![p] = m]

\* It changes nothing else.
Thinks(p) == disk' = disk /\ last' = last /\ failed' = failed /\ Moves(p)

LEMMA MovesAlone ==
    ASSUME PagerInvariant, NEW p \in Processes, Moves(p)
    PROVE  /\ Alone(p)
           /\ at' \in [Processes -> Steps] /\ lock' \in [Processes -> 0 .. 4]
           /\ cache' \in [Processes -> Caches] /\ vers' \in [Processes -> Value]
           /\ dirty' \in [Processes -> SUBSET Pages] /\ pos' \in [Processes -> Nat]
           /\ mine' \in [Processes -> Value]
<1>1. /\ at \in [Processes -> Steps] /\ lock \in [Processes -> 0 .. 4]
      /\ cache \in [Processes -> Caches] /\ vers \in [Processes -> Value]
      /\ dirty \in [Processes -> SUBSET Pages] /\ pos \in [Processes -> Nat]
      /\ mine \in [Processes -> Value]
  BY DEF PagerInvariant, Types, NO_LOCK, EXCLUSIVE_LOCK
<1>2. /\ at' \in [Processes -> Steps] /\ lock' \in [Processes -> 0 .. 4]
      /\ cache' \in [Processes -> Caches] /\ vers' \in [Processes -> Value]
      /\ dirty' \in [Processes -> SUBSET Pages] /\ pos' \in [Processes -> Nat]
      /\ mine' \in [Processes -> Value]
  BY <1>1 DEF Moves
<1>3. Alone(p)
  BY <1>1 DEF Moves, Alone, Others
<1> QED
  BY <1>2, <1>3

LEMMA Thought ==
    ASSUME PagerInvariant, NEW p \in Processes, Thinks(p), LocalInvariant(p)',
           lock'[p] <= lock[p]
    PROVE  PagerInvariant'
<1>1. disk' = disk /\ last' = last /\ failed' = failed /\ Moves(p)
  BY DEF Thinks
<1>2. /\ Alone(p)
      /\ at' \in [Processes -> Steps] /\ lock' \in [Processes -> 0 .. 4]
      /\ cache' \in [Processes -> Caches] /\ vers' \in [Processes -> Value]
      /\ dirty' \in [Processes -> SUBSET Pages] /\ pos' \in [Processes -> Nat]
      /\ mine' \in [Processes -> Value]
  BY <1>1, MovesAlone
<1>3. DiskInvariant' /\ failed' \subseteq 1 .. last'
  BY <1>1, DiskStays
<1>4. Types'
  BY <1>1, <1>2, <1>3, SameDisk DEF PagerInvariant, DiskTypes, Types, NO_LOCK, EXCLUSIVE_LOCK
<1>5. \A q \in Others(p) : LocalInvariant(q)'
  BY <1>1, <1>2, OthersStay
<1>6. lock'[p] \in Nat
  BY <1>2
<1>7. \A q \in Others(p) : Excludes(p, q)' /\ Excludes(q, p)'
  BY <1>2, <1>6, Lowered
<1> QED
  BY <1>2, <1>3, <1>4, <1>5, <1>7, Moved

\* What is left of it.
LEMMA Unmoved ==
    ASSUME PagerInvariant, NEW p \in Processes
    PROVE  /\ lock' = lock => \E l \in 0 .. 4 : lock' = [lock EXCEPT ![p] = l]
           /\ at' = at => \E s \in Steps : at' = [at EXCEPT ![p] = s]
           /\ cache' = cache => \E c \in Caches : cache' = [cache EXCEPT ![p] = c]
           /\ vers' = vers => \E v \in Value : vers' = [vers EXCEPT ![p] = v]
           /\ dirty' = dirty => \E d \in SUBSET Pages : dirty' = [dirty EXCEPT ![p] = d]
           /\ pos' = pos => \E n \in Nat : pos' = [pos EXCEPT ![p] = n]
           /\ mine' = mine => \E m \in Value : mine' = [mine EXCEPT ![p] = m]
<1>1. /\ at \in [Processes -> Steps] /\ lock \in [Processes -> 0 .. 4]
      /\ cache \in [Processes -> Caches] /\ vers \in [Processes -> Value]
      /\ dirty \in [Processes -> SUBSET Pages] /\ pos \in [Processes -> Nat]
      /\ mine \in [Processes -> Value]
  BY DEF PagerInvariant, Types, NO_LOCK, EXCLUSIVE_LOCK
<1>2. /\ lock[p] \in 0 .. 4 /\ lock = [lock EXCEPT ![p] = lock[p]]
      /\ at[p] \in Steps /\ at = [at EXCEPT ![p] = at[p]]
      /\ cache[p] \in Caches /\ cache = [cache EXCEPT ![p] = cache[p]]
      /\ vers[p] \in Value /\ vers = [vers EXCEPT ![p] = vers[p]]
      /\ dirty[p] \in SUBSET Pages /\ dirty = [dirty EXCEPT ![p] = dirty[p]]
      /\ pos[p] \in Nat /\ pos = [pos EXCEPT ![p] = pos[p]]
      /\ mine[p] \in Value /\ mine = [mine EXCEPT ![p] = mine[p]]
  BY <1>1
<1> QED
  BY <1>2

LEMMA ValidateKeeps ==
    ASSUME PagerInvariant, NEW p \in Processes, Validate(p)
    PROVE  PagerInvariant'
<1>1. /\ at[p] = "validate" /\ LocalInvariant(p) /\ at \in [Processes -> Steps]
      /\ cache \in [Processes -> Caches] /\ vers \in [Processes -> Value]
  BY DEF Validate, PagerInvariant, Types
<1>2. journal.count = 0 /\ lock[p] = SHARED_LOCK /\ dirty[p] = {} /\ Stale(p) /\ pos[p] = 0
  BY <1>1 DEF LocalInvariant, Holds, ReaderInvariant, Sharing
<1>3. Content = file /\ Header \in Pages /\ file[Header] \in Value
  BY <1>2, AtRest, ContentTypes, Constants
<1>4. PICK kept : kept = IF vers[p] = file[Header] THEN cache[p] ELSE NoCache
  OBVIOUS
<1>5. PICK c : c = IF Header \in DOMAIN kept THEN kept ELSE Put(kept, Header, file[Header])
  OBVIOUS
<1>6. cache' = [cache EXCEPT ![p] = c] /\ vers' = [vers EXCEPT ![p] = file[Header]]
  BY <1>4, <1>5 DEF Validate
<1>7. kept \in Caches /\ \A pg \in DOMAIN kept : kept[pg] = Content[pg]
  <2>1. CASE vers[p] = file[Header]
    BY <1>1, <1>2, <1>3, <1>4, <2>1, TypesOf DEF Stale, Agrees
  <2>2. CASE vers[p] # file[Header]
    BY <1>4, <2>2, EmptyCache
  <2> QED
    BY <2>1, <2>2
<1>8. c \in Caches /\ Header \in DOMAIN c /\ \A pg \in DOMAIN c : c[pg] = Content[pg]
  <2>1. CASE Header \in DOMAIN kept
    BY <1>5, <1>7, <2>1
  <2>2. CASE Header \notin DOMAIN kept
    <3>1. c = Put(kept, Header, file[Header])
      BY <1>5, <2>2
    <3>2. /\ c \in Caches /\ DOMAIN c = DOMAIN kept \cup {Header}
          /\ c[Header] = file[Header]
          /\ \A q \in DOMAIN kept : q # Header => c[q] = kept[q]
      BY <1>3, <1>7, <3>1, Cached
    <3> QED
      BY <1>3, <1>7, <3>2
  <2> QED
    BY <2>1, <2>2
<1>9. /\ at'[p] = "reader" /\ at' = [at EXCEPT ![p] = "reader"] /\ lock' = lock /\ dirty' = dirty
      /\ pos' = pos /\ mine' = mine /\ disk' = disk /\ last' = last /\ failed' = failed
      /\ cache'[p] = c /\ vers'[p] = file[Header]
  BY <1>1, <1>6 DEF Validate, To, disk
<1>10. Thinks(p)
  BY <1>3, <1>6, <1>8, <1>9, Unmoved DEF Thinks, Moves, Steps
<1>11. LocalInvariant(p)'
  <2>1. Content' = Content /\ journal' = journal
    BY <1>9, SameDisk
  <2>2. ReaderInvariant(p)'
    BY <1>2, <1>3, <1>8, <1>9, <2>1, ContentTypes DEF ReaderInvariant, Stale, Agrees, Sharing, Value
  <2>3. Holds(p)'
    BY <1>2, <1>9, <2>1 DEF Holds, Sharing, Reserving, Undoing, Committing, HotSteps,
         SHARED_LOCK, RESERVED_LOCK, PENDING_LOCK
  <2> QED
    BY <1>9, <2>2, <2>3 DEF LocalInvariant, HotInvariant, Writing, Reserving, Undoing, Committing
<1> QED
  BY <1>2, <1>9, <1>10, <1>11, Thought DEF SHARED_LOCK

LEMMA FetchKeeps ==
    ASSUME PagerInvariant, NEW p \in Processes, NEW pg \in Pages, Fetch(p, pg)
    PROVE  PagerInvariant'
<1>1. /\ at[p] \in {"reader", "writer"} /\ pg \notin DOMAIN cache[p] /\ LocalInvariant(p)
      /\ cache[p] \in Caches /\ cache \in [Processes -> Caches] /\ dirty[p] \subseteq Pages
  BY TypesOf DEF Fetch, PagerInvariant, Types
<1>2. journal.count = 0
  BY <1>1 DEF LocalInvariant, Holds, Reserving
<1>3. Content = file /\ Content[pg] \in Value
  BY <1>2, AtRest, ContentTypes
<1>4. PICK c : c = Put(cache[p], pg, file[pg])
  OBVIOUS
<1>5. /\ c \in Caches /\ DOMAIN c = DOMAIN cache[p] \cup {pg} /\ c[pg] = Content[pg]
      /\ \A q \in DOMAIN cache[p] : c[q] = cache[p][q]
  BY <1>1, <1>3, <1>4, Cached
<1>6. /\ cache' = [cache EXCEPT ![p] = c] /\ cache'[p] = c /\ at' = at /\ lock' = lock
      /\ dirty' = dirty /\ vers' = vers /\ pos' = pos /\ mine' = mine
      /\ disk' = disk /\ last' = last /\ failed' = failed
  BY <1>1, <1>4 DEF Fetch, disk
<1>7. Thinks(p)
  BY <1>5, <1>6, Unmoved DEF Thinks, Moves
<1>8. /\ Content' = Content /\ journal' = journal /\ file' = file /\ ghosts' = ghosts
      /\ jsync' = jsync /\ maybe' = maybe
  BY <1>6, SameDisk
<1>9. Agrees(p) => Agrees(p)'
  BY <1>5, <1>6, <1>8 DEF Agrees
<1>10. Holds(p)'
  BY <1>1, <1>6, <1>8 DEF LocalInvariant, Holds
<1>11. ReaderInvariant(p)'
  <2>1. CASE at[p] = "reader"
    <3>1. Agrees(p) /\ vers[p] = Content[Header] /\ Header \in DOMAIN cache[p] /\ dirty[p] = {}
      BY <1>1, <2>1 DEF LocalInvariant, ReaderInvariant, Sharing
    <3>2. Agrees(p)' /\ vers'[p] = Content'[Header] /\ Header \in DOMAIN cache'[p]
      BY <1>5, <1>6, <1>8, <1>9, <3>1
    <3>3. vers'[p] <= Content'[Header]
      <4>1. Content[Header] \in Nat
        BY ContentTypes, Constants
      <4> QED
        BY <1>8, <3>2, <4>1
    <3> QED
      BY <1>1, <1>6, <3>1, <3>2, <3>3 DEF LocalInvariant, ReaderInvariant, Stale
  <2>2. CASE at[p] = "writer"
    BY <1>1, <1>6, <2>2 DEF LocalInvariant, ReaderInvariant, Sharing, HotSteps
  <2> QED
    BY <1>1, <2>1, <2>2
<1>12. HotInvariant(p)'
  BY <1>1, <1>6 DEF HotInvariant
<1>13. ASSUME at[p] = "writer"
       PROVE  Owns(p)' /\ Stage(p)'
  <2>1. Owns(p) /\ Stage(p)
    BY <1>1, <1>13 DEF LocalInvariant, Writing, Reserving
  <2>2. dirty[p] \subseteq DOMAIN cache[p]
    BY <2>1 DEF Owns
  <2>3. Owns(p)'
    BY <1>5, <1>6, <1>8, <2>1 DEF Owns, Below, PagesOf
  <2>4. Stage(p)'
    BY <1>5, <1>6, <1>8, <1>13, <2>1, <2>2 DEF Stage, Undoing, Committing
  <2> QED
    BY <2>3, <2>4
<1>14. LocalInvariant(p)'
  BY <1>1, <1>6, <1>10, <1>11, <1>12, <1>13, ReadersDoNotWrite DEF LocalInvariant, Sharing
<1> QED
  BY <1>6, <1>7, <1>14, TypesOf, Thought

\* A process without a lock, with an empty cache.
LEMMA ForgottenKeeps ==
    ASSUME PagerInvariant, NEW p \in Processes, UnlockError(p) \/ Crash(p)
    PROVE  PagerInvariant'
<1>1. /\ at \in [Processes -> Steps] /\ lock \in [Processes -> 0 .. 4]
      /\ cache \in [Processes -> Caches] /\ vers \in [Processes -> Value]
      /\ dirty \in [Processes -> SUBSET Pages] /\ pos \in [Processes -> Nat]
      /\ mine \in [Processes -> Value] /\ 0 \in Value
  BY Constants DEF PagerInvariant, Types, NO_LOCK, EXCLUSIVE_LOCK, Value
<1>2. Forgotten(p) /\ disk' = disk /\ last' = last /\ failed' = failed
  BY DEF UnlockError, Crash, disk
<1>3. \E v \in Value : vers' = [vers EXCEPT ![p] = v]
  BY <1>1, Unmoved DEF UnlockError, Crash
<1>4. /\ lock' = [lock EXCEPT ![p] = 0] /\ at' = [at EXCEPT ![p] = "open"]
      /\ cache' = [cache EXCEPT ![p] = NoCache] /\ dirty' = [dirty EXCEPT ![p] = {}]
      /\ pos' = [pos EXCEPT ![p] = 0] /\ mine' = [mine EXCEPT ![p] = 0]
  BY <1>2 DEF Forgotten, Lock, To, NO_LOCK
<1>5. Thinks(p)
  <2>1. \E l \in 0 .. 4 : lock' = [lock EXCEPT ![p] = l]
    BY <1>4
  <2>2. \E s \in Steps : at' = [at EXCEPT ![p] = s]
    BY <1>4 DEF Steps
  <2>3. \E c \in Caches : cache' = [cache EXCEPT ![p] = c]
    BY <1>4, EmptyCache
  <2>4. \E d \in SUBSET Pages : dirty' = [dirty EXCEPT ![p] = d]
    BY <1>4
  <2>5. \E n \in Nat : pos' = [pos EXCEPT ![p] = n]
    BY <1>4
  <2>6. \E m \in Value : mine' = [mine EXCEPT ![p] = m]
    BY <1>1, <1>4
  <2> QED
    BY <1>2, <1>3, <2>1, <2>2, <2>3, <2>4, <2>5, <2>6 DEF Thinks, Moves
<1>6. /\ at'[p] = "open" /\ lock'[p] = 0 /\ cache'[p] = NoCache /\ dirty'[p] = {} /\ pos'[p] = 0
  BY <1>1, <1>4
<1>7. LocalInvariant(p)'
  <2>1. ReaderInvariant(p)'
    BY <1>6, EmptyCache DEF ReaderInvariant, Stale
  <2>2. Holds(p)'
    BY <1>6 DEF Holds, Sharing, Reserving, Undoing, Committing, HotSteps, NO_LOCK,
         RESERVED_LOCK, PENDING_LOCK
  <2> QED
    BY <1>6, <2>1, <2>2, ReadersDoNotWrite DEF LocalInvariant, HotInvariant
<1> QED
  BY <1>5, <1>6, <1>7, TypesOf, Thought

-----------------------------------------------------------------------------
(***************************************************************************)
(* The steps of a writer that leave the disk.                              *)
(***************************************************************************)
LEMMA WriterHas ==
    ASSUME PagerInvariant, NEW p \in Processes, at[p] \in Writing
    PROVE  /\ Owns(p) /\ Stage(p) /\ Holds(p) /\ ReaderInvariant(p)
           /\ mine[p] = last /\ last >= 1
<1>1. Owns(p) /\ Stage(p) /\ Holds(p) /\ ReaderInvariant(p) /\ mine[p] = last
  BY DEF PagerInvariant, LocalInvariant, Owns
<1>2. Content[Header] < last /\ Content[Header] \in Nat /\ last \in Nat
  BY <1>1, Constants, ContentTypes DEF Owns, Below, Value
<1> QED
  BY <1>1, <1>2

LEMMA BeginKeeps ==
    ASSUME PagerInvariant, NEW p \in Processes, Begin(p)
    PROVE  PagerInvariant'
<1> USE DEF NO_LOCK, SHARED_LOCK, RESERVED_LOCK, PENDING_LOCK, EXCLUSIVE_LOCK
<1>1. /\ at \in [Processes -> Steps] /\ lock \in [Processes -> 0 .. 4]
      /\ mine \in [Processes -> Value] /\ last \in Nat /\ last + 1 \in Value
      /\ at[p] = "reader" /\ LocalInvariant(p)
  BY Constants DEF PagerInvariant, Types, Begin, Value
<1>2. /\ lock' = [lock EXCEPT ![p] = 2] /\ at' = [at EXCEPT ![p] = "writer"]
      /\ mine' = [mine EXCEPT ![p] = last + 1] /\ last' = last + 1 /\ failed' = failed
      /\ disk' = disk /\ cache' = cache /\ vers' = vers /\ dirty' = dirty /\ pos' = pos
  BY DEF Begin, Lock, To, disk
<1>3. /\ Content' = Content /\ file' = file /\ maybe' = maybe /\ journal' = journal
      /\ jsync' = jsync /\ ghosts' = ghosts
  BY <1>2, SameDisk
<1>4. at'[p] = "writer" /\ lock'[p] = 2 /\ mine'[p] = last + 1
  BY <1>1, <1>2
<1>5. Alone(p) /\ \A q \in Others(p) : lock'[q] = lock[q] /\ lock[q] \in 0 .. 4
  BY <1>1, <1>2 DEF Alone, Others
<1>6. \A q \in Others(p) : lock[q] < 2
  BY DEF Begin, CanReserve
<1>7. \A q \in Others(p) : LocalInvariant(q)'
  BY <1>3, <1>5, <1>6, OthersWait
<1>8. \A q \in Others(p) : Excludes(p, q)' /\ Excludes(q, p)'
  BY <1>4, <1>5, <1>6 DEF Excludes
<1>9. Types'
  <2>1. at' \in [Processes -> Steps] /\ lock' \in [Processes -> 0 .. 4]
    BY <1>1, <1>2 DEF Steps
  <2>2. mine' \in [Processes -> Value] /\ last' \in Value /\ failed' \subseteq 1 .. last'
    BY <1>1, <1>2 DEF PagerInvariant, Types
  <2> QED
    BY <1>2, <1>3, <2>1, <2>2 DEF PagerInvariant, DiskTypes, Types
<1>10. \A c : Sound(c) => Sound(c)' /\ Below(c, last + 1)
  <2>1. ASSUME NEW c, Sound(c)
        PROVE  c \in [Pages -> 0 .. last'] /\ Below(c, last + 1)
    BY <1>1, <1>2, <2>1 DEF Sound, Below
  <2> QED
    BY <1>2, <2>1 DEF Sound
<1>11. DiskInvariant'
  <2>1. DiskInvariant /\ Sound(Content) /\ \A g \in ghosts : Sound(Restored(file, g))
    BY DEF PagerInvariant, DiskInvariant
  <2>2. /\ Content \in [Pages -> 0 .. last'] /\ \A pg \in DataPages : Content[pg] \notin failed'
        /\ \A g \in ghosts : /\ Restored(file, g) \in [Pages -> 0 .. last']
                             /\ \A pg \in DataPages : Restored(file, g)[pg] \notin failed'
    BY <1>10, <2>1 DEF Sound
  <2> QED
    BY <1>3, <2>1, <2>2 DEF DiskInvariant, Sound, Intact, Durable
<1>12. /\ Header \in DOMAIN cache[p] /\ vers[p] = Content[Header] /\ Agrees(p) /\ dirty[p] = {}
       /\ journal.count = 0 /\ pos[p] = 0
  BY <1>1 DEF LocalInvariant, Holds, ReaderInvariant, Sharing
<1>13. LocalInvariant(p)'
  <2>1. Owns(p)'
    <3>1. Below(Content, last + 1) /\ \A g \in ghosts : Below(Restored(file, g), last + 1)
      BY <1>10 DEF PagerInvariant, DiskInvariant
    <3>2. IsFiniteSet(dirty[p])
      BY <1>12, FS_EmptySet
    <3> QED
      BY <1>2, <1>3, <1>4, <1>12, <3>1, <3>2 DEF Owns, Agrees, Below
  <2>2. Stage(p)'
    <3>1. last + 1 \notin failed
      BY <1>1 DEF PagerInvariant, Types
    <3> QED
      BY <1>2, <1>3, <1>4, <1>12, <3>1 DEF Stage, Reserving, Committing, Undoing
  <2>3. Holds(p)'
    BY <1>3, <1>4, <1>12 DEF Holds, Sharing, Reserving, Undoing, Committing, HotSteps
  <2>4. ReaderInvariant(p)'
    BY <1>2, <1>4, <1>12 DEF ReaderInvariant, Sharing, HotSteps
  <2> QED
    BY <1>4, <2>1, <2>2, <2>3, <2>4 DEF LocalInvariant, HotInvariant
<1> QED
  BY <1>5, <1>7, <1>8, <1>9, <1>11, <1>13, Moved

LEMMA EndEmptyKeeps ==
    ASSUME PagerInvariant, NEW p \in Processes, EndEmpty(p)
    PROVE  PagerInvariant'
<1>1. /\ at \in [Processes -> Steps] /\ lock \in [Processes -> 0 .. 4]
      /\ mine \in [Processes -> Value] /\ 0 \in Value
      /\ at[p] = "writer" /\ at[p] \in Writing /\ dirty[p] = {}
  BY Constants DEF PagerInvariant, Types, EndEmpty, Value, NO_LOCK, EXCLUSIVE_LOCK,
     Writing, Reserving
<1>2. /\ lock' = [lock EXCEPT ![p] = SHARED_LOCK] /\ at' = [at EXCEPT ![p] = "reader"]
      /\ mine' = [mine EXCEPT ![p] = 0] /\ last' = last /\ failed' = failed
      /\ disk' = disk /\ cache' = cache /\ vers' = vers /\ dirty' = dirty /\ pos' = pos
  BY DEF EndEmpty, Lock, To, disk
<1>3. Content' = Content /\ journal' = journal
  BY <1>2, SameDisk
<1>4. at'[p] = "reader" /\ lock'[p] = SHARED_LOCK
  BY <1>1, <1>2
<1>5. Owns(p) /\ Stage(p) /\ Holds(p) /\ ReaderInvariant(p)
  BY <1>1, WriterHas
<1>6. lock[p] = RESERVED_LOCK /\ journal.count = 0 /\ pos[p] = 0
  BY <1>1, <1>5 DEF Holds, Reserving, ReaderInvariant
<1>7. Header \in DOMAIN cache[p] /\ vers[p] = Content[Header] /\ Agrees(p)
  BY <1>1, <1>5 DEF Owns, Stage, Agrees
<1>8. Thinks(p)
  <2>1. \E l \in 0 .. 4 : lock' = [lock EXCEPT ![p] = l]
    BY <1>2 DEF SHARED_LOCK
  <2>2. \E s \in Steps : at' = [at EXCEPT ![p] = s]
    BY <1>2 DEF Steps
  <2>3. \E m \in Value : mine' = [mine EXCEPT ![p] = m]
    BY <1>1, <1>2
  <2> QED
    BY <1>2, <2>1, <2>2, <2>3, Unmoved DEF Thinks, Moves
<1>9. ReaderInvariant(p)'
  <2>1. vers'[p] = Content'[Header] /\ vers'[p] <= Content'[Header] /\ Agrees(p)'
    BY <1>2, <1>3, <1>7, Constants, ContentTypes DEF Agrees
  <2> QED
    BY <1>1, <1>2, <1>4, <1>6, <1>7, <2>1 DEF ReaderInvariant, Stale
<1>10. Holds(p)'
  BY <1>3, <1>4, <1>6 DEF Holds, Sharing, Reserving, Undoing, Committing, HotSteps
<1>11. LocalInvariant(p)'
  BY <1>4, <1>9, <1>10, ReadersDoNotWrite DEF LocalInvariant, HotInvariant, Sharing
<1> QED
  BY <1>4, <1>6, <1>8, <1>11, Thought DEF SHARED_LOCK, RESERVED_LOCK

LEMMA ExclusiveLockKeeps ==
    ASSUME PagerInvariant, NEW p \in Processes, ExclusiveLock(p)
    PROVE  PagerInvariant'
<1>1. at[p] = "lock" /\ at[p] \in Writing /\ disk' = disk /\ memory' = memory /\ last' = last
  BY DEF ExclusiveLock, Writing, Reserving, disk, memory
<1>2. Owns(p) /\ Stage(p) /\ Holds(p) /\ ReaderInvariant(p)
  BY <1>1, WriterHas
<1>3. lock[p] = RESERVED_LOCK /\ journal.count = 0 /\ pos[p] = 0
  BY <1>1, <1>2 DEF Holds, Reserving, ReaderInvariant
<1>4. Intact
  BY <1>3, AtRest
<1>5. \A q \in Others(p) : lock[q] < RESERVED_LOCK /\ lock[q] \in 0 .. 4
  <2>1. \A q \in Others(p) : Excludes(p, q) /\ lock[q] \in 0 .. 4
    BY TypesOf DEF PagerInvariant, Others
  <2> QED
    BY <1>3, <2>1 DEF Excludes, RESERVED_LOCK
<1>6. ASSUME NEW s \in {"sync_records", "undo"}, NEW l \in {PENDING_LOCK, EXCLUSIVE_LOCK},
             lock' = [lock EXCEPT ![p] = l], at' = [at EXCEPT ![p] = s],
             s = "sync_records" => l = EXCLUSIVE_LOCK /\ failed' = failed,
             s = "undo" => failed' = failed \cup {mine[p]},
             l = EXCLUSIVE_LOCK => CanExclude(p)
      PROVE  PagerInvariant'
  <2>1. s \in Steps /\ l \in 0 .. 4
    BY DEF Steps, PENDING_LOCK, EXCLUSIVE_LOCK
  <2>2. failed' = failed \/ (at[p] \in Writing /\ failed' = failed \cup {mine[p]})
    <3>1. s = "sync_records" \/ s = "undo"
      BY <1>6
    <3> QED
      BY <1>1, <1>6, <3>1
  <2>3. /\ Alone(p) /\ Types' /\ DiskInvariant'
        /\ \A q \in Others(p) : LocalInvariant(q)' /\ lock'[q] = lock[q]
        /\ at'[p] = s /\ lock'[p] = l /\ Content' = Content
        /\ file' = file /\ maybe' = maybe /\ journal' = journal
        /\ jsync' = jsync /\ ghosts' = ghosts
        /\ cache' = cache /\ vers' = vers /\ dirty' = dirty /\ pos' = pos /\ mine' = mine
    BY <1>1, <1>6, <2>1, <2>2, Quiet
  <2>4. \A q \in Others(p) : Excludes(p, q)' /\ Excludes(q, p)'
    BY <1>5, <1>6, <2>3 DEF Excludes, CanExclude, NO_LOCK, RESERVED_LOCK, PENDING_LOCK,
         EXCLUSIVE_LOCK
  <2>5. Owns(p)'
    BY <1>1, <1>2, <2>3 DEF Owns, Below, PagesOf
  <2>6. Stage(p)'
    BY <1>1, <1>2, <1>3, <1>4, <1>6, <2>3 DEF Stage, Reserving, Committing, Undoing, Intact, Durable
  <2>7. Holds(p)'
    BY <1>3, <1>6, <2>3 DEF Holds, Sharing, Reserving, Undoing, Committing, HotSteps,
         RESERVED_LOCK, PENDING_LOCK, EXCLUSIVE_LOCK
  <2>8. ReaderInvariant(p)'
    BY <1>3, <2>3 DEF ReaderInvariant, Sharing, HotSteps
  <2>9. LocalInvariant(p)'
    BY <2>3, <2>5, <2>6, <2>7, <2>8 DEF LocalInvariant, HotInvariant
  <2> QED
    BY <2>3, <2>4, <2>9, Moved
<1>7. CASE CanExclude(p) /\ Lock(p, EXCLUSIVE_LOCK) /\ To(p, "sync_records") /\ failed' = failed
  BY <1>6, <1>7 DEF Lock, To
<1>8. CASE Lock(p, PENDING_LOCK) /\ To(p, "undo") /\ Report(p)
  BY <1>6, <1>8 DEF Lock, To, Report, PENDING_LOCK, EXCLUSIVE_LOCK
<1> QED
  BY <1>7, <1>8 DEF ExclusiveLock

LEMMA CommitFailsKeeps ==
    ASSUME PagerInvariant, NEW p \in Processes, CommitFails(p)
    PROVE  PagerInvariant'
<1>1. /\ at[p] \in {"writer", "sync_records", "header", "sync_header"} /\ at[p] \in Writing
      /\ at[p] = "writer" => dirty[p] # {}
      /\ disk' = disk /\ memory' = memory /\ last' = last /\ lock' = lock
      /\ failed' = failed \cup {mine[p]} /\ at' = [at EXCEPT ![p] = "undo"]
  BY DEF CommitFails, To, Report, Writing, Reserving, Committing, disk, memory
<1>2. Owns(p) /\ Stage(p) /\ Holds(p) /\ ReaderInvariant(p)
  BY <1>1, WriterHas
<1>3. lock[p] >= RESERVED_LOCK /\ pos[p] = 0 /\ lock[p] \in 0 .. 4
  BY <1>1, <1>2, TypesOf DEF Holds, Reserving, Committing, ReaderInvariant, RESERVED_LOCK,
     EXCLUSIVE_LOCK
<1>4. Intact
  <2>1. at[p] = "writer" => journal.count = 0
    BY <1>2 DEF Holds, Reserving
  <2>2. at[p] \in {"sync_records", "header"} => journal.count = 0
    BY <1>2 DEF Stage
  <2>3. at[p] = "sync_header" => Intact
    BY <1>2 DEF Stage, PagerInvariant, DiskInvariant
  <2> QED
    BY <1>1, <2>1, <2>2, <2>3, AtRest
<1>5. lock' = [lock EXCEPT ![p] = lock[p]] /\ "undo" \in Steps
  BY <1>1 DEF PagerInvariant, Types, Steps
<1>6. PICK l : l = lock[p]
  OBVIOUS
<1>7. /\ Alone(p) /\ Types' /\ DiskInvariant'
      /\ \A q \in Others(p) : LocalInvariant(q)' /\ lock'[q] = lock[q]
      /\ at'[p] = "undo" /\ lock'[p] = l /\ Content' = Content
      /\ file' = file /\ maybe' = maybe /\ journal' = journal
      /\ jsync' = jsync /\ ghosts' = ghosts
      /\ cache' = cache /\ vers' = vers /\ dirty' = dirty /\ pos' = pos /\ mine' = mine
  <2>1. l \in 0 .. 4 /\ lock' = [lock EXCEPT ![p] = l]
    BY <1>3, <1>5, <1>6
  <2> QED
    BY <1>1, <1>5, <2>1, Quiet
<1>8. \A q \in Others(p) : Excludes(p, q)' /\ Excludes(q, p)'
  <2>1. lock'[p] \in Nat /\ lock'[p] <= lock[p]
    BY <1>3, <1>6, <1>7
  <2> QED
    BY <1>7, <2>1, Lowered
<1>9. Owns(p)'
  BY <1>1, <1>2, <1>7 DEF Owns, Below, PagesOf
<1>10. Stage(p)'
  BY <1>1, <1>2, <1>4, <1>7 DEF Stage, Reserving, Committing, Undoing, Intact, Durable
<1>11. Holds(p)'
  <2>1. lock[p] \in {RESERVED_LOCK, PENDING_LOCK} => journal.count = 0
    BY <1>2 DEF Holds
  <2> QED
    BY <1>3, <1>6, <1>7, <2>1 DEF Holds, Sharing, Reserving, Undoing, Committing, HotSteps
<1>12. ReaderInvariant(p)'
  BY <1>3, <1>7 DEF ReaderInvariant, Sharing, HotSteps
<1>13. LocalInvariant(p)'
  BY <1>7, <1>9, <1>10, <1>11, <1>12 DEF LocalInvariant, HotInvariant
<1> QED
  BY <1>7, <1>8, <1>13, Moved

LEMMA FinishFailsKeeps ==
    ASSUME PagerInvariant, NEW p \in Processes, FinishFails(p)
    PROVE  PagerInvariant'
<1>1. /\ at[p] = "delete" /\ at[p] \in Writing
      /\ disk' = disk /\ memory' = memory /\ last' = last
      /\ failed' = failed \cup {mine[p]}
      /\ lock' = [lock EXCEPT ![p] = SHARED_LOCK] /\ at' = [at EXCEPT ![p] = "error"]
  BY DEF FinishFails, Lock, To, Report, Writing, Committing, disk, memory
<1>2. Holds(p)
  BY <1>1, WriterHas
<1>3. lock[p] = EXCLUSIVE_LOCK
  BY <1>1, <1>2 DEF Holds, Committing
<1>4. "error" \in Steps /\ SHARED_LOCK \in 0 .. 4
  BY DEF Steps, SHARED_LOCK
<1>5. /\ Alone(p) /\ Types' /\ DiskInvariant'
      /\ \A q \in Others(p) : LocalInvariant(q)'
      /\ at'[p] = "error" /\ lock'[p] = SHARED_LOCK
  BY <1>1, <1>4, Quiet
<1>6. \A q \in Others(p) : Excludes(p, q)' /\ Excludes(q, p)'
  <2>1. lock'[p] \in Nat /\ lock'[p] <= lock[p]
    BY <1>3, <1>5 DEF SHARED_LOCK, EXCLUSIVE_LOCK
  <2> QED
    BY <1>5, <2>1, Lowered
<1>7. LocalInvariant(p)'
  <2>1. Holds(p)'
    BY <1>5 DEF Holds, Sharing, Reserving, Undoing, Committing, HotSteps, SHARED_LOCK,
         RESERVED_LOCK, PENDING_LOCK
  <2>2. ReaderInvariant(p)'
    BY <1>5 DEF ReaderInvariant, Sharing, HotSteps
  <2> QED
    BY <1>5, <2>1, <2>2, ReadersDoNotWrite DEF LocalInvariant, HotInvariant
<1> QED
  BY <1>5, <1>6, <1>7, Moved

-----------------------------------------------------------------------------
(***************************************************************************)
(* Steps on the disk, under a lock that keeps the others away.             *)
(***************************************************************************)
LEMMA DiskMoved ==
    ASSUME PagerInvariant, NEW p \in Processes, Moves(p),
           lock[p] >= RESERVED_LOCK, lock'[p] <= lock[p],
           journal'.count = 0 \/ journal'.count = journal.count \/ lock[p] = EXCLUSIVE_LOCK,
           Content' = Content, last' = last, failed' \subseteq 1 .. last',
           DiskTypes', DiskInvariant', LocalInvariant(p)'
    PROVE  PagerInvariant'
<1>1. /\ Alone(p)
      /\ at' \in [Processes -> Steps] /\ lock' \in [Processes -> 0 .. 4]
      /\ cache' \in [Processes -> Caches] /\ vers' \in [Processes -> Value]
      /\ dirty' \in [Processes -> SUBSET Pages] /\ pos' \in [Processes -> Nat]
      /\ mine' \in [Processes -> Value]
  BY MovesAlone
<1>2. Types'
  BY <1>1 DEF PagerInvariant, Types, NO_LOCK, EXCLUSIVE_LOCK
<1>3. \A q \in Others(p) : Excludes(p, q)' /\ Excludes(q, p)'
  <2>1. lock'[p] \in Nat
    BY <1>1
  <2> QED
    BY <1>1, <2>1, Lowered
<1>4. ASSUME NEW q \in Others(p)
      PROVE  LocalInvariant(q)'
  <2>1. Excludes(p, q)
    BY DEF PagerInvariant
  <2>2. lock[q] < RESERVED_LOCK /\ (lock[p] = EXCLUSIVE_LOCK => lock[q] = NO_LOCK)
    BY <2>1 DEF Excludes
  <2> QED
    BY <1>1, <2>2, OthersWait
<1> QED
  BY <1>1, <1>2, <1>3, <1>4, Moved

\* What p holds while it uses the disk alone.
LEMMA HasExclusive ==
    ASSUME PagerInvariant, NEW p \in Processes,
           at[p] \in Committing \cup HotSteps \cup {"play"}
    PROVE  lock[p] = EXCLUSIVE_LOCK /\ lock[p] >= RESERVED_LOCK /\ lock[p] <= lock[p]
BY TypesOf DEF LocalInvariant, Holds, EXCLUSIVE_LOCK, RESERVED_LOCK

\* A page with a record in a journal that is durable may be written.
LEMMA PageWritten ==
    ASSUME PagerInvariant, NEW p \in Processes, journal.count # 0, jsync = "all",
           NEW pg \in PagesOf(journal), NEW v \in 0 .. Torn,
           \/ WriteFile(pg, v)
           \/ file' = file /\ maybe' = maybe,
           journal' = journal, jsync' = jsync, ghosts' = ghosts, last' = last,
           \/ failed' = failed
           \/ at[p] \in Writing /\ failed' = failed \cup {mine[p]}
    PROVE  /\ Content' = Content /\ DiskTypes' /\ DiskInvariant' /\ failed' \subseteq 1 .. last'
           /\ \A q \in Pages : q # pg => file'[q] = file[q]
<1>1. /\ Sealed(journal) /\ ghosts = {}
      /\ journal \in Journals /\ Distinct(journal) /\ file \in Files /\ pg \in Pages
      /\ \A q \in Pages \ PagesOf(journal) : Durable(q)
  BY Halfway, ContentTypes DEF PagesOf
<1>2. maybe \in [Pages -> SUBSET (0 .. Torn)]
  BY DEF PagerInvariant, Types, DiskTypes
<1>3. /\ file' \in Files /\ maybe' \in [Pages -> SUBSET (0 .. Torn)]
      /\ \A q \in Pages : q # pg => file'[q] = file[q] /\ maybe'[q] = maybe[q]
  BY <1>1, <1>2 DEF Files, WriteFile
<1>4. \A q \in Pages \ PagesOf(journal) : file'[q] = file[q] /\ maybe'[q] = maybe[q]
  BY <1>3
<1>5. Content' = Content
  <2>1. Restored(file, journal) = Restored(file', journal)
    BY <1>1, <1>3, <1>4, RestoredSame
  <2> QED
    BY <2>1 DEF Content
<1>6. DiskTypes'
  BY <1>3 DEF PagerInvariant, Types, DiskTypes
<1>7. /\ failed' \subseteq 1 .. last'
      /\ Content \in [Pages -> 0 .. last'] /\ \A q \in DataPages : Content[q] \notin failed'
  BY SoundStays
<1>8. DiskInvariant'
  <2>1. (\A q \in Pages \ PagesOf(journal) : Durable(q))'
    BY <1>1, <1>4 DEF Durable
  <2>2. Sound(Content)'
    BY <1>5, <1>7 DEF Sound
  <2>3. DiskInvariant
    BY DEF PagerInvariant
  <2> QED
    BY <1>1, <2>1, <2>2, <2>3 DEF DiskInvariant
<1> QED
  BY <1>3, <1>5, <1>6, <1>7, <1>8

\* Everything that was written becomes durable.
LEMMA FileSynced ==
    ASSUME PagerInvariant, NEW p \in Processes, SyncFile,
           journal' = journal, jsync' = jsync, ghosts' = ghosts, last' = last, failed' = failed
    PROVE  /\ Content' = Content /\ DiskTypes' /\ DiskInvariant' /\ failed' \subseteq 1 .. last'
           /\ file' = file /\ \A pg \in Pages : Durable(pg)'
<1>1. file' = file /\ maybe' = [pg \in Pages |-> {file[pg]}] /\ file \in Files
  BY ContentTypes DEF SyncFile
<1>2. maybe' \in [Pages -> SUBSET (0 .. Torn)] /\ \A pg \in Pages : maybe'[pg] = {file'[pg]}
  BY <1>1 DEF Files
<1>3. Content' = Content
  BY <1>1 DEF Content
<1>4. DiskTypes'
  BY <1>1, <1>2 DEF PagerInvariant, Types, DiskTypes
<1>5. DiskInvariant /\ failed' \subseteq 1 .. last'
  BY DEF PagerInvariant, Types
<1>6. \A pg \in Pages : Durable(pg)'
  BY <1>2 DEF Durable
<1>7. Sound(Content)' /\ (\A g \in ghosts : Sealed(g) /\ Distinct(g) /\ Sound(Restored(file, g)))'
  BY <1>1, <1>3, <1>5 DEF DiskInvariant, Sound
<1>8. (jsync = "records" => Intact)'
  BY <1>1, <1>3, <1>5, <1>6 DEF DiskInvariant, Intact
<1> QED
  BY <1>1, <1>3, <1>4, <1>5, <1>6, <1>7, <1>8 DEF DiskInvariant

\* A step that changes the journal.
LEMMA JournalMoved ==
    ASSUME PagerInvariant, NEW p \in Processes, file' = file, maybe' = maybe, last' = last,
           failed' = failed, journal' \in Journals, Distinct(journal'), ghosts' \subseteq ghosts,
           jsync' \in {"none", "records", "all"}, Content' = Content,
           journal'.count = 0 => \A pg \in Pages : Durable(pg),
           journal'.count # 0 => /\ Sealed(journal') /\ jsync' # "none"
                                 /\ \A pg \in Pages \ PagesOf(journal') : Durable(pg),
           jsync' = "records" => Intact,
           jsync' # "none" => journal'.exists /\ ghosts' = {}
    PROVE  DiskTypes' /\ DiskInvariant' /\ failed' \subseteq 1 .. last'
<1>1. DiskInvariant /\ DiskTypes /\ failed' \subseteq 1 .. last'
  BY DEF PagerInvariant, Types
<1>2. DiskTypes'
  BY <1>1 DEF DiskTypes
<1>3. \A pg : Durable(pg)' <=> Durable(pg)
  BY DEF Durable
<1>4. Sound(Content)' /\ (\A g \in ghosts : Sealed(g) /\ Distinct(g) /\ Sound(Restored(file, g)))'
  BY <1>1 DEF DiskInvariant, Sound
<1>5. (jsync = "records" => Intact)'
  BY <1>3 DEF Intact
<1> QED
  BY <1>1, <1>2, <1>3, <1>4, <1>5 DEF DiskInvariant

LEMMA SyncHotJournalKeeps ==
    ASSUME PagerInvariant, NEW p \in Processes, SyncHotJournal(p)
    PROVE  PagerInvariant' /\ Content' = Content
<1>1. /\ at[p] = "sync_hot" /\ at' = [at EXCEPT ![p] = "play_hot"]
      /\ jsync' = IF jsync = "none" THEN jsync ELSE "all"
      /\ file' = file /\ maybe' = maybe /\ journal' = journal /\ ghosts' = ghosts
      /\ lock' = lock /\ last' = last /\ failed' = failed
      /\ cache' = cache /\ vers' = vers /\ dirty' = dirty /\ pos' = pos /\ mine' = mine
  BY DEF SyncHotJournal, To, memory
<1>2. /\ LocalInvariant(p) /\ at'[p] = "play_hot" /\ at[p] \in HotSteps
  BY <1>1, TypesOf DEF PagerInvariant, Types, HotSteps
<1>3. Content' = Content
  BY <1>1 DEF Content
<1>4. DiskTypes' /\ DiskInvariant' /\ failed' \subseteq 1 .. last'
  <2>1. DiskInvariant /\ DiskTypes
    BY DEF PagerInvariant, Types
  <2> QED
    BY <1>1, <1>3, <2>1, JournalMoved DEF DiskInvariant, DiskTypes
<1>5. Moves(p)
  <2>1. \E s \in Steps : at' = [at EXCEPT ![p] = s]
    BY <1>1 DEF Steps
  <2> QED
    BY <1>1, <2>1, Unmoved DEF Moves
<1>6. pos[p] = 0 /\ lock[p] = EXCLUSIVE_LOCK /\ lock[p] >= RESERVED_LOCK /\ lock[p] <= lock[p]
  BY <1>1, <1>2, HasExclusive DEF LocalInvariant, ReaderInvariant
<1>7. LocalInvariant(p)'
  <2>1. ReaderInvariant(p)'
    BY <1>1, <1>2, <1>3, <1>6 DEF LocalInvariant, ReaderInvariant, Stale, Agrees, HotSteps
  <2>2. HotInvariant(p)'
    <3>1. journal.count # 0 => jsync # "none"
      BY Halfway
    <3>2. \A k \in DOMAIN Records(journal) : ~(k <= 0)
      <4>1. CASE journal.count = 0
        <5>1. journal.recs \in Seq(Entries) /\ (IF 0 < Len(journal.recs) THEN 0 ELSE Len(journal.recs)) = 0
          BY ContentTypes DEF Journals
        <5>2. DOMAIN Records(journal) = 1 .. 0
          BY <4>1, <5>1 DEF Records
        <5> QED
          BY <5>2
      <4>2. CASE journal.count # 0
        BY <4>2, Halfway
      <4> QED
        BY <4>1, <4>2
    <3> QED
      BY <1>1, <1>2, <1>6, <3>1, <3>2 DEF HotInvariant
  <2>3. Holds(p)'
    BY <1>1, <1>2, <1>6 DEF Holds, Sharing, Reserving, Undoing, Committing, HotSteps,
         RESERVED_LOCK, PENDING_LOCK, EXCLUSIVE_LOCK
  <2>4. at'[p] \notin Writing
    BY <1>2, ReadersDoNotWrite DEF HotSteps
  <2> QED
    BY <2>1, <2>2, <2>3, <2>4 DEF LocalInvariant
<1> QED
  BY <1>1, <1>3, <1>4, <1>5, <1>6, <1>7, DiskMoved

-----------------------------------------------------------------------------
(***************************************************************************)
(* The steps of a writer on the journal.                                   *)
(***************************************************************************)
LEMMA JournalledKeeps ==
    ASSUME PagerInvariant, NEW p \in Processes, at[p] = "writer",
           NEW pg \in DOMAIN cache[p] \ dirty[p], NEW v \in Value, Journalled(p, pg, v),
           NEW s \in {"writer", "lock"}, at' = [at EXCEPT ![p] = s],
           s = "writer" => pg \in DataPages /\ v = last,
           s = "lock" => pg = Header /\ v = Content[Header] + 1
    PROVE  PagerInvariant' /\ Content' = Content
<1>1. at[p] \in Writing
  BY DEF Writing, Reserving
<1>2. /\ Owns(p) /\ Stage(p) /\ Holds(p) /\ ReaderInvariant(p) /\ cache[p] \in Caches
      /\ dirty[p] \subseteq Pages /\ dirty \in [Processes -> SUBSET Pages]
      /\ cache \in [Processes -> Caches] /\ at \in [Processes -> Steps]
  BY <1>1, WriterHas, TypesOf DEF PagerInvariant, Types
<1>3. lock[p] = RESERVED_LOCK /\ journal.count = 0 /\ pos[p] = 0
  BY <1>2 DEF Holds, Reserving, ReaderInvariant
<1>4. Content = file /\ Intact
  BY <1>3, AtRest
<1>5. PICK recs : recs = IF dirty[p] = {} THEN <<>> ELSE journal.recs
  OBVIOUS
<1>6. /\ recs \in Seq(Entries)
      /\ \A k \in DOMAIN recs : recs[k].page \in dirty[p] /\ recs[k].val = Content[recs[k].page]
      /\ \A q \in dirty[p] : \E k \in DOMAIN recs : recs[k].page = q
      /\ \A k, l \in DOMAIN recs : recs[k].page = recs[l].page => k = l
  <2>1. CASE dirty[p] = {}
    <3>1. recs = <<>>
      BY <1>5, <2>1
    <3> QED
      BY <3>1, <2>1
  <2>2. CASE dirty[p] # {}
    <3>1. recs = journal.recs
      BY <1>5, <2>2
    <3> QED
      BY <1>2, <2>2, <3>1, ContentTypes DEF Owns, PagesOf, Journals, Distinct
  <2> QED
    BY <2>1, <2>2
<1>7. PICK e : e = [page |-> pg, val |-> cache[p][pg]]
  OBVIOUS
<1>8. pg \in Pages /\ e \in Entries /\ e.page = pg /\ e.val = Content[pg]
  BY <1>2, <1>7, CacheOf DEF Entries, Owns
<1>9. PICK r : r = Append(recs, e)
  OBVIOUS
<1>10. /\ r \in Seq(Entries) /\ DOMAIN r = 1 .. Len(recs) + 1 /\ Len(recs) \in Nat
       /\ DOMAIN recs = 1 .. Len(recs)
       /\ r[Len(recs) + 1] = e /\ \A k \in DOMAIN recs : r[k] = recs[k]
  BY <1>6, <1>8, <1>9
<1>11. \A k \in DOMAIN r : k = Len(recs) + 1 \/ k \in DOMAIN recs
  BY <1>10
<1>12. Len(recs) + 1 \in DOMAIN r /\ \A k \in DOMAIN recs : k \in DOMAIN r
  BY <1>10
<1>13. /\ journal' = [exists |-> TRUE, count |-> 0, recs |-> r] /\ jsync' = "none"
       /\ cache' = [cache EXCEPT ![p] = Put(@, pg, v)]
       /\ dirty' = [dirty EXCEPT ![p] = @ \cup {pg}]
       /\ file' = file /\ maybe' = maybe /\ ghosts' = ghosts /\ lock' = lock /\ vers' = vers
       /\ pos' = pos /\ mine' = mine /\ last' = last /\ failed' = failed
  BY <1>5, <1>7, <1>9 DEF Journalled
<1>14. journal' \in Journals /\ journal'.exists /\ journal'.count = 0 /\ journal'.recs = r
  BY <1>10, <1>13 DEF Journals
<1>15. Distinct(journal')
  <2>1. \A k, l \in DOMAIN r : r[k].page = r[l].page => k = l
    BY <1>6, <1>8, <1>10, <1>11
  <2> QED
    BY <1>14, <2>1 DEF Distinct
<1>16. PagesOf(journal') = dirty[p] \cup {pg}
  <2>1. \A k \in DOMAIN r : r[k].page \in dirty[p] \cup {pg}
    BY <1>6, <1>8, <1>10, <1>11
  <2>2. \A q \in dirty[p] \cup {pg} : \E k \in DOMAIN r : r[k].page = q
    BY <1>6, <1>8, <1>10, <1>12
  <2> QED
    BY <1>14, <2>1, <2>2 DEF PagesOf
<1>17. \A k \in DOMAIN r : r[k].val = Content[r[k].page]
  BY <1>6, <1>8, <1>10, <1>11
<1>18. Content' = Content
  <2>1. Restored(file', journal') = file'
    BY <1>14, RestoredEmpty
  <2> QED
    BY <1>4, <1>13, <2>1 DEF Content
<1>19. DiskTypes' /\ DiskInvariant' /\ failed' \subseteq 1 .. last'
  <2>1. \A q \in Pages : Durable(q)
    BY <1>4 DEF Intact
  <2> QED
    BY <1>13, <1>14, <1>15, <1>18, <2>1, JournalMoved
<1>20. PICK c : c = Put(cache[p], pg, v)
  OBVIOUS
<1>21. /\ c \in Caches /\ DOMAIN c = DOMAIN cache[p] /\ c[pg] = v
       /\ \A q \in DOMAIN cache[p] : q # pg => c[q] = cache[p][q]
  <2>1. DOMAIN cache[p] \cup {pg} = DOMAIN cache[p]
    OBVIOUS
  <2> QED
    <3>1. /\ Put(cache[p], pg, v) \in Caches
          /\ DOMAIN Put(cache[p], pg, v) = DOMAIN cache[p] \cup {pg}
          /\ Put(cache[p], pg, v)[pg] = v
          /\ \A q \in DOMAIN cache[p] : q # pg => Put(cache[p], pg, v)[q] = cache[p][q]
      BY <1>2, <1>8, Cached
    <3> QED
      BY <1>20, <2>1, <3>1
<1>22. PICK d : d = dirty[p] \cup {pg}
  OBVIOUS
<1>23. /\ cache' = [cache EXCEPT ![p] = c] /\ dirty' = [dirty EXCEPT ![p] = d]
       /\ cache'[p] = c /\ dirty'[p] = d /\ at'[p] = s /\ d \in SUBSET Pages /\ s \in Steps
  BY <1>2, <1>8, <1>13, <1>20, <1>22 DEF Steps
<1>24. Moves(p)
  <2>1. \E t \in Steps : at' = [at EXCEPT ![p] = t]
    BY <1>23
  <2>2. \E t \in Caches : cache' = [cache EXCEPT ![p] = t]
    BY <1>21, <1>23
  <2>3. \E t \in SUBSET Pages : dirty' = [dirty EXCEPT ![p] = t]
    BY <1>23
  <2> QED
    BY <1>13, <2>1, <2>2, <2>3, Unmoved DEF Moves
<1>25. Owns(p)'
  <2>1. IsFiniteSet(d)
    BY <1>2, <1>22, FS_AddElement DEF Owns
  <2>2. d \subseteq DOMAIN c /\ Header \in DOMAIN c
    BY <1>2, <1>21, <1>22 DEF Owns
  <2>3. \A q \in DOMAIN c \ d : c[q] = Content[q]
    BY <1>2, <1>21, <1>22 DEF Owns
  <2>4. journal'.exists /\ PagesOf(journal') = d
    BY <1>14, <1>16, <1>22
  <2>5. \A k \in DOMAIN journal'.recs : journal'.recs[k].val = Content'[journal'.recs[k].page]
    BY <1>14, <1>17, <1>18
  <2>6. /\ mine'[p] = last' /\ Below(Content', last')
        /\ \A g \in ghosts' : Below(Restored(file', g), last')
    BY <1>2, <1>13, <1>18 DEF Owns
  <2>7. PagesOf(journal)' = dirty'[p]
    BY <1>23, <2>4 DEF PagesOf
  <2>8. Below(Content, last)' /\ (\A g \in ghosts : Below(Restored(file, g), last))'
    BY <2>6 DEF Below
  <2> QED
    BY <1>13, <1>18, <1>23, <2>1, <2>2, <2>3, <2>4, <2>5, <2>6, <2>7, <2>8 DEF Owns
<1>26. Stage(p)'
  <2>1. /\ Header \notin dirty[p] /\ vers[p] = Content[Header]
        /\ \A q \in dirty[p] : cache[p][q] = last /\ q \in DOMAIN cache[p]
        /\ last \notin failed
    BY <1>2 DEF Stage, Owns, Reserving
  <2>2. CASE s = "writer"
    <3>1. Header \notin d
      BY <2>1, <2>2, <1>22, Constants
    <3>2. \A q \in d : c[q] = last
      BY <2>1, <2>2, <1>21, <1>22
    <3> QED
      BY <1>13, <1>18, <1>23, <2>1, <2>2, <3>1, <3>2 DEF Stage, Reserving, Committing, Undoing
  <2>3. CASE s = "lock"
    <3>1. d # {} /\ Header \in d /\ c[Header] = Content[Header] + 1
      BY <2>3, <1>21, <1>22
    <3>2. \A q \in d \cap DataPages : c[q] = last
      BY <2>1, <2>3, <1>21, <1>22, Constants
    <3> QED
      BY <1>13, <1>18, <1>23, <2>1, <2>3, <3>1, <3>2 DEF Stage, Reserving, Committing, Undoing
  <2> QED
    BY <2>2, <2>3
<1>27. Holds(p)'
  BY <1>3, <1>13, <1>14, <1>23 DEF Holds, Sharing, Reserving, Undoing, Committing, HotSteps
<1>28. ReaderInvariant(p)'
  BY <1>3, <1>13, <1>23 DEF ReaderInvariant, Sharing, HotSteps
<1>29. LocalInvariant(p)'
  BY <1>23, <1>25, <1>26, <1>27, <1>28 DEF LocalInvariant, HotInvariant
<1>30. lock[p] >= RESERVED_LOCK /\ lock'[p] <= lock[p]
  BY <1>3, <1>13 DEF RESERVED_LOCK
<1> QED
  BY <1>13, <1>14, <1>18, <1>19, <1>24, <1>29, <1>30, DiskMoved

LEMMA WritesKeep ==
    ASSUME PagerInvariant, NEW p \in Processes,
           (\E pg \in DataPages : Write(p, pg)) \/ IncrCounter(p)
    PROVE  PagerInvariant' /\ Content' = Content
<1>1. at[p] = "writer" /\ at[p] \in Writing
  BY DEF Write, IncrCounter, Writing, Reserving
<1>2. Owns(p) /\ Stage(p) /\ mine[p] \in Value /\ mine[p] = last
  BY <1>1, WriterHas, TypesOf
<1>3. ASSUME NEW pg \in DataPages, Write(p, pg)
      PROVE  PagerInvariant' /\ Content' = Content
  <2>1. at' = [at EXCEPT ![p] = "writer"]
    BY <1>1, <1>3 DEF Write, PagerInvariant, Types
  <2>2. pg \in DOMAIN cache[p] \ dirty[p] /\ Journalled(p, pg, mine[p])
    BY <1>3 DEF Write
  <2> QED
    BY <1>1, <1>2, <2>1, <2>2, JournalledKeeps
<1>4. CASE IncrCounter(p)
  <2>1. Header \in DOMAIN cache[p] \ dirty[p] /\ vers[p] = Content[Header]
    BY <1>1, <1>2 DEF Owns, Stage
  <2>2. vers[p] + 1 \in Value
    <3>1. Content[Header] < last /\ Content[Header] \in Nat /\ last \in Value /\ MaxTxn \in Nat
      BY <1>2, Constants, ContentTypes DEF Owns, Below
    <3> QED
      BY <2>1, <3>1 DEF Value
  <2>3. Journalled(p, Header, vers[p] + 1) /\ at' = [at EXCEPT ![p] = "lock"]
    BY <1>4 DEF IncrCounter, To
  <2> QED
    BY <1>1, <2>1, <2>2, <2>3, JournalledKeeps
<1> QED
  BY <1>3, <1>4

LEMMA RankTypes ==
    ASSUME PagerInvariant, NEW p \in Processes, at[p] \in Writing
    PROVE  /\ IsFiniteSet(dirty[p]) /\ Cardinality(dirty[p]) \in Nat /\ dirty[p] \subseteq Nat
           /\ \A pg : Rank(p, pg) \in Nat
<1>1. IsFiniteSet(dirty[p]) /\ dirty[p] \subseteq Nat
  BY WriterHas, TypesOf, Constants DEF Owns
<1>2. ASSUME NEW pg
      PROVE  Rank(p, pg) \in Nat
  <2>1. IsFiniteSet({q \in dirty[p] : q < pg})
    BY <1>1, FS_Subset
  <2> QED
    BY <2>1, FS_CardinalityType DEF Rank
<1> QED
  BY <1>1, <1>2, FS_CardinalityType

\* The owner keeps what it has: the journal keeps its records.
LEMMA OwnsStays ==
    ASSUME PagerInvariant, NEW p \in Processes, at[p] \in Writing,
           cache' = cache, dirty' = dirty, mine' = mine, last' = last, Content' = Content,
           \/ ghosts' = {}
           \/ file' = file /\ ghosts' = ghosts,
           journal'.recs = journal.recs, journal'.exists = journal.exists
    PROVE  Owns(p)'
<1>1. Owns(p)
  BY WriterHas
<1>2. PagesOf(journal)' = PagesOf(journal)
  BY DEF PagesOf
<1>3. (\A g \in ghosts : Below(Restored(file, g), last))'
  BY <1>1 DEF Owns, Below
<1> QED
  BY <1>1, <1>2, <1>3 DEF Owns, Below

\* The records of a transaction, and how it would be rolled back.
LEMMA RecordsOf ==
    ASSUME PagerInvariant, NEW p \in Processes, at[p] \in Writing, dirty[p] # {}
    PROVE  /\ journal.exists /\ PagesOf(journal) = dirty[p] /\ journal.recs \in Seq(Entries)
           /\ DOMAIN journal.recs = 1 .. Len(journal.recs) /\ Len(journal.recs) \in Nat \ {0}
           /\ \A k \in DOMAIN journal.recs :
                 /\ journal.recs[k].page \in dirty[p]
                 /\ journal.recs[k].val = Content[journal.recs[k].page]
<1>1. /\ journal.exists /\ PagesOf(journal) = dirty[p] /\ journal.recs \in Seq(Entries)
      /\ \A k \in DOMAIN journal.recs : journal.recs[k].val = Content[journal.recs[k].page]
  BY WriterHas, ContentTypes DEF Owns, Journals
<1>2. DOMAIN journal.recs = 1 .. Len(journal.recs) /\ Len(journal.recs) \in Nat
  BY <1>1
<1>3. Len(journal.recs) # 0
  <2>1. PICK k \in DOMAIN journal.recs : TRUE
    BY <1>1 DEF PagesOf
  <2> QED
    BY <1>2, <2>1
<1> QED
  BY <1>1, <1>2, <1>3 DEF PagesOf

LEMMA SyncRecordsKeeps ==
    ASSUME PagerInvariant, NEW p \in Processes, SyncRecords(p)
    PROVE  PagerInvariant' /\ Content' = Content
<1>1. /\ at[p] = "sync_records" /\ at[p] \in Writing /\ at[p] \in Committing
      /\ at' = [at EXCEPT ![p] = "header"] /\ jsync' = "records" /\ ghosts' = {}
      /\ file' = file /\ maybe' = maybe /\ journal' = journal
      /\ lock' = lock /\ last' = last /\ failed' = failed
      /\ cache' = cache /\ vers' = vers /\ dirty' = dirty /\ pos' = pos /\ mine' = mine
  BY DEF SyncRecords, To, memory, Writing, Committing
<1>2. /\ Owns(p) /\ Stage(p) /\ Holds(p) /\ ReaderInvariant(p) /\ at'[p] = "header"
  BY <1>1, WriterHas DEF PagerInvariant, Types
<1>3. /\ dirty[p] # {} /\ journal.count = 0 /\ pos[p] = 0
  BY <1>1, <1>2 DEF Stage, ReaderInvariant
<1>4. journal.exists /\ Intact /\ Content' = Content
  BY <1>1, <1>3, AtRest, RecordsOf DEF Content
<1>5. DiskTypes' /\ DiskInvariant' /\ failed' \subseteq 1 .. last'
  <2>1. journal' \in Journals /\ Distinct(journal') /\ \A q \in Pages : Durable(q)
    BY <1>1, <1>4, ContentTypes DEF Intact
  <2> QED
    BY <1>1, <1>3, <1>4, <2>1, JournalMoved
<1>6. Moves(p)
  <2>1. \E s \in Steps : at' = [at EXCEPT ![p] = s]
    BY <1>1 DEF Steps
  <2> QED
    BY <1>1, <2>1, Unmoved DEF Moves
<1>7. Owns(p)'
  BY <1>1, <1>4, OwnsStays
<1>8. Stage(p)'
  BY <1>1, <1>2, <1>3, <1>4 DEF Stage, Reserving, Committing, Undoing
<1>9. lock[p] = EXCLUSIVE_LOCK /\ lock[p] >= RESERVED_LOCK /\ lock'[p] <= lock[p]
  BY <1>1, HasExclusive
<1>10. Holds(p)' /\ ReaderInvariant(p)'
  BY <1>1, <1>2, <1>3, <1>9 DEF Holds, ReaderInvariant, Sharing, Reserving, Undoing, Committing,
       HotSteps, RESERVED_LOCK, PENDING_LOCK, EXCLUSIVE_LOCK
<1>11. LocalInvariant(p)'
  BY <1>2, <1>7, <1>8, <1>10 DEF LocalInvariant, HotInvariant
<1> QED
  BY <1>1, <1>4, <1>5, <1>6, <1>9, <1>11, DiskMoved

LEMMA WriteHeaderKeeps ==
    ASSUME PagerInvariant, NEW p \in Processes, WriteHeader(p)
    PROVE  PagerInvariant' /\ Content' = Content
<1>1. /\ at[p] = "header" /\ at[p] \in Writing /\ at[p] \in Committing
      /\ at' = [at EXCEPT ![p] = "sync_header"]
      /\ journal' = [journal EXCEPT !.count = Len(journal.recs)]
      /\ file' = file /\ maybe' = maybe /\ jsync' = jsync /\ ghosts' = ghosts
      /\ lock' = lock /\ last' = last /\ failed' = failed
      /\ cache' = cache /\ vers' = vers /\ dirty' = dirty /\ pos' = pos /\ mine' = mine
  BY DEF WriteHeader, To, memory, Writing, Committing
<1>2. /\ Owns(p) /\ Stage(p) /\ Holds(p) /\ ReaderInvariant(p) /\ at'[p] = "sync_header"
  BY <1>1, WriterHas DEF PagerInvariant, Types
<1>3. /\ dirty[p] # {} /\ journal.count = 0 /\ pos[p] = 0 /\ jsync = "records"
  BY <1>1, <1>2 DEF Stage, ReaderInvariant
<1>4. Content = file /\ Intact /\ journal \in Journals /\ Distinct(journal) /\ file \in Files
  BY <1>3, AtRest, ContentTypes
<1>5. /\ journal.exists /\ Len(journal.recs) \in Nat \ {0}
      /\ \A k \in DOMAIN journal.recs : journal.recs[k].val = Content[journal.recs[k].page]
  BY <1>1, <1>3, RecordsOf
<1>6. /\ journal' \in Journals /\ journal'.recs = journal.recs /\ journal'.exists
      /\ journal'.count = Len(journal.recs)
  BY <1>1, <1>4, <1>5 DEF Journals
<1>7. Distinct(journal') /\ Sealed(journal')
  BY <1>4, <1>5, <1>6 DEF Distinct, Sealed
<1>8. Content' = Content
  <2>1. \A k \in DOMAIN journal'.recs : file[journal'.recs[k].page] = journal'.recs[k].val
    BY <1>4, <1>5, <1>6
  <2>2. Restored(file, journal') = file
    BY <1>4, <1>6, <1>7, <2>1, RestoredFixed
  <2> QED
    BY <1>1, <1>4, <2>2 DEF Content
<1>9. DiskTypes' /\ DiskInvariant' /\ failed' \subseteq 1 .. last'
  <2>1. \A q \in Pages : Durable(q)
    BY <1>4 DEF Intact
  <2>2. ghosts = {}
    BY <1>3 DEF PagerInvariant, DiskInvariant
  <2> QED
    BY <1>1, <1>3, <1>4, <1>6, <1>7, <1>8, <2>1, <2>2, JournalMoved
<1>10. Moves(p)
  <2>1. \E s \in Steps : at' = [at EXCEPT ![p] = s]
    BY <1>1 DEF Steps
  <2> QED
    BY <1>1, <2>1, Unmoved DEF Moves
<1>11. Owns(p)'
  BY <1>1, <1>5, <1>6, <1>8, OwnsStays
<1>12. Stage(p)'
  BY <1>1, <1>2, <1>3, <1>5, <1>6, <1>8 DEF Stage, Reserving, Committing, Undoing
<1>13. lock[p] = EXCLUSIVE_LOCK /\ lock[p] >= RESERVED_LOCK /\ lock'[p] <= lock[p]
  BY <1>1, HasExclusive
<1>14. Holds(p)' /\ ReaderInvariant(p)'
  BY <1>1, <1>2, <1>3, <1>13 DEF Holds, ReaderInvariant, Sharing, Reserving, Undoing, Committing,
       HotSteps, RESERVED_LOCK, PENDING_LOCK, EXCLUSIVE_LOCK
<1>15. LocalInvariant(p)'
  BY <1>2, <1>11, <1>12, <1>14 DEF LocalInvariant, HotInvariant
<1> QED
  BY <1>1, <1>8, <1>9, <1>10, <1>13, <1>15, DiskMoved

LEMMA SyncHeaderKeeps ==
    ASSUME PagerInvariant, NEW p \in Processes, SyncHeader(p)
    PROVE  PagerInvariant' /\ Content' = Content
<1>1. /\ at[p] = "sync_header" /\ at[p] \in Writing /\ at[p] \in Committing
      /\ at' = [at EXCEPT ![p] = "write_file"] /\ jsync' = "all"
      /\ file' = file /\ maybe' = maybe /\ journal' = journal /\ ghosts' = ghosts
      /\ lock' = lock /\ last' = last /\ failed' = failed
      /\ cache' = cache /\ vers' = vers /\ dirty' = dirty /\ pos' = pos /\ mine' = mine
  BY DEF SyncHeader, To, memory, Writing, Committing
<1>2. /\ Owns(p) /\ Stage(p) /\ Holds(p) /\ ReaderInvariant(p) /\ at'[p] = "write_file"
  BY <1>1, WriterHas DEF PagerInvariant, Types
<1>3. /\ dirty[p] # {} /\ pos[p] = 0 /\ jsync = "records"
  BY <1>1, <1>2 DEF Stage, ReaderInvariant
<1>4. Content' = Content
  BY <1>1 DEF Content
<1>5. journal \in Journals /\ Distinct(journal) /\ DiskInvariant /\ journal.exists /\ ghosts = {}
  BY <1>3, ContentTypes DEF PagerInvariant, DiskInvariant
<1>6. DiskTypes' /\ DiskInvariant' /\ failed' \subseteq 1 .. last'
  <2>1. \A q \in Pages : Durable(q)
    BY <1>3, <1>5 DEF DiskInvariant, Intact
  <2>2. journal.count # 0 => Sealed(journal)
    BY <1>5 DEF DiskInvariant
  <2> QED
    BY <1>1, <1>4, <1>5, <2>1, <2>2, JournalMoved
<1>7. Moves(p)
  <2>1. \E s \in Steps : at' = [at EXCEPT ![p] = s]
    BY <1>1 DEF Steps
  <2> QED
    BY <1>1, <2>1, Unmoved DEF Moves
<1>8. Owns(p)'
  BY <1>1, <1>4, OwnsStays
<1>9. Stage(p)'
  <2>1. \A pg : ~(Rank(p, pg)' < pos'[p])
    <3>1. \A pg : Rank(p, pg)' = Rank(p, pg) /\ ~(Rank(p, pg) < 0)
      BY <1>1, RankTypes DEF Rank
    <3> QED
      BY <1>1, <1>3, <3>1
  <2> QED
    BY <1>1, <1>2, <1>3, <1>4, <2>1 DEF Stage, Reserving, Committing, Undoing
<1>10. lock[p] = EXCLUSIVE_LOCK /\ lock[p] >= RESERVED_LOCK /\ lock'[p] <= lock[p]
  BY <1>1, HasExclusive
<1>11. Holds(p)' /\ ReaderInvariant(p)'
  BY <1>1, <1>2, <1>10 DEF Holds, ReaderInvariant, Sharing, Reserving, Undoing, Committing,
       HotSteps, RESERVED_LOCK, PENDING_LOCK, EXCLUSIVE_LOCK
<1>12. LocalInvariant(p)'
  BY <1>2, <1>8, <1>9, <1>11 DEF LocalInvariant, HotInvariant
<1> QED
  BY <1>1, <1>4, <1>6, <1>7, <1>10, <1>12, DiskMoved

-----------------------------------------------------------------------------
(***************************************************************************)
(* The order in which the pages are written.                               *)
(***************************************************************************)
\* Every number below the size of a set of numbers is the rank of one of them.
LEMMA RankExists ==
    ASSUME NEW S, S \subseteq Nat, IsFiniteSet(S), NEW n \in Nat, n < Cardinality(S)
    PROVE  /\ \E x \in S : Cardinality({q \in S : q < x}) = n
           /\ \A x, y \in S : Cardinality({q \in S : q < x}) = Cardinality({q \in S : q < y})
                  => x = y
<1> DEFINE below(x) == {q \in S : q < x}
           T == 0 .. Cardinality(S) - 1
           f == [x \in S |-> Cardinality(below(x))]
<1>1. Cardinality(S) \in Nat
  BY FS_CardinalityType
<1>2. \A x \in S : IsFiniteSet(below(x)) /\ Cardinality(below(x)) \in Nat
  BY FS_Subset, FS_CardinalityType
<1>3. ASSUME NEW x \in S
      PROVE  f[x] \in T
  <2>1. Cardinality(below(x)) <= Cardinality(S) /\ (Cardinality(S) = Cardinality(below(x)) => S = below(x))
    BY FS_Subset
  <2>2. x \notin below(x)
    OBVIOUS
  <2>3. Cardinality(below(x)) < Cardinality(S)
    BY <1>1, <1>2, <2>1, <2>2
  <2> QED
    BY <1>1, <1>2, <2>3
<1>4. ASSUME NEW x \in S, NEW y \in S, x < y
      PROVE  f[x] # f[y]
  <2>1. below(x) \in SUBSET below(y) /\ x \in below(y) /\ x \notin below(x)
    <3>1. \A q \in S : q \in Nat
      OBVIOUS
    <3>2. x \in Nat /\ y \in Nat
      BY <3>1
    <3>3. \A q \in S : q < x => q < y
      BY <1>4, <3>1, <3>2
    <3>4. ~(x < x)
      BY <3>2
    <3> QED
      BY <1>4, <3>3, <3>4
  <2>2. Cardinality(below(x)) # Cardinality(below(y))
    BY <1>2, <2>1, FS_Subset
  <2> QED
    BY <2>2
<1>5. \A x, y \in S : f[x] = f[y] => x = y
  <2>1. \A x, y \in S : x = y \/ x < y \/ y < x
    OBVIOUS
  <2> QED
    BY <1>4, <2>1
<1>6. f \in Injection(S, T)
  <2>1. f \in [S -> T]
    BY <1>3
  <2> HIDE DEF f
  <2> QED
    BY <1>5, <2>1 DEF Injection, IsInjective
<1>7. IsFiniteSet(T) /\ Cardinality(T) = Cardinality(S)
  <2>1. PICK m : m = Cardinality(S) - 1
    OBVIOUS
  <2>2. m \in Int /\ (IF 0 > m THEN 0 ELSE m - 0 + 1) = Cardinality(S)
    BY <1>1, <2>1
  <2>3. 0 \in Int /\ m \in Int
    BY <2>2
  <2>4. IsFiniteSet(0 .. m) /\ Cardinality(0 .. m) = IF 0 > m THEN 0 ELSE m - 0 + 1
    BY ONLY <2>3, FS_Interval
  <2> QED
    BY <2>1, <2>2, <2>4
<1>8. f \in Surjection(S, T)
  BY <1>6, <1>7, FS_Injection
<1>9. n \in T
  BY <1>1
<1>10. \E x \in S : f[x] = n
  BY <1>8, <1>9 DEF Surjection
<1> QED
  BY <1>5, <1>10

LEMMA NextDirtyIs ==
    ASSUME PagerInvariant, NEW p \in Processes, at[p] \in Writing,
           pos[p] < Cardinality(dirty[p])
    PROVE  /\ NextDirty(p) \in dirty[p]
           /\ \A pg \in dirty[p] : Rank(p, pg) < pos[p] + 1 => Rank(p, pg) < pos[p] \/ pg = NextDirty(p)
<1>1. /\ IsFiniteSet(dirty[p]) /\ Cardinality(dirty[p]) \in Nat /\ dirty[p] \subseteq Nat
      /\ \A pg : Rank(p, pg) \in Nat
      /\ pos[p] \in Nat
  BY RankTypes, TypesOf
<1>2. /\ \E x \in dirty[p] : Cardinality({q \in dirty[p] : q < x}) = pos[p]
      /\ \A x, y \in dirty[p] : Rank(p, x) = Rank(p, y) => x = y
  BY <1>1, RankExists DEF Rank
<1>3. NextDirty(p) \in dirty[p] /\ Rank(p, NextDirty(p)) = pos[p]
  BY <1>2 DEF NextDirty, Rank
<1>4. \A pg \in dirty[p] : Rank(p, pg) = pos[p] => pg = NextDirty(p)
  BY <1>2, <1>3
<1>5. \A pg \in dirty[p] : Rank(p, pg) < pos[p] + 1 => Rank(p, pg) < pos[p] \/ Rank(p, pg) = pos[p]
  BY <1>1
<1> QED
  BY <1>3, <1>4, <1>5

\* Every rank is below their number.
LEMMA RankBelow ==
    ASSUME PagerInvariant, NEW p \in Processes, at[p] \in Writing, NEW pg \in dirty[p]
    PROVE  Rank(p, pg) < Cardinality(dirty[p])
<1>1. /\ IsFiniteSet(dirty[p]) /\ Cardinality(dirty[p]) \in Nat /\ dirty[p] \subseteq Nat
      /\ Rank(p, pg) \in Nat
  BY RankTypes
<1>2. PICK b : b = {q \in dirty[p] : q < pg}
  OBVIOUS
<1>3. b \in SUBSET dirty[p] /\ pg \notin b /\ Rank(p, pg) = Cardinality(b)
  BY <1>1, <1>2 DEF Rank
<1>4. Cardinality(b) <= Cardinality(dirty[p]) /\ Cardinality(b) # Cardinality(dirty[p])
  BY <1>1, <1>3, FS_Subset
<1> QED
  BY <1>1, <1>3, <1>4

-----------------------------------------------------------------------------
(***************************************************************************)
(* The steps of a writer on the file.                                      *)
(***************************************************************************)
LEMMA WritePageKeeps ==
    ASSUME PagerInvariant, NEW p \in Processes, WritePage(p)
    PROVE  PagerInvariant' /\ Content' = Content
<1>1. at[p] = "write_file" /\ at[p] \in Writing /\ at[p] \in Committing
  BY DEF WritePage, Writing, Committing
<1>2. /\ Owns(p) /\ Stage(p) /\ Holds(p) /\ ReaderInvariant(p) /\ dirty[p] \subseteq Pages
      /\ pos \in [Processes -> Nat] /\ vers \in [Processes -> Value]
  BY <1>1, WriterHas, TypesOf DEF PagerInvariant, Types
<1>3. PICK pg : pg = NextDirty(p)
  OBVIOUS
<1>4. PICK v : v = cache[p][pg]
  OBVIOUS
<1>5. /\ WriteFile(pg, v) /\ pos' = [pos EXCEPT ![p] = @ + 1]
      /\ vers' = [vers EXCEPT ![p] = IF pg = Header THEN v ELSE @]
      /\ journal' = journal /\ jsync' = jsync /\ ghosts' = ghosts
      /\ at' = at /\ lock' = lock /\ last' = last /\ failed' = failed
      /\ cache' = cache /\ dirty' = dirty /\ mine' = mine
  BY <1>3, <1>4 DEF WritePage
<1>6. /\ pg \in dirty[p]
      /\ \A q \in dirty[p] : Rank(p, q) < pos[p] + 1 => Rank(p, q) < pos[p] \/ q = pg
  <2>1. pos[p] < Cardinality(dirty[p])
    BY DEF WritePage
  <2> QED
    BY <1>1, <1>3, <2>1, NextDirtyIs
<1>7. /\ dirty[p] # {} /\ Header \in dirty[p] /\ journal.count # 0 /\ jsync = "all"
      /\ \A q \in dirty[p] : Rank(p, q) < pos[p] =>
             file[q] = cache[p][q] /\ (q = Header => vers[p] = cache[p][Header])
      /\ cache[p][Header] = Content[Header] + 1
      /\ \A q \in dirty[p] \cap DataPages : cache[p][q] = last
      /\ last \notin failed
  BY <1>1, <1>2 DEF Stage, Committing
<1>8. v \in Value /\ v \in 0 .. Torn /\ pg \in PagesOf(journal) /\ ghosts = {}
  <2>1. pg \in DOMAIN cache[p]
    BY <1>2, <1>6 DEF Owns
  <2>2. cache[p] \in [DOMAIN cache[p] -> Value]
    BY CacheOf
  <2>3. v \in Value
    BY <1>4, <2>1, <2>2
  <2>4. pg \in PagesOf(journal) /\ ghosts = {}
    BY <1>1, <1>6, <1>7, RecordsOf, Halfway
  <2> QED
    BY <2>3, <2>4, Constants
<1>9. /\ Content' = Content /\ DiskTypes' /\ DiskInvariant' /\ failed' \subseteq 1 .. last'
      /\ \A q \in Pages : q # pg => file'[q] = file[q]
  BY <1>5, <1>7, <1>8, PageWritten
<1>10. file'[pg] = v
  BY <1>2, <1>5, <1>6, ContentTypes DEF WriteFile, Files
<1>11. pos'[p] = pos[p] + 1 /\ pos[p] \in Nat /\ vers'[p] = IF pg = Header THEN v ELSE vers[p]
  BY <1>2, <1>5
<1>12. Moves(p)
  <2>1. \E n \in Nat : pos' = [pos EXCEPT ![p] = n]
    <3>1. pos' = [pos EXCEPT ![p] = pos[p] + 1] /\ pos[p] + 1 \in Nat
      BY <1>5, <1>11
    <3> QED
      BY <3>1
  <2>2. \E n \in Value : vers' = [vers EXCEPT ![p] = n]
    <3>1. vers[p] \in Value
      BY <1>2
    <3> QED
      BY <1>5, <1>8, <3>1
  <2> QED
    BY <1>5, <2>1, <2>2, Unmoved DEF Moves
<1>13. Owns(p)'
  BY <1>1, <1>5, <1>8, <1>9, OwnsStays
<1>14. Stage(p)'
  <2>1. \A q \in dirty[p] : Rank(p, q)' < pos'[p] =>
             file'[q] = cache[p][q] /\ (q = Header => vers'[p] = cache[p][Header])
    <3>1. \A q : Rank(p, q)' = Rank(p, q)
      BY <1>5 DEF Rank
    <3>2. ASSUME NEW q \in dirty[p], Rank(p, q) < pos[p] + 1
          PROVE  file'[q] = cache[p][q] /\ (q = Header => vers'[p] = cache[p][Header])
      <4>1. CASE q = pg
        BY <1>4, <1>10, <1>11, <4>1
      <4>2. CASE q # pg
        BY <1>2, <1>6, <1>7, <1>9, <1>11, <3>2, <4>2
      <4> QED
        BY <4>1, <4>2
    <3> QED
      BY <1>11, <3>1, <3>2
  <2> QED
    BY <1>1, <1>5, <1>7, <1>9, <2>1 DEF Stage, Reserving, Committing, Undoing
<1>15. lock[p] = EXCLUSIVE_LOCK /\ lock[p] >= RESERVED_LOCK /\ lock'[p] <= lock[p]
  BY <1>1, <1>5, HasExclusive
<1>16. Holds(p)' /\ ReaderInvariant(p)'
  BY <1>1, <1>2, <1>5, <1>15 DEF Holds, ReaderInvariant, Sharing, Reserving, Undoing, Committing,
       HotSteps, RESERVED_LOCK, PENDING_LOCK, EXCLUSIVE_LOCK
<1>17. LocalInvariant(p)'
  BY <1>1, <1>5, <1>13, <1>14, <1>16 DEF LocalInvariant, HotInvariant
<1> QED
  BY <1>5, <1>9, <1>12, <1>15, <1>17, DiskMoved

LEMMA SyncPagesKeeps ==
    ASSUME PagerInvariant, NEW p \in Processes, SyncPages(p)
    PROVE  PagerInvariant' /\ Content' = Content
<1>1. /\ at[p] = "write_file" /\ at[p] \in Writing /\ at[p] \in Committing
      /\ pos[p] = Cardinality(dirty[p]) /\ SyncFile
      /\ pos' = [pos EXCEPT ![p] = 0] /\ at' = [at EXCEPT ![p] = "delete"]
      /\ journal' = journal /\ jsync' = jsync /\ ghosts' = ghosts
      /\ lock' = lock /\ last' = last /\ failed' = failed
      /\ cache' = cache /\ vers' = vers /\ dirty' = dirty /\ mine' = mine
  BY DEF SyncPages, To, Writing, Committing
<1>2. /\ Owns(p) /\ Stage(p) /\ Holds(p) /\ at'[p] = "delete" /\ pos'[p] = 0
  BY <1>1, WriterHas DEF PagerInvariant, Types
<1>3. /\ Content' = Content /\ DiskTypes' /\ DiskInvariant' /\ failed' \subseteq 1 .. last'
      /\ file' = file /\ \A pg \in Pages : Durable(pg)'
  BY <1>1, FileSynced
<1>4. /\ dirty[p] # {} /\ Header \in dirty[p] /\ journal.count # 0 /\ jsync = "all"
      /\ \A q \in dirty[p] : Rank(p, q) < pos[p] =>
             file[q] = cache[p][q] /\ (q = Header => vers[p] = cache[p][Header])
      /\ cache[p][Header] = Content[Header] + 1
      /\ \A q \in dirty[p] \cap DataPages : cache[p][q] = last
  BY <1>1, <1>2 DEF Stage, Committing
<1>5. \A q \in dirty[p] : file[q] = cache[p][q] /\ (q = Header => vers[p] = cache[p][Header])
  BY <1>1, <1>4, RankBelow
<1>6. Moves(p)
  <2>1. \E s \in Steps : at' = [at EXCEPT ![p] = s]
    BY <1>1 DEF Steps
  <2>2. \E n \in Nat : pos' = [pos EXCEPT ![p] = n]
    BY <1>1
  <2> QED
    BY <1>1, <2>1, <2>2, Unmoved DEF Moves
<1>7. Owns(p)'
  BY <1>1, <1>3, OwnsStays
<1>8. Stage(p)'
  BY <1>1, <1>2, <1>3, <1>4, <1>5 DEF Stage, Reserving, Committing, Undoing
<1>9. lock[p] = EXCLUSIVE_LOCK /\ lock[p] >= RESERVED_LOCK /\ lock'[p] <= lock[p]
  BY <1>1, HasExclusive
<1>10. Holds(p)' /\ ReaderInvariant(p)'
  BY <1>1, <1>2, <1>9 DEF Holds, ReaderInvariant, Sharing, Reserving, Undoing, Committing,
       HotSteps, RESERVED_LOCK, PENDING_LOCK, EXCLUSIVE_LOCK
<1>11. LocalInvariant(p)'
  BY <1>2, <1>7, <1>8, <1>10 DEF LocalInvariant, HotInvariant
<1> QED
  BY <1>1, <1>3, <1>6, <1>9, <1>11, DiskMoved

LEMMA WriteFailsKeeps ==
    ASSUME PagerInvariant, NEW p \in Processes, WriteFails(p)
    PROVE  PagerInvariant' /\ Content' = Content
<1>1. /\ at[p] = "write_file" /\ at[p] \in Writing /\ at[p] \in Committing
      /\ pos' = [pos EXCEPT ![p] = 0] /\ at' = [at EXCEPT ![p] = "play"]
      /\ journal' = journal /\ jsync' = jsync /\ ghosts' = ghosts
      /\ lock' = lock /\ last' = last /\ failed' = failed \cup {mine[p]}
      /\ cache' = cache /\ dirty' = dirty /\ mine' = mine
  BY DEF WriteFails, To, Report, Writing, Committing
<1>2. /\ Owns(p) /\ Stage(p) /\ Holds(p) /\ at'[p] = "play" /\ pos'[p] = 0
  BY <1>1, WriterHas DEF PagerInvariant, Types
<1>3. dirty[p] # {} /\ Header \in dirty[p] /\ journal.count # 0 /\ jsync = "all"
  BY <1>1, <1>2 DEF Stage
<1>4. PICK pg : pg = IF pos[p] < Cardinality(dirty[p]) THEN NextDirty(p) ELSE Header
  OBVIOUS
<1>5. pg \in PagesOf(journal)
  <2>1. pg \in dirty[p]
    BY <1>1, <1>3, <1>4, NextDirtyIs
  <2> QED
    BY <1>1, <1>3, <2>1, RecordsOf
<1>6. WriteFile(pg, Torn) \/ (file' = file /\ maybe' = maybe)
  BY <1>1, <1>4 DEF WriteFails, PartOf
<1>7. Torn \in 0 .. Torn /\ ghosts = {}
  BY <1>3, Constants, Halfway
<1>8. Content' = Content /\ DiskTypes' /\ DiskInvariant' /\ failed' \subseteq 1 .. last'
  BY <1>1, <1>3, <1>5, <1>6, <1>7, PageWritten
<1>9. Moves(p)
  <2>1. \E s \in Steps : at' = [at EXCEPT ![p] = s]
    BY <1>1 DEF Steps
  <2>2. \E n \in Nat : pos' = [pos EXCEPT ![p] = n]
    BY <1>1
  <2>3. \E n \in Value : vers' = [vers EXCEPT ![p] = n]
    <3>1. PICK n : n = IF pos[p] < Cardinality(dirty[p]) /\ NextDirty(p) = Header
                       THEN cache[p][Header] ELSE vers[p]
      OBVIOUS
    <3>2. vers' = [vers EXCEPT ![p] = n]
      BY <3>1 DEF WriteFails
    <3>3. cache[p][Header] \in Value /\ vers[p] \in Value
      BY <1>2, CacheOf, TypesOf DEF Owns
    <3> QED
      BY <3>1, <3>2, <3>3
  <2> QED
    BY <1>1, <2>1, <2>2, <2>3, Unmoved DEF Moves
<1>10. Owns(p)'
  BY <1>1, <1>7, <1>8, OwnsStays
<1>11. Stage(p)'
  <2>1. \A k \in DOMAIN journal.recs : ~(k <= 0)
    BY <1>1, <1>3, RecordsOf
  <2> QED
    BY <1>1, <1>2, <1>3, <1>8, <2>1 DEF Stage, Reserving, Committing, Undoing
<1>12. lock[p] = EXCLUSIVE_LOCK /\ lock[p] >= RESERVED_LOCK /\ lock'[p] <= lock[p]
  BY <1>1, HasExclusive
<1>13. Holds(p)' /\ ReaderInvariant(p)'
  BY <1>1, <1>2, <1>12 DEF Holds, ReaderInvariant, Sharing, Reserving, Undoing, Committing,
       HotSteps, RESERVED_LOCK, PENDING_LOCK, EXCLUSIVE_LOCK
<1>14. LocalInvariant(p)'
  BY <1>2, <1>10, <1>11, <1>13 DEF LocalInvariant, HotInvariant
<1> QED
  BY <1>1, <1>8, <1>9, <1>12, <1>14, DiskMoved

-----------------------------------------------------------------------------
(***************************************************************************)
(* The rollback.                                                           *)
(***************************************************************************)
LEMMA UndoKeeps ==
    ASSUME PagerInvariant, NEW p \in Processes, Undo(p)
    PROVE  PagerInvariant'
<1>1. at[p] = "undo" /\ at[p] \in Writing /\ at[p] \in Undoing
  BY DEF Undo, Writing, Undoing
<1>2. /\ Owns(p) /\ Stage(p) /\ Holds(p) /\ ReaderInvariant(p) /\ dirty[p] # {}
      /\ at \in [Processes -> Steps] /\ cache \in [Processes -> Caches]
      /\ vers \in [Processes -> Value]
  BY <1>1, WriterHas DEF PagerInvariant, Types, Stage
<1>3. /\ journal.exists /\ PagesOf(journal) = dirty[p]
      /\ \A k \in DOMAIN journal.recs : journal.recs[k].val = Content[journal.recs[k].page]
  BY <1>1, <1>2, RecordsOf
<1>4. pos[p] = 0 /\ Intact
  BY <1>1, <1>2 DEF ReaderInvariant, Stage
<1>5. PICK old : old = [pg \in {journal.recs[k].page : k \in DOMAIN journal.recs} |->
                           journal.recs[CHOOSE k \in DOMAIN journal.recs :
                                            journal.recs[k].page = pg].val]
  OBVIOUS
<1>6. DOMAIN old = dirty[p] /\ \A pg \in dirty[p] : old[pg] = Content[pg]
  <2>1. DOMAIN old = PagesOf(journal)
    BY <1>5 DEF PagesOf
  <2>2. ASSUME NEW pg \in PagesOf(journal)
        PROVE  old[pg] = Content[pg]
    <3>1. \E k \in DOMAIN journal.recs : journal.recs[k].page = pg
      BY <2>2 DEF PagesOf
    <3>2. PICK k \in DOMAIN journal.recs :
              /\ k = CHOOSE l \in DOMAIN journal.recs : journal.recs[l].page = pg
              /\ journal.recs[k].page = pg
      BY <3>1
    <3>3. old[pg] = journal.recs[k].val
      BY <1>5, <2>2, <3>2 DEF PagesOf
    <3> QED
      BY <1>3, <3>2, <3>3
  <2> QED
    BY <1>3, <2>1, <2>2
<1>7. PICK c : c = [pg \in DOMAIN cache[p] |-> IF pg \in DOMAIN old THEN old[pg] ELSE cache[p][pg]]
  OBVIOUS
<1>8. cache' = [cache EXCEPT ![p] = c] /\ cache'[p] = c
  BY <1>2, <1>5, <1>7 DEF Undo
<1>9. DOMAIN c = DOMAIN cache[p] /\ \A pg \in DOMAIN c : c[pg] = Content[pg]
  BY <1>2, <1>6, <1>7 DEF Owns
<1>10. c \in Caches /\ Header \in DOMAIN c
  <2>1. DOMAIN c \subseteq Pages /\ \A pg \in DOMAIN c : c[pg] \in Value
    BY <1>9, CacheOf, ContentTypes
  <2>2. c = [pg \in DOMAIN c |-> c[pg]]
    BY <1>7
  <2>3. c \in [DOMAIN c -> Value]
    BY <2>1, <2>2
  <2> QED
    BY <1>2, <1>9, <2>1, <2>3 DEF Caches, Owns
<1>11. /\ vers' = [vers EXCEPT ![p] = Content[Header]] /\ at' = [at EXCEPT ![p] = "delete_undone"]
       /\ disk' = disk /\ lock' = lock /\ dirty' = dirty /\ pos' = pos /\ mine' = mine
       /\ last' = last /\ failed' = failed
  BY <1>8, <1>9, <1>10 DEF Undo, To, disk
<1>12. vers'[p] = Content[Header] /\ at'[p] = "delete_undone"
  BY <1>2, <1>11
<1>13. Thinks(p)
  <2>1. \E s \in Steps : at' = [at EXCEPT ![p] = s]
    BY <1>11 DEF Steps
  <2>2. \E d \in Caches : cache' = [cache EXCEPT ![p] = d]
    BY <1>8, <1>10
  <2>3. \E v \in Value : vers' = [vers EXCEPT ![p] = v]
    BY <1>11, ContentTypes, Constants
  <2> QED
    BY <1>11, <2>1, <2>2, <2>3, Unmoved DEF Thinks, Moves
<1>14. /\ Content' = Content /\ journal' = journal /\ file' = file /\ ghosts' = ghosts
       /\ maybe' = maybe
  BY <1>11, SameDisk
<1>15. Owns(p)'
  <2>1. PagesOf(journal)' = PagesOf(journal) /\ Below(Content, last)' /\ mine'[p] = last'
    BY <1>2, <1>11, <1>14 DEF Owns, PagesOf, Below
  <2>2. (\A g \in ghosts : Below(Restored(file, g), last))'
    BY <1>2, <1>11, <1>14 DEF Owns, Below
  <2> QED
    BY <1>2, <1>3, <1>8, <1>9, <1>10, <1>11, <1>14, <2>1, <2>2 DEF Owns
<1>16. Stage(p)'
  <2>1. Agrees(p)'
    BY <1>8, <1>9, <1>14 DEF Agrees
  <2>2. Intact'
    BY <1>4, <1>14 DEF Intact, Durable
  <2> QED
    BY <1>2, <1>11, <1>12, <1>14, <2>1, <2>2 DEF Stage, Reserving, Committing, Undoing
<1>17. Holds(p)'
  BY <1>1, <1>2, <1>11, <1>12, <1>14 DEF Holds, Sharing, Reserving, Undoing, Committing, HotSteps
<1>18. ReaderInvariant(p)'
  BY <1>4, <1>11, <1>12 DEF ReaderInvariant, Sharing, HotSteps
<1>19. LocalInvariant(p)'
  BY <1>12, <1>15, <1>16, <1>17, <1>18 DEF LocalInvariant, HotInvariant
<1>20. lock'[p] <= lock[p]
  BY <1>11, TypesOf
<1> QED
  BY <1>13, <1>19, <1>20, Thought

\* A process that plays back holds the file.
LEMMA PlayerHas ==
    ASSUME PagerInvariant, NEW p \in Processes, at[p] \in {"play", "play_hot"}
    PROVE  /\ Holds(p) /\ lock[p] = EXCLUSIVE_LOCK /\ pos[p] \in Nat
           /\ journal.count # 0 => jsync = "all"
           /\ \A k \in DOMAIN Records(journal) : k <= pos[p] => Played(k)
           /\ pos[p] < Len(Records(journal)) => journal.count # 0
<1>1. LocalInvariant(p) /\ pos[p] \in Nat /\ lock[p] = EXCLUSIVE_LOCK
  BY TypesOf, HasExclusive DEF HotSteps
<1>2. pos[p] < Len(Records(journal)) => journal.count # 0
  <2>1. ASSUME journal.count = 0
        PROVE  Len(Records(journal)) = 0
    <3>1. /\ journal.recs \in Seq(Entries)
          /\ (IF 0 < Len(journal.recs) THEN 0 ELSE Len(journal.recs)) = 0
      BY ContentTypes DEF Journals
    <3> QED
      BY <2>1, <3>1 DEF Records
  <2> QED
    BY <1>1, <2>1
<1>3. CASE at[p] = "play"
  <2>1. Stage(p) /\ Holds(p)
    BY <1>3, WriterHas DEF Writing
  <2>2. /\ journal.count # 0 /\ jsync = "all"
        /\ \A k \in DOMAIN journal.recs : k <= pos[p] => Played(k)
    BY <1>3, <2>1 DEF Stage
  <2> QED
    BY <1>1, <1>2, <2>1, <2>2, Halfway
<1>4. CASE at[p] = "play_hot"
  BY <1>1, <1>2, <1>4 DEF LocalInvariant, HotInvariant
<1> QED
  BY <1>3, <1>4

LEMMA PlayKeeps ==
    ASSUME PagerInvariant, NEW p \in Processes, Play(p)
    PROVE  PagerInvariant' /\ Content' = Content
<1>1. /\ at[p] \in {"play", "play_hot"} /\ pos[p] < Len(Records(journal))
      /\ at[p] \in Committing \cup HotSteps \cup {"play"}
  BY DEF Play, HotSteps
<1>2. /\ Holds(p) /\ lock[p] = EXCLUSIVE_LOCK /\ pos[p] \in Nat
      /\ journal.count # 0 /\ jsync = "all"
      /\ \A k \in DOMAIN Records(journal) : k <= pos[p] => Played(k)
  BY <1>1, PlayerHas
<1>3. /\ Records(journal) = journal.recs /\ DOMAIN journal.recs = 1 .. Len(journal.recs)
      /\ ghosts = {} /\ journal.recs \in Seq(Entries) /\ Distinct(journal)
      /\ \A k \in DOMAIN journal.recs :
            /\ journal.recs[k].page \in Pages /\ journal.recs[k].val \in Value
            /\ Content[journal.recs[k].page] = journal.recs[k].val
  BY <1>2, Halfway, ContentTypes DEF Journals
<1>4. PICK n : n = pos[p] + 1
  OBVIOUS
<1>5. n \in DOMAIN journal.recs /\ n \in Nat
  BY <1>1, <1>2, <1>3, <1>4
<1>6. PICK pg : pg = journal.recs[n].page
  OBVIOUS
<1>7. PICK v : v = journal.recs[n].val
  OBVIOUS
<1>8. pg \in Pages /\ v \in Value /\ pg \in PagesOf(journal) /\ v \in 0 .. Torn
  BY <1>3, <1>5, <1>6, <1>7, Constants DEF PagesOf
<1>9. PICK kept : kept = IF at[p] = "play_hot" THEN NoCache ELSE cache[p]
  OBVIOUS
<1>10. PICK c : c = IF pg \in DOMAIN kept THEN Put(kept, pg, v) ELSE kept
  OBVIOUS
<1>11. /\ WriteFile(pg, v) /\ cache' = [cache EXCEPT ![p] = c]
       /\ vers' = [vers EXCEPT ![p] = IF Header = pg /\ Header \in DOMAIN kept THEN v ELSE @]
       /\ pos' = [pos EXCEPT ![p] = n]
       /\ journal' = journal /\ jsync' = jsync /\ ghosts' = ghosts /\ at' = at /\ lock' = lock
       /\ dirty' = dirty /\ mine' = mine /\ last' = last /\ failed' = failed
  BY <1>4, <1>6, <1>7, <1>9, <1>10 DEF Play
<1>12. /\ Content' = Content /\ DiskTypes' /\ DiskInvariant' /\ failed' \subseteq 1 .. last'
       /\ \A q \in Pages : q # pg => file'[q] = file[q]
  BY <1>2, <1>8, <1>11, PageWritten
<1>13. file'[pg] = v
  BY <1>8, <1>11, ContentTypes DEF WriteFile, Files
<1>14. cache \in [Processes -> Caches] /\ vers \in [Processes -> Value] /\ pos \in [Processes -> Nat]
  BY DEF PagerInvariant, Types
<1>15. /\ cache'[p] = c /\ pos'[p] = n
       /\ vers'[p] = IF Header = pg /\ Header \in DOMAIN kept THEN v ELSE vers[p]
  BY <1>11, <1>14
<1>16. kept \in Caches
  BY <1>9, <1>14, EmptyCache
<1>17. /\ c \in Caches /\ DOMAIN c = DOMAIN kept /\ (pg \in DOMAIN c => c[pg] = v)
       /\ \A q \in DOMAIN c : q # pg => c[q] = kept[q]
  <2>1. CASE pg \in DOMAIN kept
    <3>1. c = Put(kept, pg, v) /\ DOMAIN kept \cup {pg} = DOMAIN kept
      BY <1>10, <2>1
    <3>2. /\ Put(kept, pg, v) \in Caches /\ DOMAIN Put(kept, pg, v) = DOMAIN kept \cup {pg}
          /\ Put(kept, pg, v)[pg] = v
          /\ \A q \in DOMAIN kept : q # pg => Put(kept, pg, v)[q] = kept[q]
      BY <1>8, <1>16, Cached
    <3> QED
      BY <3>1, <3>2
  <2>2. CASE pg \notin DOMAIN kept
    BY <1>10, <1>16, <2>2
  <2> QED
    BY <2>1, <2>2
<1>18. Moves(p)
  <2>1. \E d \in Caches : cache' = [cache EXCEPT ![p] = d]
    BY <1>11, <1>17
  <2>2. \E d \in Value : vers' = [vers EXCEPT ![p] = d]
    <3>1. vers[p] \in Value
      BY <1>14
    <3> QED
      BY <1>8, <1>11, <3>1
  <2>3. \E d \in Nat : pos' = [pos EXCEPT ![p] = d]
    BY <1>5, <1>11
  <2> QED
    BY <1>11, <2>1, <2>2, <2>3, Unmoved DEF Moves
<1>19. \A k \in DOMAIN journal.recs : k <= n => file'[journal.recs[k].page] = journal.recs[k].val
  <2>1. ASSUME NEW k \in DOMAIN journal.recs, k <= n
        PROVE  file'[journal.recs[k].page] = journal.recs[k].val
    <3>1. CASE k = n
      BY <1>6, <1>7, <1>13, <3>1
    <3>2. CASE k # n
      <4>1. k <= pos[p] /\ Played(k)
        BY <1>2, <1>3, <1>4, <1>5, <2>1, <3>2
      <4>2. journal.recs[k].page # pg
        BY <1>3, <1>5, <1>6, <3>2 DEF Distinct
      <4> QED
        BY <1>3, <1>12, <4>1, <4>2 DEF Played
    <3> QED
      BY <3>1, <3>2
  <2> QED
    BY <2>1
<1>20. Holds(p)'
  BY <1>2, <1>11 DEF Holds
<1>21. CASE at[p] = "play_hot"
  <2>1. DOMAIN c = {}
    BY <1>9, <1>17, <1>21, EmptyCache
  <2>2. dirty[p] = {}
    BY <1>21, TypesOf DEF LocalInvariant, ReaderInvariant, HotSteps
  <2>3. ReaderInvariant(p)'
    BY <1>11, <1>15, <1>21, <2>1, <2>2 DEF ReaderInvariant, Stale
  <2>4. HotInvariant(p)'
    BY <1>2, <1>3, <1>11, <1>15, <1>19, <1>21 DEF HotInvariant, Played
  <2>5. LocalInvariant(p)'
    BY <1>11, <1>20, <1>21, <2>3, <2>4, ReadersDoNotWrite DEF LocalInvariant, HotSteps
  <2> QED
    BY <1>2, <1>11, <1>12, <1>18, <2>5, HasExclusive, <1>1, DiskMoved
<1>22. CASE at[p] = "play"
  <2>1. at[p] \in Writing
    BY <1>22 DEF Writing
  <2>2. Owns(p) /\ Stage(p) /\ ReaderInvariant(p)
    BY <2>1, WriterHas
  <2>3. kept = cache[p]
    BY <1>9, <1>22
  <2>4. dirty[p] # {} /\ Header \in dirty[p] /\ pg \in dirty[p] /\ dirty[p] \subseteq DOMAIN cache[p]
    BY <1>5, <1>6, <1>22, <2>1, <2>2, RecordsOf DEF Stage, Owns
  <2>5. Owns(p)'
    <3>1. PagesOf(journal)' = PagesOf(journal) /\ Below(Content, last)' /\ mine'[p] = last'
      BY <1>11, <1>12, <2>2 DEF Owns, PagesOf, Below
    <3>2. (\A g \in ghosts : Below(Restored(file, g), last))'
      BY <1>3, <1>11
    <3>3. \A q \in DOMAIN c \ dirty[p] : c[q] = Content[q]
      BY <1>17, <2>2, <2>3, <2>4 DEF Owns
    <3> QED
      BY <1>11, <1>12, <1>15, <1>17, <2>2, <2>3, <3>1, <3>2, <3>3 DEF Owns
  <2>6. Stage(p)'
    <3>1. ASSUME NEW k \in DOMAIN journal.recs, k <= n
          PROVE  /\ c[journal.recs[k].page] = journal.recs[k].val
                 /\ journal.recs[k].page = Header => vers'[p] = journal.recs[k].val
      <4>1. Header \in DOMAIN kept /\ pg \in DOMAIN c
        BY <1>17, <2>3, <2>4
      <4>2. CASE k = n
        BY <1>6, <1>7, <1>15, <1>17, <4>1, <4>2
      <4>3. CASE k # n
        <5>1. k <= pos[p] /\ k \in Nat
          BY <1>2, <1>3, <1>4, <1>5, <3>1, <4>3
        <5>2. journal.recs[k].page # pg
          BY <1>3, <1>5, <1>6, <4>3 DEF Distinct
        <5>3. /\ cache[p][journal.recs[k].page] = journal.recs[k].val
              /\ journal.recs[k].page = Header => vers[p] = journal.recs[k].val
          BY <1>22, <2>2, <5>1 DEF Stage
        <5>4. journal.recs[k].page \in DOMAIN cache[p]
          BY <2>1, <2>4, RecordsOf
        <5>5. c[journal.recs[k].page] = kept[journal.recs[k].page]
          BY <1>17, <2>3, <5>2, <5>4
        <5> QED
          BY <1>15, <2>3, <5>2, <5>3, <5>5
      <4> QED
        BY <4>2, <4>3
    <3>2. (\A k \in DOMAIN journal.recs : k <= pos[p] =>
              /\ Played(k) /\ cache[p][journal.recs[k].page] = journal.recs[k].val
              /\ journal.recs[k].page = Header => vers[p] = journal.recs[k].val)'
      BY <1>11, <1>15, <1>19, <3>1 DEF Played
    <3> QED
      BY <1>2, <1>11, <1>22, <2>4, <3>2 DEF Stage, Reserving, Committing, Undoing
  <2>7. ReaderInvariant(p)'
    BY <1>11, <1>22 DEF ReaderInvariant, Sharing, HotSteps
  <2>8. LocalInvariant(p)'
    BY <1>11, <1>20, <1>22, <2>5, <2>6, <2>7 DEF LocalInvariant, HotInvariant
  <2> QED
    BY <1>2, <1>11, <1>12, <1>18, <2>8, HasExclusive, <1>1, DiskMoved
<1> QED
  BY <1>1, <1>21, <1>22

LEMMA SyncPlayedKeeps ==
    ASSUME PagerInvariant, NEW p \in Processes, SyncPlayed(p)
    PROVE  PagerInvariant' /\ Content' = Content
<1>1. PICK s : s = IF at[p] = "play" THEN "delete_undone" ELSE "delete_hot"
  OBVIOUS
<1>2. /\ at[p] \in {"play", "play_hot"} /\ pos[p] = Len(Records(journal)) /\ SyncFile
      /\ at[p] \in Committing \cup HotSteps \cup {"play"}
      /\ pos' = [pos EXCEPT ![p] = 0] /\ at' = [at EXCEPT ![p] = s]
      /\ journal' = journal /\ jsync' = jsync /\ ghosts' = ghosts
      /\ lock' = lock /\ last' = last /\ failed' = failed
      /\ cache' = cache /\ vers' = vers /\ dirty' = dirty /\ mine' = mine
  BY <1>1 DEF SyncPlayed, To, HotSteps
<1>3. /\ Holds(p) /\ lock[p] = EXCLUSIVE_LOCK
      /\ \A k \in DOMAIN Records(journal) : k <= pos[p] => Played(k)
  BY <1>2, PlayerHas
<1>4. /\ Content' = Content /\ DiskTypes' /\ DiskInvariant' /\ failed' \subseteq 1 .. last'
      /\ file' = file /\ \A pg \in Pages : Durable(pg)'
  BY <1>2, FileSynced
<1>5. at'[p] = s /\ pos'[p] = 0 /\ s \in Steps
  BY <1>1, <1>2 DEF PagerInvariant, Types, Steps
<1>6. \A pg \in Pages : file[pg] = Content[pg]
  <2>1. CASE journal.count = 0
    BY <2>1, AtRest
  <2>2. CASE journal.count # 0
    <3>1. /\ Records(journal) = journal.recs
          /\ DOMAIN journal.recs = 1 .. Len(journal.recs)
          /\ \A k \in DOMAIN journal.recs : Content[journal.recs[k].page] = journal.recs[k].val
          /\ \A pg \in Pages \ PagesOf(journal) : Content[pg] = file[pg]
      BY <2>2, Halfway
    <3>2. \A k \in DOMAIN journal.recs : Played(k)
      BY <1>2, <1>3, <3>1
    <3> QED
      BY <3>1, <3>2 DEF Played, PagesOf
  <2> QED
    BY <2>1, <2>2
<1>7. Intact'
  BY <1>4, <1>6 DEF Intact
<1>8. Moves(p)
  <2>1. \E t \in Steps : at' = [at EXCEPT ![p] = t]
    BY <1>2, <1>5
  <2>2. \E n \in Nat : pos' = [pos EXCEPT ![p] = n]
    BY <1>2
  <2> QED
    BY <1>2, <2>1, <2>2, Unmoved DEF Moves
<1>9. lock[p] >= RESERVED_LOCK /\ lock'[p] <= lock[p]
  BY <1>2, HasExclusive
<1>10. CASE at[p] = "play"
  <2>1. at[p] \in Writing /\ s = "delete_undone"
    BY <1>1, <1>10 DEF Writing
  <2>2. Owns(p) /\ Stage(p) /\ dirty[p] # {} /\ Header \in dirty[p] /\ journal.count # 0
    BY <1>10, <2>1, WriterHas DEF Stage
  <2>3. /\ Records(journal) = journal.recs /\ DOMAIN journal.recs = 1 .. Len(journal.recs)
        /\ PagesOf(journal) = dirty[p]
    BY <2>1, <2>2, Halfway, RecordsOf
  <2>4. \A k \in DOMAIN journal.recs :
            /\ cache[p][journal.recs[k].page] = Content[journal.recs[k].page]
            /\ journal.recs[k].page = Header => vers[p] = Content[Header]
    <3>1. ASSUME NEW k \in DOMAIN journal.recs
          PROVE  /\ cache[p][journal.recs[k].page] = journal.recs[k].val
                 /\ journal.recs[k].page = Header => vers[p] = journal.recs[k].val
                 /\ journal.recs[k].val = Content[journal.recs[k].page]
      <4>1. k <= pos[p]
        BY <1>2, <2>3, <3>1
      <4> QED
        BY <1>10, <2>1, <2>2, <4>1, RecordsOf DEF Stage
    <3> QED
      BY <3>1
  <2>5. vers[p] = Content[Header] /\ \A pg \in dirty[p] : cache[p][pg] = Content[pg]
    BY <2>2, <2>3, <2>4 DEF PagesOf
  <2>6. Agrees(p)'
    BY <1>2, <1>4, <2>2, <2>5 DEF Owns, Agrees
  <2>7. Owns(p)'
    BY <1>2, <1>4, <2>1, OwnsStays
  <2>8. Stage(p)'
    BY <1>2, <1>4, <1>5, <1>7, <2>1, <2>2, <2>5, <2>6 DEF Stage, Reserving, Committing, Undoing
  <2>9. Holds(p)' /\ ReaderInvariant(p)'
    BY <1>2, <1>3, <1>5, <1>9, <2>1 DEF Holds, ReaderInvariant, Sharing, Reserving, Undoing,
         Committing, HotSteps, RESERVED_LOCK, PENDING_LOCK, EXCLUSIVE_LOCK
  <2>10. LocalInvariant(p)'
    BY <1>5, <2>1, <2>7, <2>8, <2>9 DEF LocalInvariant, HotInvariant
  <2> QED
    BY <1>2, <1>4, <1>8, <1>9, <2>10, DiskMoved
<1>11. CASE at[p] = "play_hot"
  <2>1. s = "delete_hot"
    BY <1>1, <1>11
  <2>2. dirty[p] = {} /\ Stale(p)
    BY <1>11, TypesOf DEF LocalInvariant, ReaderInvariant, HotSteps
  <2>3. Stale(p)'
    BY <1>2, <1>4, <2>2 DEF Stale, Agrees
  <2>4. Holds(p)' /\ ReaderInvariant(p)'
    BY <1>2, <1>3, <1>5, <2>1, <2>2, <2>3 DEF Holds, ReaderInvariant, Sharing, Reserving, Undoing,
         Committing, HotSteps, RESERVED_LOCK, PENDING_LOCK, EXCLUSIVE_LOCK
  <2>5. LocalInvariant(p)'
    BY <1>5, <1>7, <2>1, <2>4, ReadersDoNotWrite DEF LocalInvariant, HotInvariant, HotSteps
  <2> QED
    BY <1>2, <1>4, <1>8, <1>9, <2>5, DiskMoved
<1> QED
  BY <1>2, <1>10, <1>11

LEMMA DeletePlayedKeeps ==
    ASSUME PagerInvariant, NEW p \in Processes, DeletePlayed(p)
    PROVE  PagerInvariant' /\ Content' = Content
<1>1. PICK s : s = IF at[p] = "delete_hot" THEN "validate" ELSE "reader"
  OBVIOUS
<1>2. /\ at[p] \in {"delete_undone", "delete_hot"}
      /\ journal' = NoJournal /\ jsync' = "none"
      /\ ghosts' = IF journal.count > 0 THEN ghosts \cup {journal} ELSE ghosts
      /\ lock' = [lock EXCEPT ![p] = SHARED_LOCK] /\ at' = [at EXCEPT ![p] = s]
      /\ dirty' = [dirty EXCEPT ![p] = {}] /\ mine' = [mine EXCEPT ![p] = 0]
      /\ file' = file /\ maybe' = maybe /\ cache' = cache /\ vers' = vers /\ pos' = pos
      /\ last' = last /\ failed' = failed
  BY <1>1 DEF DeletePlayed, DeleteJournal, Lock, To
<1>3. /\ LocalInvariant(p) /\ at \in [Processes -> Steps] /\ lock \in [Processes -> 0 .. 4]
      /\ dirty \in [Processes -> SUBSET Pages] /\ lock[p] \in 0 .. 4
      /\ DiskInvariant /\ DiskTypes /\ failed \subseteq 1 .. last
  BY TypesOf DEF PagerInvariant, Types, NO_LOCK, EXCLUSIVE_LOCK
<1>4. at'[p] = s /\ lock'[p] = SHARED_LOCK /\ dirty'[p] = {} /\ s \in Steps
  BY <1>1, <1>2, <1>3 DEF Steps
<1>5. lock[p] >= RESERVED_LOCK /\ lock'[p] <= lock[p]
  <2>1. lock[p] >= RESERVED_LOCK
    BY <1>2, <1>3 DEF LocalInvariant, Holds, Undoing, HotSteps, RESERVED_LOCK, EXCLUSIVE_LOCK
  <2> QED
    BY <1>3, <1>4, <2>1 DEF SHARED_LOCK, RESERVED_LOCK
<1>6. Intact /\ pos[p] = 0
  <2>1. CASE at[p] = "delete_hot"
    BY <1>3, <2>1 DEF LocalInvariant, HotInvariant, ReaderInvariant
  <2>2. CASE at[p] = "delete_undone"
    BY <1>3, <2>2 DEF LocalInvariant, Stage, ReaderInvariant, Writing, Undoing
  <2> QED
    BY <1>2, <2>1, <2>2
<1>7. Content = file /\ \A pg \in Pages : Durable(pg)
  <2>1. file \in [Pages -> 0 .. Torn] /\ Content \in [Pages -> 0 .. last]
    BY ContentTypes DEF Files
  <2> QED
    BY <1>6, <2>1 DEF Intact
<1>8. /\ NoJournal \in Journals /\ NoJournal.count = 0 /\ Distinct(NoJournal)
      /\ ~NoJournal.exists
  BY DEF NoJournal, Journals, Distinct
<1>9. Content' = Content
  <2>1. Restored(file', journal') = file'
    BY <1>2, <1>8, RestoredEmpty
  <2> QED
    BY <1>2, <1>7, <2>1 DEF Content
<1>10. DiskTypes'
  BY <1>2, <1>3, <1>8 DEF DiskTypes
<1>11. \A g \in ghosts' : Sealed(g) /\ Distinct(g) /\ Sound(Restored(file, g))
  <2>1. \A g \in ghosts : Sealed(g) /\ Distinct(g) /\ Sound(Restored(file, g))
    BY <1>3 DEF DiskInvariant
  <2>2. journal.count > 0 => Sealed(journal) /\ Distinct(journal) /\ Sound(Restored(file, journal))
    BY <1>3, ContentTypes DEF DiskInvariant, Content, Journals
  <2> QED
    BY <1>2, <2>1, <2>2
<1>12. DiskInvariant'
  <2>1. \A g \in ghosts' : (Sealed(g) /\ Distinct(g) /\ Sound(Restored(file, g)))'
    BY <1>2, <1>11 DEF Sound
  <2>2. Sound(Content)'
    BY <1>2, <1>3, <1>9 DEF DiskInvariant, Sound
  <2>3. (\A pg \in Pages : Durable(pg))'
    BY <1>2, <1>7 DEF Durable
  <2> QED
    BY <1>2, <1>8, <2>1, <2>2, <2>3 DEF DiskInvariant
<1>13. Moves(p)
  <2>1. \E t \in Steps : at' = [at EXCEPT ![p] = t]
    BY <1>2, <1>4
  <2>2. \E l \in 0 .. 4 : lock' = [lock EXCEPT ![p] = l]
    BY <1>2 DEF SHARED_LOCK
  <2>3. \E d \in SUBSET Pages : dirty' = [dirty EXCEPT ![p] = d]
    BY <1>2
  <2>4. \E m \in Value : mine' = [mine EXCEPT ![p] = m]
    <3>1. 0 \in Value
      BY Constants DEF Value
    <3> QED
      BY <1>2, <3>1
  <2> QED
    BY <1>2, <2>1, <2>2, <2>3, <2>4, Unmoved DEF Moves
<1>14. Holds(p)'
  BY <1>1, <1>2, <1>4, <1>8 DEF Holds, Sharing, Reserving, Undoing, Committing, HotSteps,
       SHARED_LOCK, RESERVED_LOCK, PENDING_LOCK
<1>15. ReaderInvariant(p)'
  <2>1. CASE at[p] = "delete_hot"
    <3>1. Stale(p)
      BY <1>3, <2>1 DEF LocalInvariant, ReaderInvariant, HotSteps
    <3>2. Stale(p)'
      BY <1>2, <1>9, <3>1 DEF Stale, Agrees
    <3> QED
      BY <1>1, <1>2, <1>4, <1>6, <2>1, <3>2 DEF ReaderInvariant
  <2>2. CASE at[p] = "delete_undone"
    <3>1. Header \in DOMAIN cache[p] /\ vers[p] = Content[Header] /\ Agrees(p)
      BY <1>3, <2>2 DEF LocalInvariant, Owns, Stage, Writing, Undoing
    <3>2. /\ Header \in DOMAIN cache'[p] /\ vers'[p] = Content'[Header] /\ Agrees(p)'
          /\ vers'[p] <= Content'[Header]
      BY <1>2, <1>9, <3>1, Constants, ContentTypes DEF Agrees
    <3> QED
      BY <1>2, <1>4, <1>6, <3>2 DEF ReaderInvariant, Stale
  <2> QED
    BY <1>2, <2>1, <2>2
<1>16. LocalInvariant(p)'
  BY <1>1, <1>4, <1>14, <1>15, ReadersDoNotWrite DEF LocalInvariant, HotInvariant, Sharing
<1>17. failed' \subseteq 1 .. last'
  BY <1>2, <1>3
<1> QED
  BY <1>2, <1>5, <1>8, <1>9, <1>10, <1>12, <1>13, <1>16, <1>17, DiskMoved

LEMMA PlayFailsKeeps ==
    ASSUME PagerInvariant, NEW p \in Processes, PlayFails(p)
    PROVE  PagerInvariant' /\ Content' = Content
<1>1. /\ at' = [at EXCEPT ![p] = "error"]
      /\ journal' = journal /\ jsync' = jsync /\ ghosts' = ghosts
      /\ last' = last /\ failed' = failed
      /\ cache' = cache /\ vers' = vers /\ dirty' = dirty /\ pos' = pos /\ mine' = mine
  BY DEF PlayFails, To, memory
<1>2. at \in [Processes -> Steps] /\ lock \in [Processes -> 0 .. 4] /\ lock[p] \in 0 .. 4
  BY DEF PagerInvariant, Types, NO_LOCK, EXCLUSIVE_LOCK
<1>3. at'[p] = "error" /\ "error" \in Steps
  BY <1>1, <1>2 DEF Steps
<1>4. ASSUME lock'[p] \in {SHARED_LOCK, EXCLUSIVE_LOCK}
      PROVE  LocalInvariant(p)'
  <2>1. Holds(p)'
    BY <1>3, <1>4 DEF Holds, Sharing, Reserving, Undoing, Committing, HotSteps, SHARED_LOCK,
         RESERVED_LOCK, PENDING_LOCK, EXCLUSIVE_LOCK
  <2>2. ReaderInvariant(p)'
    BY <1>3 DEF ReaderInvariant, Sharing, HotSteps
  <2> QED
    BY <1>3, <2>1, <2>2, ReadersDoNotWrite DEF LocalInvariant, HotInvariant
<1>5. ASSUME NEW l \in {SHARED_LOCK, EXCLUSIVE_LOCK}, l <= lock[p],
             file' = file, maybe' = maybe, lock' = [lock EXCEPT ![p] = l]
      PROVE  PagerInvariant' /\ Content' = Content
  <2>1. disk' = disk /\ memory' = memory
    BY <1>1, <1>5 DEF disk, memory
  <2>2. l \in 0 .. 4
    BY DEF SHARED_LOCK, EXCLUSIVE_LOCK
  <2>3. /\ Alone(p) /\ Types' /\ DiskInvariant'
        /\ \A q \in Others(p) : LocalInvariant(q)'
        /\ lock'[p] = l /\ Content' = Content
    BY <1>1, <1>3, <1>5, <2>1, <2>2, Quiet
  <2>4. \A q \in Others(p) : Excludes(p, q)' /\ Excludes(q, p)'
    <3>1. lock'[p] \in Nat /\ lock'[p] <= lock[p]
      BY <1>5, <2>2, <2>3
    <3> QED
      BY <2>3, <3>1, Lowered
  <2>5. LocalInvariant(p)'
    BY <1>4, <2>3
  <2> QED
    BY <2>3, <2>4, <2>5, Moved
<1>6. CASE /\ at[p] \in {"play", "play_hot"} /\ lock' = lock
           /\ IF pos[p] < Len(Records(journal))
              THEN PartOf(journal.recs[pos[p] + 1].page)
              ELSE UNCHANGED <<file, maybe>>
  <2>1. at[p] \in Committing \cup HotSteps \cup {"play"}
    BY <1>6 DEF HotSteps
  <2>2. lock[p] = EXCLUSIVE_LOCK /\ lock[p] >= RESERVED_LOCK /\ lock[p] <= lock[p]
    BY <2>1, HasExclusive
  <2>3. lock' = [lock EXCEPT ![p] = EXCLUSIVE_LOCK]
    BY <1>2, <1>6, <2>2
  <2>4. CASE file' = file /\ maybe' = maybe
    BY <1>5, <2>2, <2>3, <2>4
  <2>5. CASE /\ pos[p] < Len(Records(journal))
             /\ WriteFile(journal.recs[pos[p] + 1].page, Torn)
    <3>1. /\ journal.count # 0 /\ jsync = "all" /\ pos[p] \in Nat
      BY <1>6, <2>5, PlayerHas
    <3>2. PICK pg : pg = journal.recs[pos[p] + 1].page
      OBVIOUS
    <3>3. pg \in PagesOf(journal)
      <4>1. Records(journal) = journal.recs /\ DOMAIN journal.recs = 1 .. Len(journal.recs)
            /\ journal.recs \in Seq(Entries)
        BY <3>1, Halfway, ContentTypes DEF Journals
      <4>2. pos[p] + 1 \in DOMAIN journal.recs
        BY <2>5, <3>1, <4>1
      <4> QED
        BY <3>2, <4>2 DEF PagesOf
    <3>4. WriteFile(pg, Torn) /\ Torn \in 0 .. Torn
      BY <2>5, <3>2, Constants
    <3>5. Content' = Content /\ DiskTypes' /\ DiskInvariant' /\ failed' \subseteq 1 .. last'
      BY <1>1, <3>1, <3>3, <3>4, PageWritten
    <3>6. Moves(p)
      <4>1. \E s \in Steps : at' = [at EXCEPT ![p] = s]
        BY <1>1, <1>3
      <4> QED
        BY <1>1, <1>6, <4>1, Unmoved DEF Moves
    <3>7. LocalInvariant(p)'
      BY <1>4, <1>6, <2>2
    <3> QED
      BY <1>1, <1>6, <2>2, <3>5, <3>6, <3>7, DiskMoved
  <2> QED
    BY <1>6, <2>4, <2>5 DEF PartOf
<1>7. CASE at[p] = "sync_hot" /\ UNCHANGED <<file, maybe, lock>>
  <2>1. at[p] \in Committing \cup HotSteps \cup {"play"}
    BY <1>7 DEF HotSteps
  <2>2. lock[p] = EXCLUSIVE_LOCK /\ lock[p] <= lock[p]
    BY <2>1, HasExclusive
  <2>3. lock' = [lock EXCEPT ![p] = EXCLUSIVE_LOCK]
    BY <1>2, <1>7, <2>2
  <2> QED
    BY <1>5, <1>7, <2>2, <2>3
<1>8. CASE /\ at[p] \in {"delete_undone", "delete_hot"} /\ Lock(p, SHARED_LOCK)
           /\ UNCHANGED <<file, maybe>>
  <2>1. lock[p] >= RESERVED_LOCK
    BY <1>8, TypesOf DEF LocalInvariant, Holds, Undoing, HotSteps, RESERVED_LOCK, EXCLUSIVE_LOCK
  <2>2. SHARED_LOCK <= lock[p]
    BY <1>2, <2>1 DEF SHARED_LOCK, RESERVED_LOCK
  <2> QED
    BY <1>5, <1>8, <2>2 DEF Lock
<1> QED
  BY <1>6, <1>7, <1>8 DEF PlayFails

-----------------------------------------------------------------------------
(***************************************************************************)
(* The commit.                                                             *)
(***************************************************************************)
\* What the file has when the journal goes.
LEMMA AtTheCommit ==
    ASSUME PagerInvariant, NEW p \in Processes, at[p] = "delete"
    PROVE  /\ Owns(p) /\ dirty[p] # {} /\ Header \in dirty[p] /\ pos[p] = 0
           /\ journal.count # 0 /\ journal.count > 0 /\ ghosts = {} /\ last \notin failed
           /\ vers[p] = file[Header] /\ file[Header] = Content[Header] + 1
           /\ \A pg \in Pages : Durable(pg) /\ file[pg] \in 0 .. last
           /\ \A pg \in DOMAIN cache[p] : cache[p][pg] = file[pg]
           /\ \A pg \in DataPages : file[pg] = last \/ file[pg] = Content[pg]
           /\ file \in [Pages -> 0 .. last]
<1>1. at[p] \in Writing /\ at[p] \in Committing
  BY DEF Writing, Committing
<1>2. Owns(p) /\ Stage(p) /\ ReaderInvariant(p)
  BY <1>1, WriterHas
<1>3. /\ dirty[p] # {} /\ Header \in dirty[p] /\ journal.count # 0 /\ last \notin failed
      /\ cache[p][Header] = Content[Header] + 1
      /\ \A pg \in dirty[p] \cap DataPages : cache[p][pg] = last
      /\ \A pg \in dirty[p] : file[pg] = cache[p][pg]
      /\ vers[p] = cache[p][Header]
      /\ \A pg \in Pages : Durable(pg)
  BY <1>1, <1>2 DEF Stage
<1>4. pos[p] = 0
  BY <1>2 DEF ReaderInvariant
<1>5. /\ ghosts = {} /\ Sealed(journal) /\ PagesOf(journal) = dirty[p]
      /\ \A pg \in Pages \ dirty[p] : Content[pg] = file[pg]
  BY <1>1, <1>3, Halfway, RecordsOf
<1>6. journal.count > 0
  BY <1>5 DEF Sealed
<1>7. DOMAIN cache[p] \subseteq Pages /\ \A pg \in DOMAIN cache[p] : cache[p][pg] = file[pg]
  BY <1>2, <1>3, <1>5, CacheOf DEF Owns
<1>8. \A pg \in DataPages : file[pg] = last \/ file[pg] = Content[pg]
  <2>1. DataPages \subseteq Pages
    BY DEF Pages
  <2> QED
    BY <1>3, <1>5, <2>1
<1>9. last \in Nat /\ Content[Header] < last /\ Content[Header] \in Nat
  BY <1>2, Constants, ContentTypes DEF Owns, Below, Value
<1>10. \A pg \in Pages : file[pg] \in 0 .. last
  <2>1. file[Header] \in 0 .. last
    BY <1>3, <1>9
  <2>2. \A pg \in Pages : Content[pg] \in 0 .. last
    BY ContentTypes
  <2> QED
    BY <1>8, <1>9, <2>1, <2>2, Constants
<1>11. file \in [Pages -> 0 .. last]
  <2>1. file \in [Pages -> 0 .. Torn]
    BY ContentTypes DEF Files
  <2> QED
    BY <1>10, <2>1
<1> QED
  BY <1>2, <1>3, <1>4, <1>5, <1>6, <1>7, <1>8, <1>10, <1>11

LEMMA FinishKeeps ==
    ASSUME PagerInvariant, NEW p \in Processes, Finish(p)
    PROVE  /\ PagerInvariant' /\ Content' = file /\ file' = file
           /\ ghosts' = {journal}
<1>1. /\ at[p] = "delete"
      /\ journal' = NoJournal /\ jsync' = "none"
      /\ ghosts' = IF journal.count > 0 THEN ghosts \cup {journal} ELSE ghosts
      /\ lock' = [lock EXCEPT ![p] = SHARED_LOCK] /\ at' = [at EXCEPT ![p] = "reader"]
      /\ dirty' = [dirty EXCEPT ![p] = {}] /\ mine' = [mine EXCEPT ![p] = 0]
      /\ file' = file /\ maybe' = maybe /\ cache' = cache /\ vers' = vers /\ pos' = pos
      /\ last' = last /\ failed' = failed
  BY DEF Finish, DeleteJournal, Lock, To
<1>2. /\ Owns(p) /\ dirty[p] # {} /\ Header \in dirty[p] /\ pos[p] = 0
      /\ journal.count # 0 /\ journal.count > 0 /\ ghosts = {} /\ last \notin failed
      /\ vers[p] = file[Header] /\ file[Header] = Content[Header] + 1
      /\ \A pg \in Pages : Durable(pg) /\ file[pg] \in 0 .. last
      /\ \A pg \in DOMAIN cache[p] : cache[p][pg] = file[pg]
      /\ \A pg \in DataPages : file[pg] = last \/ file[pg] = Content[pg]
      /\ file \in [Pages -> 0 .. last]
  BY <1>1, AtTheCommit
<1>3. /\ at \in [Processes -> Steps] /\ lock \in [Processes -> 0 .. 4]
      /\ dirty \in [Processes -> SUBSET Pages]
      /\ DiskInvariant /\ DiskTypes /\ failed \subseteq 1 .. last
  BY DEF PagerInvariant, Types, NO_LOCK, EXCLUSIVE_LOCK
<1>4. at'[p] = "reader" /\ lock'[p] = SHARED_LOCK /\ dirty'[p] = {}
  BY <1>1, <1>3
<1>5. lock[p] = EXCLUSIVE_LOCK
  BY <1>1, HasExclusive DEF Committing
<1>6. /\ NoJournal \in Journals /\ NoJournal.count = 0 /\ Distinct(NoJournal) /\ ~NoJournal.exists
  BY DEF NoJournal, Journals, Distinct
<1>7. Content' = file
  <2>1. Restored(file', journal') = file'
    BY <1>1, <1>6, RestoredEmpty
  <2> QED
    BY <1>1, <2>1 DEF Content
<1>8. ghosts' = {journal}
  BY <1>1, <1>2
<1>9. DiskTypes'
  BY <1>1, <1>3, <1>6, <1>8 DEF DiskTypes
<1>10. DiskInvariant'
  <2>1. Sealed(journal) /\ Distinct(journal) /\ Sound(Restored(file, journal))
    BY <1>2, <1>3, ContentTypes DEF DiskInvariant, Content
  <2>2. Sound(file)
    BY <1>2, <1>3 DEF DiskInvariant, Sound
  <2>3. \A g \in ghosts' : (Sealed(g) /\ Distinct(g) /\ Sound(Restored(file, g)))'
    BY <1>1, <1>8, <2>1 DEF Sound
  <2>4. Sound(Content)'
    BY <1>1, <1>7, <2>2 DEF Sound
  <2>5. (\A pg \in Pages : Durable(pg))'
    BY <1>1, <1>2 DEF Durable
  <2> QED
    BY <1>1, <1>6, <2>3, <2>4, <2>5 DEF DiskInvariant
<1>11. Moves(p)
  <2>1. \E t \in Steps : at' = [at EXCEPT ![p] = t]
    BY <1>1 DEF Steps
  <2>2. \E l \in 0 .. 4 : lock' = [lock EXCEPT ![p] = l]
    BY <1>1 DEF SHARED_LOCK
  <2>3. \E d \in SUBSET Pages : dirty' = [dirty EXCEPT ![p] = d]
    BY <1>1
  <2>4. \E m \in Value : mine' = [mine EXCEPT ![p] = m]
    <3>1. 0 \in Value
      BY Constants DEF Value
    <3> QED
      BY <1>1, <3>1
  <2> QED
    BY <1>1, <2>1, <2>2, <2>3, <2>4, Unmoved DEF Moves
<1>12. /\ Alone(p)
       /\ at' \in [Processes -> Steps] /\ lock' \in [Processes -> 0 .. 4]
       /\ cache' \in [Processes -> Caches] /\ vers' \in [Processes -> Value]
       /\ dirty' \in [Processes -> SUBSET Pages] /\ pos' \in [Processes -> Nat]
       /\ mine' \in [Processes -> Value]
  BY <1>11, MovesAlone
<1>13. Types'
  <2>1. last' \in Value /\ failed' \subseteq 1 .. last'
    BY <1>1, <1>3, ContentTypes
  <2> QED
    BY <1>9, <1>12, <2>1 DEF Types, NO_LOCK, EXCLUSIVE_LOCK
<1>14. \A q \in Others(p) : Excludes(p, q)' /\ Excludes(q, p)'
  <2>1. lock'[p] \in Nat /\ lock'[p] <= lock[p]
    BY <1>4, <1>5 DEF SHARED_LOCK, EXCLUSIVE_LOCK
  <2> QED
    BY <1>12, <2>1, Lowered
<1>15. ASSUME NEW q \in Others(p)
       PROVE  LocalInvariant(q)'
  <2>1. Excludes(p, q) /\ LocalInvariant(q) /\ at[q] \in Steps /\ vers[q] \in Value
    BY TypesOf DEF PagerInvariant, Others
  <2>2. lock[q] = NO_LOCK
    BY <1>5, <2>1 DEF Excludes
  <2>3. at[q] = "open"
    <3>1. Holds(q)
      BY <2>1 DEF LocalInvariant
    <3>2. at[q] \notin Sharing \cup Reserving \cup Undoing \cup Committing \cup HotSteps
                           \cup {"play", "error"}
      BY <2>2, <3>1 DEF Holds, NO_LOCK, SHARED_LOCK, RESERVED_LOCK, EXCLUSIVE_LOCK
    <3> QED
      BY <2>1, <3>2 DEF Steps, Sharing, Reserving, Undoing, Committing, HotSteps
  <2>4. /\ at'[q] = "open" /\ lock'[q] = NO_LOCK
        /\ cache'[q] = cache[q] /\ vers'[q] = vers[q] /\ dirty'[q] = dirty[q] /\ pos'[q] = pos[q]
    BY <1>12, <2>2, <2>3 DEF Alone
  <2>5. dirty[q] = {} /\ Stale(q) /\ pos[q] = 0
    BY <2>1, <2>3 DEF LocalInvariant, ReaderInvariant
  <2>6. Stale(q)'
    <3>1. CASE DOMAIN cache[q] = {}
      BY <2>4, <3>1 DEF Stale
    <3>2. CASE vers[q] <= Content[Header]
      <4>1. Content'[Header] = Content[Header] + 1 /\ Content[Header] \in Nat /\ vers[q] \in Nat
        BY <1>2, <1>7, <2>1, Constants, ContentTypes DEF Value
      <4>2. vers[q] <= Content'[Header] /\ vers[q] # Content'[Header]
        BY <3>2, <4>1
      <4> QED
        BY <2>4, <4>2 DEF Stale
    <3> QED
      BY <2>5, <3>1, <3>2 DEF Stale
  <2>7. ReaderInvariant(q)'
    BY <2>4, <2>5, <2>6 DEF ReaderInvariant
  <2>8. Holds(q)'
    BY <2>4 DEF Holds, Sharing, Reserving, Undoing, Committing, HotSteps, NO_LOCK,
         RESERVED_LOCK, PENDING_LOCK
  <2> QED
    BY <2>4, <2>7, <2>8, ReadersDoNotWrite DEF LocalInvariant, HotInvariant
<1>16. LocalInvariant(p)'
  <2>1. Header \in DOMAIN cache[p]
    BY <1>2 DEF Owns
  <2>2. Agrees(p)' /\ vers'[p] = Content'[Header]
    BY <1>1, <1>2, <1>7 DEF Agrees
  <2>3. vers'[p] <= Content'[Header]
    <3>1. vers'[p] \in Nat
      BY <1>12, Constants DEF Value
    <3> QED
      BY <2>2, <3>1
  <2>4. ReaderInvariant(p)'
    BY <1>1, <1>2, <1>4, <2>1, <2>2, <2>3 DEF ReaderInvariant, Stale
  <2>5. Holds(p)'
    BY <1>1, <1>4, <1>6 DEF Holds, Sharing, Reserving, Undoing, Committing, HotSteps,
         SHARED_LOCK, RESERVED_LOCK, PENDING_LOCK
  <2> QED
    BY <1>4, <2>4, <2>5, ReadersDoNotWrite DEF LocalInvariant, HotInvariant, Sharing
<1>17. PagerInvariant'
  BY <1>10, <1>12, <1>13, <1>14, <1>15, <1>16, Moved
<1> QED
  BY <1>1, <1>7, <1>8, <1>17

-----------------------------------------------------------------------------
(***************************************************************************)
(* The loss of power.                                                      *)
(***************************************************************************)
\* It keeps what is durable, and leaves a journal that can be played back or
\* one that will not be.
LEMMA Outcomes ==
    ASSUME PagerInvariant, NEW f \in FileOutcomes, NEW j \in JournalOutcomes
    PROVE  /\ f \in Files /\ j \in Journals /\ Distinct(j)
           /\ j.count # 0 => Sealed(j)
           /\ j.exists \in BOOLEAN /\ (j.count # 0 => j.exists)
           /\ Restored(f, j) = Content \/ \E g \in ghosts : Restored(f, j) = Restored(file, g)
<1>1. /\ DiskInvariant /\ DiskTypes /\ journal \in Journals /\ file \in Files /\ Distinct(journal)
  BY ContentTypes DEF PagerInvariant, Types
<1>2. f \in Files /\ \A pg \in Pages : Durable(pg) => f[pg] = file[pg]
  <2>1. CASE f = file
    BY <1>1, <2>1
  <2>2. CASE f # file
    <3>1. f \in [Pages -> 0 .. Torn] /\ \A pg \in Pages : f[pg] \in PageOutcomes(pg)
      BY <2>2 DEF FileOutcomes
    <3> QED
      BY <3>1 DEF Files, PageOutcomes, Durable
  <2> QED
    BY <2>1, <2>2
<1>3. (\A pg \in Pages : Durable(pg)) => f = file
  BY <1>1, <1>2 DEF Files
<1>4. /\ NoJournal \in Journals /\ NoJournal.count = 0 /\ Distinct(NoJournal)
      /\ HeaderLost \in Journals /\ HeaderLost.count = 0 /\ Distinct(HeaderLost)
  BY DEF NoJournal, HeaderLost, Journals, Distinct
<1>5. (j \in Journals => j.exists \in BOOLEAN) /\ (Sealed(j) => j.exists)
  BY DEF Journals, Sealed
<1>6. CASE jsync = "none"
  <2>1. journal.count = 0 /\ f = file /\ Content = file
    BY <1>1, <1>3, <1>6, AtRest DEF DiskInvariant
  <2>2. DOMAIN Records(journal) = {}
    <3>1. /\ journal.recs \in Seq(Entries)
          /\ (IF 0 < Len(journal.recs) THEN 0 ELSE Len(journal.recs)) = 0
      BY <1>1 DEF Journals
    <3>2. DOMAIN Records(journal) = 1 .. 0
      BY <2>1, <3>1 DEF Records
    <3> QED
      BY <3>2
  <2>3. j \in {NoJournal, HeaderLost} \/ j \in ghosts
    BY <1>6, <2>2 DEF JournalOutcomes
  <2>4. CASE j \in {NoJournal, HeaderLost}
    <3>1. j.count = 0 /\ j \in Journals /\ Distinct(j)
      BY <1>4, <2>4
    <3>2. Restored(f, j) = Content
      BY <2>1, <3>1, RestoredEmpty
    <3> QED
      BY <1>2, <1>5, <3>1, <3>2
  <2>5. CASE j \in ghosts
    <3>1. j \in Journals /\ Sealed(j) /\ Distinct(j)
      BY <1>1, <2>5 DEF DiskInvariant, DiskTypes
    <3> QED
      BY <1>2, <1>5, <2>1, <2>5, <3>1
  <2> QED
    BY <2>3, <2>4, <2>5
<1>7. CASE jsync # "none"
  <2>1. journal.exists /\ jsync \in {"records", "all"}
    BY <1>1, <1>7 DEF DiskInvariant, DiskTypes
  <2>2. j = journal \/ (j = HeaderLost /\ jsync = "records")
    BY <1>7, <2>1 DEF JournalOutcomes
  <2>3. CASE j = journal
    <3>1. Restored(f, journal) = Content
      <4>1. CASE journal.count = 0
        <5>1. f = file /\ Restored(f, journal) = f
          BY <1>1, <1>3, <4>1, RestoredEmpty DEF DiskInvariant
        <5> QED
          BY <4>1, <5>1, AtRest
      <4>2. CASE journal.count # 0
        <5>1. Sealed(journal) /\ \A pg \in Pages \ PagesOf(journal) : f[pg] = file[pg]
          BY <1>2, <4>2, Halfway
        <5> QED
          BY <1>1, <1>2, <5>1, RestoredSame DEF Content
      <4> QED
        BY <4>1, <4>2
    <3>2. journal.count # 0 => Sealed(journal)
      BY Halfway
    <3> QED
      BY <1>1, <1>2, <1>5, <2>1, <2>3, <3>1, <3>2
  <2>4. CASE j = HeaderLost /\ jsync = "records"
    <3>1. \A pg \in Pages : Durable(pg) /\ file[pg] = Content[pg]
      BY <1>1, <2>4 DEF DiskInvariant, Intact
    <3>2. Content = file
      <4>1. file \in [Pages -> 0 .. Torn] /\ Content \in [Pages -> 0 .. last]
        BY ContentTypes DEF Files
      <4> QED
        BY <3>1, <4>1
    <3>3. Restored(f, j) = Content
      BY <1>3, <1>4, <2>4, <3>1, <3>2, RestoredEmpty
    <3> QED
      BY <1>2, <1>4, <1>5, <2>4, <3>3
  <2> QED
    BY <2>2, <2>3, <2>4
<1> QED
  BY <1>6, <1>7

LEMMA PowerLossKeeps ==
    ASSUME PagerInvariant, PowerLoss
    PROVE  PagerInvariant'
<1>1. PICK f \in FileOutcomes : f = file'
  BY DEF PowerLoss
<1>2. PICK j \in JournalOutcomes : j = journal'
  BY DEF PowerLoss
<1>3. /\ f \in Files /\ j \in Journals /\ Distinct(j)
      /\ j.count # 0 => Sealed(j)
      /\ j.exists \in BOOLEAN /\ (j.count # 0 => j.exists)
      /\ Restored(f, j) = Content \/ \E g \in ghosts : Restored(f, j) = Restored(file, g)
  BY Outcomes
<1>4. Content' = Restored(f, j)
  BY <1>1, <1>2 DEF Content
<1>5. /\ maybe' = [pg \in Pages |-> {file'[pg]}]
      /\ jsync' = IF journal'.exists THEN "all" ELSE "none"
      /\ ghosts' = {} /\ last' = last /\ failed' = failed
      /\ lock' = [p \in Processes |-> NO_LOCK] /\ at' = [p \in Processes |-> "open"]
      /\ cache' = [p \in Processes |-> NoCache] /\ vers' = [p \in Processes |-> 0]
      /\ dirty' = [p \in Processes |-> {}] /\ pos' = [p \in Processes |-> 0]
      /\ mine' = [p \in Processes |-> 0]
  BY DEF PowerLoss
<1>6. maybe' \in [Pages -> SUBSET (0 .. Torn)]
  BY <1>1, <1>3, <1>5 DEF Files
<1>7. DiskTypes'
  BY <1>1, <1>2, <1>3, <1>5, <1>6 DEF DiskTypes
<1>8. Types'
  <2>1. 0 \in Value /\ last \in Value /\ failed \subseteq 1 .. last
    BY Constants DEF Value, PagerInvariant, Types
  <2>2. "open" \in Steps /\ NO_LOCK \in NO_LOCK .. EXCLUSIVE_LOCK /\ {} \in SUBSET Pages
    BY DEF Steps, NO_LOCK, EXCLUSIVE_LOCK
  <2> QED
    BY <1>5, <1>7, <2>1, <2>2, EmptyCache DEF Types
<1>9. DiskInvariant'
  <2>1. Sound(Content) /\ \A g \in ghosts : Sound(Restored(file, g))
    BY DEF PagerInvariant, DiskInvariant
  <2>2. Sound(Restored(f, j))
    BY <1>3, <2>1
  <2>3. Sound(Content)'
    BY <1>4, <1>5, <2>2 DEF Sound
  <2>4. (\A pg \in Pages : Durable(pg))'
    BY <1>5 DEF Durable
  <2> QED
    BY <1>2, <1>3, <1>5, <2>3, <2>4 DEF DiskInvariant
<1>10. ASSUME NEW p \in Processes
       PROVE  LocalInvariant(p)'
  <2>1. /\ at'[p] = "open" /\ lock'[p] = NO_LOCK /\ cache'[p] = NoCache /\ dirty'[p] = {}
        /\ pos'[p] = 0
    BY <1>5
  <2>2. ReaderInvariant(p)'
    BY <2>1, EmptyCache DEF ReaderInvariant, Stale
  <2>3. Holds(p)'
    BY <2>1 DEF Holds, Sharing, Reserving, Undoing, Committing, HotSteps, NO_LOCK,
         RESERVED_LOCK, PENDING_LOCK
  <2> QED
    BY <2>1, <2>2, <2>3, ReadersDoNotWrite DEF LocalInvariant, HotInvariant
<1>11. ASSUME NEW p \in Processes, NEW q \in Others(p)
       PROVE  Excludes(p, q)'
  <2>1. lock'[p] = NO_LOCK /\ lock'[q] = NO_LOCK
    BY <1>5 DEF Others
  <2> QED
    BY <2>1 DEF Excludes, NO_LOCK, RESERVED_LOCK
<1> QED
  BY <1>8, <1>9, <1>10, <1>11 DEF PagerInvariant

-----------------------------------------------------------------------------
(***************************************************************************)
(* The invariant, and what follows from it.                                *)
(***************************************************************************)
LEMMA InitHolds == Init => PagerInvariant
<1> SUFFICES ASSUME Init
             PROVE  PagerInvariant
  OBVIOUS
<1>1. /\ file = [pg \in Pages |-> 0] /\ maybe = [pg \in Pages |-> {0}]
      /\ journal = NoJournal /\ jsync = "none" /\ ghosts = {}
      /\ at = [p \in Processes |-> "open"] /\ lock = [p \in Processes |-> NO_LOCK]
      /\ cache = [p \in Processes |-> NoCache] /\ vers = [p \in Processes |-> 0]
      /\ dirty = [p \in Processes |-> {}] /\ pos = [p \in Processes |-> 0]
      /\ mine = [p \in Processes |-> 0] /\ last = 0 /\ failed = {}
  BY DEF Init
<1>2. /\ NoJournal \in Journals /\ NoJournal.count = 0 /\ Distinct(NoJournal) /\ ~NoJournal.exists
  BY DEF NoJournal, Journals, Distinct
<1>3. 0 \in Value /\ 0 \in 0 .. Torn
  BY Constants DEF Value
<1>4. DiskTypes
  BY <1>1, <1>2, <1>3 DEF DiskTypes, Files
<1>5. Types
  <2>1. "open" \in Steps /\ NO_LOCK \in NO_LOCK .. EXCLUSIVE_LOCK /\ {} \in SUBSET Pages
    BY DEF Steps, NO_LOCK, EXCLUSIVE_LOCK
  <2> QED
    BY <1>1, <1>3, <1>4, <2>1, EmptyCache DEF Types
<1>6. Content = file
  BY <1>1, <1>2, RestoredEmpty DEF Content
<1>7. DiskInvariant
  <2>1. Sound(Content)
    BY <1>1, <1>6 DEF Sound
  <2> QED
    BY <1>1, <1>2, <2>1 DEF DiskInvariant, Durable
<1>8. ASSUME NEW p \in Processes
      PROVE  LocalInvariant(p)
  <2>1. at[p] = "open" /\ lock[p] = NO_LOCK /\ cache[p] = NoCache /\ dirty[p] = {} /\ pos[p] = 0
    BY <1>1
  <2>2. ReaderInvariant(p)
    BY <2>1, EmptyCache DEF ReaderInvariant, Stale
  <2>3. Holds(p)
    BY <2>1 DEF Holds, Sharing, Reserving, Undoing, Committing, HotSteps, NO_LOCK,
         RESERVED_LOCK, PENDING_LOCK
  <2> QED
    BY <2>1, <2>2, <2>3, ReadersDoNotWrite DEF LocalInvariant, HotInvariant
<1>9. ASSUME NEW p \in Processes, NEW q \in Others(p)
      PROVE  Excludes(p, q)
  BY <1>1 DEF Others, Excludes, NO_LOCK, RESERVED_LOCK
<1> QED
  BY <1>5, <1>7, <1>8, <1>9 DEF PagerInvariant

\* What the journals that were deleted would make of the file.
GhostContents == {Restored(file, g) : g \in ghosts}

\* A step that leaves the contents of the file, and adds no others to those a
\* power loss may bring back.
Settles == Content' = Content /\ GhostContents' \subseteq GhostContents \cup {Content}

LEMMA GhostsKept ==
    ASSUME PagerInvariant, Content' = Content,
           \/ ghosts' \subseteq ghosts /\ (journal' = journal \/ file' = file)
           \/ ghosts' \subseteq ghosts \cup {journal} /\ file' = file
    PROVE  Settles
<1>1. Restored(file, journal) = Content
  BY DEF Content
<1>2. CASE file' = file
  BY <1>1, <1>2 DEF Settles, GhostContents
<1>3. CASE file' # file
  <2>1. journal' = journal /\ ghosts' \subseteq ghosts
    BY <1>3
  <2>2. journal.count # 0
    <3> SUFFICES ASSUME journal.count = 0
                 PROVE  FALSE
      OBVIOUS
    <3>1. Content = file
      BY AtRest
    <3>2. Restored(file', journal') = file'
      BY <2>1, RestoredEmpty
    <3>3. Content' = file'
      BY <3>2 DEF Content
    <3> QED
      BY <1>3, <3>1, <3>3
  <2>3. ghosts' = {}
    BY <2>1, <2>2 DEF PagerInvariant, DiskInvariant
  <2> QED
    BY <2>3 DEF Settles, GhostContents
<1> QED
  BY <1>2, <1>3

\* Of the steps that write to the disk one moves the contents of the file.
LEMMA StepHolds ==
    ASSUME PagerInvariant, NEW p \in Processes,
           Read(p) \/ Transact(p) \/ Rollback(p) \/ Crash(p)
    PROVE  PagerInvariant' /\ (disk' = disk \/ Settles \/ Finish(p))
<1>1. CASE SharedLock(p) \/ JournalExists(p) \/ CheckReservedLock(p) \/ FirstByte(p)
           \/ LockHot(p) \/ Unlock(p)
  BY <1>1, LooksKeep DEF SharedLock, JournalExists, CheckReservedLock, FirstByte, LockHot,
     Unlock, disk
<1>2. CASE SyncHotJournal(p)
  BY <1>2, SyncHotJournalKeeps, GhostsKept DEF SyncHotJournal
<1>3. CASE Validate(p)
  BY <1>3, ValidateKeeps DEF Validate, disk
<1>4. CASE \E pg \in Pages : Fetch(p, pg)
  BY <1>4, FetchKeeps DEF Fetch, disk
<1>5. CASE Begin(p)
  BY <1>5, BeginKeeps DEF Begin, disk
<1>6. CASE (\E pg \in DataPages : Write(p, pg)) \/ IncrCounter(p)
  BY <1>6, WritesKeep, GhostsKept DEF Write, IncrCounter, Journalled
<1>7. CASE EndEmpty(p)
  BY <1>7, EndEmptyKeeps DEF EndEmpty, disk
<1>8. CASE ExclusiveLock(p)
  BY <1>8, ExclusiveLockKeeps DEF ExclusiveLock, disk
<1>9. CASE SyncRecords(p)
  BY <1>9, SyncRecordsKeeps, GhostsKept DEF SyncRecords
<1>10. CASE WriteHeader(p)
  BY <1>10, WriteHeaderKeeps, GhostsKept DEF WriteHeader
<1>11. CASE SyncHeader(p)
  BY <1>11, SyncHeaderKeeps, GhostsKept DEF SyncHeader
<1>12. CASE WritePage(p)
  BY <1>12, WritePageKeeps, GhostsKept DEF WritePage
<1>13. CASE SyncPages(p)
  BY <1>13, SyncPagesKeeps, GhostsKept DEF SyncPages
<1>14. CASE Finish(p)
  BY <1>14, FinishKeeps
<1>15. CASE CommitFails(p)
  BY <1>15, CommitFailsKeeps DEF CommitFails, disk
<1>16. CASE WriteFails(p)
  BY <1>16, WriteFailsKeeps, GhostsKept DEF WriteFails
<1>17. CASE FinishFails(p)
  BY <1>17, FinishFailsKeeps DEF FinishFails, disk
<1>18. CASE Undo(p)
  BY <1>18, UndoKeeps DEF Undo, disk
<1>19. CASE Play(p)
  BY <1>19, PlayKeeps, GhostsKept DEF Play
<1>20. CASE SyncPlayed(p)
  BY <1>20, SyncPlayedKeeps, GhostsKept DEF SyncPlayed
<1>21. CASE DeletePlayed(p)
  BY <1>21, DeletePlayedKeeps, GhostsKept DEF DeletePlayed, DeleteJournal
<1>22. CASE PlayFails(p)
  BY <1>22, PlayFailsKeeps, GhostsKept DEF PlayFails
<1>23. CASE UnlockError(p) \/ Crash(p)
  BY <1>23, ForgottenKeeps DEF UnlockError, Crash, disk
<1> QED
  BY <1>1, <1>2, <1>3, <1>4, <1>5, <1>6, <1>7, <1>8, <1>9, <1>10, <1>11, <1>12, <1>13, <1>14,
     <1>15, <1>16, <1>17, <1>18, <1>19, <1>20, <1>21, <1>22, <1>23 DEF Read, Transact, Rollback

LEMMA NextHolds == PagerInvariant /\ [Next]_vars => PagerInvariant'
<1> SUFFICES ASSUME PagerInvariant, [Next]_vars
             PROVE  PagerInvariant'
  OBVIOUS
<1>1. CASE PowerLoss
  BY <1>1, PowerLossKeeps
<1>2. CASE \E p \in Processes : Read(p) \/ Transact(p) \/ Rollback(p) \/ Crash(p)
  BY <1>2, StepHolds
<1>3. CASE UNCHANGED vars
  <2>1. /\ disk' = disk /\ at' = at /\ lock' = lock /\ cache' = cache /\ vers' = vers
        /\ dirty' = dirty /\ pos' = pos /\ mine' = mine /\ last' = last /\ failed' = failed
        /\ file' = file /\ maybe' = maybe /\ journal' = journal /\ jsync' = jsync
        /\ ghosts' = ghosts /\ Content' = Content
    BY <1>3, SameDisk DEF vars, disk, memory
  <2>2. \A p, pg : Rank(p, pg)' = Rank(p, pg)
    BY <2>1 DEF Rank
  <2>3. ASSUME NEW p \in Processes
        PROVE  LocalInvariant(p)'
    <3>1. LocalInvariant(p)
      BY DEF PagerInvariant
    <3>2. Holds(p)' /\ ReaderInvariant(p)' /\ HotInvariant(p)'
      BY <2>1, <3>1 DEF LocalInvariant, Holds, ReaderInvariant, HotInvariant, Stale, Agrees,
           Intact, Durable, Played
    <3>3. at'[p] \in Writing => Owns(p)'
      BY <2>1, <3>1 DEF LocalInvariant, Owns, PagesOf, Below
    <3>4. at'[p] \in Writing => Stage(p)'
      BY <2>1, <2>2, <3>1 DEF LocalInvariant, Stage, Agrees, Intact, Durable, Played
    <3> QED
      BY <3>2, <3>3, <3>4 DEF LocalInvariant
  <2>4. Types'
    BY <2>1 DEF PagerInvariant, Types, DiskTypes
  <2>5. DiskInvariant'
    BY <2>1 DEF PagerInvariant, DiskInvariant, Sound, Intact, Durable
  <2>6. \A p \in Processes : \A q \in Others(p) : Excludes(p, q)'
    BY <2>1 DEF PagerInvariant, Excludes
  <2> QED
    BY <2>3, <2>4, <2>5, <2>6 DEF PagerInvariant
<1> QED
  BY <1>1, <1>2, <1>3 DEF Next

LEMMA Holding == Spec => []PagerInvariant
BY InitHolds, NextHolds, PTL DEF Spec

\* The contents of the pages and of the journal are of the numbers they are
\* taken for, whatever calls fail and whatever the disk keeps.
THEOREM PagerTypes == Spec => []TypeOK
<1>1. PagerInvariant => TypeOK
  <2> SUFFICES ASSUME PagerInvariant
               PROVE  TypeOK
    OBVIOUS
  <2>1. Types /\ DiskTypes /\ DiskInvariant
    BY DEF PagerInvariant, Types
  <2>2. journal.exists \in BOOLEAN /\ journal.count \in Nat /\ journal.recs \in Seq(Entries)
    BY <2>1 DEF DiskTypes, Journals
  <2>3. journal.count \in 0 .. Len(journal.recs)
    <3>1. Len(journal.recs) \in Nat
      BY <2>2
    <3>2. journal.count = 0 \/ journal.count = Len(journal.recs)
      BY <2>1 DEF DiskInvariant, Sealed
    <3> QED
      BY <2>2, <3>1, <3>2
  <2>4. \A p \in Processes : cache[p] \in [DOMAIN cache[p] -> 0 .. MaxTxn]
    BY CacheOf DEF Value
  <2> QED
    BY <2>1, <2>2, <2>3, <2>4 DEF TypeOK, Types, DiskTypes, Files, Entries, Value
<1> QED
  BY <1>1, Holding, PTL

\* What a process reads in a transaction is what the last commit left: the
\* lock, the look for a hot journal and the change counter of pagerSharedLock
\* are enough for it, whatever the other processes do.
THEOREM ReadersSeeCommits == Spec => []ReadersSeeCommitted
<1>1. PagerInvariant => ReadersSeeCommitted
  <2> SUFFICES ASSUME PagerInvariant, NEW p \in Processes, at[p] \in {"reader", "writer"},
                      NEW pg \in DOMAIN cache[p] \ dirty[p]
               PROVE  cache[p][pg] = Content[pg]
    BY DEF ReadersSeeCommitted
  <2>1. LocalInvariant(p)
    BY TypesOf
  <2>2. CASE at[p] = "reader"
    BY <2>1, <2>2 DEF LocalInvariant, ReaderInvariant, Agrees
  <2>3. CASE at[p] = "writer"
    BY <2>1, <2>3 DEF LocalInvariant, Owns, Writing, Reserving
  <2> QED
    BY <2>2, <2>3
<1> QED
  BY <1>1, Holding, PTL

\* What a statement wrote that reported a failure is in no page of the file,
\* and a power loss, of which pager_playback repairs what it can, brings back
\* none of it: neither torn pages nor a journal whose deletion was lost.
THEOREM FailuresLeaveNothing == Spec => []FailedLeavesNothing
<1>1. PagerInvariant => FailedLeavesNothing
  <2> SUFFICES ASSUME PagerInvariant, NEW f \in FileOutcomes, NEW j \in JournalOutcomes,
                      NEW pg \in DataPages
               PROVE  Restored(f, j)[pg] \notin failed
    BY DEF FailedLeavesNothing, Possible
  <2>1. Restored(f, j) = Content \/ \E g \in ghosts : Restored(f, j) = Restored(file, g)
    BY Outcomes
  <2>2. Sound(Content) /\ \A g \in ghosts : Sound(Restored(file, g))
    BY DEF PagerInvariant, DiskInvariant
  <2> QED
    BY <2>1, <2>2 DEF Sound
<1> QED
  BY <1>1, Holding, PTL

-----------------------------------------------------------------------------
(***************************************************************************)
(* The file implements AtomicFile.                                         *)
(***************************************************************************)
\* A power loss leaves the contents, or those from before the last commit.
LEMMA OlderIs == PagerInvariant => Possible \ {Content} = GhostContents \ {Content}
<1> SUFFICES ASSUME PagerInvariant
             PROVE  Possible \ {Content} = GhostContents \ {Content}
  OBVIOUS
<1>1. ASSUME NEW c \in Possible \ {Content}
      PROVE  c \in GhostContents
  <2>1. PICK f \in FileOutcomes, j \in JournalOutcomes : c = Restored(f, j)
    BY DEF Possible
  <2>2. Restored(f, j) = Content \/ \E g \in ghosts : Restored(f, j) = Restored(file, g)
    BY Outcomes
  <2> QED
    BY <1>1, <2>1, <2>2 DEF GhostContents
<1>2. ASSUME NEW g \in ghosts
      PROVE  Restored(file, g) \in Possible
  <2>1. jsync = "none" /\ journal.count = 0 /\ \A pg \in Pages : Durable(pg)
    BY DEF PagerInvariant, DiskInvariant
  <2>2. file \in FileOutcomes
    BY <2>1 DEF FileOutcomes, Durable
  <2>3. g \in JournalOutcomes
    BY <2>1 DEF JournalOutcomes
  <2> QED
    BY <2>2, <2>3 DEF Possible
<1> QED
  BY <1>1, <1>2 DEF GhostContents

\* A step of a process is a commit, or moves nothing.
LEMMA StepIsAtomic ==
    ASSUME PagerInvariant, NEW p \in Processes, disk' # disk,
           Read(p) \/ Transact(p) \/ Rollback(p) \/ Crash(p)
    PROVE  Atomic!Next
<1>1. PagerInvariant' /\ (Settles \/ Finish(p))
  BY StepHolds
<1>2. Possible \ {Content} = GhostContents \ {Content}
  BY OlderIs
<1>3. (Possible \ {Content} = GhostContents \ {Content})'
  BY <1>1, OlderIs, PTL
<1>4. CASE Settles
  <2>1. Content' = Content /\ (Possible \ {Content})' \subseteq Possible \ {Content}
    BY <1>2, <1>3, <1>4 DEF Settles
  <2> QED
    BY <2>1 DEF Atomic!Next, Atomic!Settle
<1>5. CASE Finish(p)
  <2>1. Content' = file /\ file' = file /\ ghosts' = {journal}
    BY <1>5, FinishKeeps
  <2>2. at[p] = "delete"
    BY <1>5 DEF Finish
  <2>3. file[Header] = Content[Header] + 1 /\ file \in [Pages -> 0 .. last]
    BY <2>2, AtTheCommit
  <2>4. GhostContents' = {Content}
    <3>1. GhostContents' = {Restored(file, journal)}
      BY <2>1 DEF GhostContents
    <3> QED
      BY <3>1 DEF Content
  <2>5. (Possible \ {Content})' \subseteq {Content}
    BY <1>3, <2>4
  <2>6. DOMAIN Content' = Pages /\ Content'[Header] = Content[Header] + 1
    BY <2>1, <2>3
  <2> QED
    BY <2>5, <2>6 DEF Atomic!Next, Atomic!Commit
<1> QED
  BY <1>1, <1>4, <1>5

LEMMA LossIsAtomic ==
    ASSUME PagerInvariant, PowerLoss
    PROVE  Atomic!Next
<1>1. PagerInvariant'
  BY PowerLossKeeps
<1>2. Possible \ {Content} = GhostContents \ {Content}
  BY OlderIs
<1>3. (Possible \ {Content} = GhostContents \ {Content})'
  BY <1>1, OlderIs, PTL
<1>4. Content' \in Possible
  BY DEF PowerLoss, Content, Possible
<1>5. (Possible \ {Content})' = {}
  <2>1. ghosts' = {}
    BY DEF PowerLoss
  <2>2. GhostContents' = {}
    BY <2>1 DEF GhostContents
  <2> QED
    BY <1>3, <2>2
<1>6. CASE Content' = Content
  BY <1>5, <1>6 DEF Atomic!Next, Atomic!Settle
<1>7. CASE Content' # Content
  <2>1. Content' \in Possible \ {Content}
    BY <1>4, <1>7
  <2> QED
    BY <1>5, <2>1 DEF Atomic!Next, Atomic!PowerLoss
<1> QED
  BY <1>6, <1>7

LEMMA StartsAtomic == Init => Atomic!Init
<1> SUFFICES ASSUME Init
             PROVE  Atomic!Init
  OBVIOUS
<1>1. PagerInvariant
  BY InitHolds
<1>2. Content \in [Pages -> Nat]
  <2>1. file = [pg \in Pages |-> 0] /\ journal.count = 0
    BY DEF Init, NoJournal
  <2>2. Content = file
    BY <1>1, <2>1, AtRest
  <2> QED
    BY <2>1, <2>2
<1>3. Possible \ {Content} = {}
  BY <1>1, OlderIs DEF GhostContents, Init
<1> QED
  BY <1>2, <1>3 DEF Atomic!Init

\* The database file of several processes, whose calls fail, which are killed
\* and whose machine loses its power, is a file on which a transaction happens
\* at one moment or not at all: the deletion of the journal is that moment, and
\* a power loss takes back the last transaction at most.
THEOREM FileIsAtomic == Spec => ImplementsAtomicFile
<1>1. PagerInvariant /\ [Next]_vars => [disk # disk' => Atomic!Next]_disk
  <2> SUFFICES ASSUME PagerInvariant, [Next]_vars, disk # disk'
               PROVE  Atomic!Next
    OBVIOUS
  <2>1. CASE PowerLoss
    BY <2>1, LossIsAtomic
  <2>2. CASE \E p \in Processes : Read(p) \/ Transact(p) \/ Rollback(p) \/ Crash(p)
    BY <2>2, StepIsAtomic
  <2>3. CASE UNCHANGED vars
    BY <2>3 DEF vars
  <2> QED
    BY <2>1, <2>2, <2>3 DEF Next
<1> QED
  BY <1>1, Holding, StartsAtomic, PTL DEF ImplementsAtomicFile, Spec
=============================================================================
