------------------------------- MODULE Pager -------------------------------
(***************************************************************************)
(* The pager of sqlite3.c as database.cpp opens it: a rollback journal in  *)
(* journal_mode=DELETE, synchronous=FULL, no write-ahead log, no busy      *)
(* handler.  Several processes (the program, a second one, a shell) use    *)
(* the file; each has one connection.                                      *)
(*                                                                         *)
(* An action is one lock, one read or write of a file, one sync or one     *)
(* deletion.  Between two of them another process may act, a process may   *)
(* be killed, and the machine may lose its power: then of everything that  *)
(* was written and not synced any part may be on the disk.                 *)
(*                                                                         *)
(* A data page's content is the number of the transaction that wrote it.   *)
(* No transaction changes the size of the file.                            *)
(***************************************************************************)
EXTENDS Naturals, Sequences, FiniteSets

CONSTANTS Processes,
          DataPages,  \* the pages after the first
          MaxTxn      \* bound: the write transactions that begin

ASSUME PagerAssumption ==
    /\ DataPages \subseteq Nat \ {0, 1}
    /\ MaxTxn \in Nat

VARIABLES file,     \* per page its content, as a read sees it
          maybe,    \* per page the contents the disk may have
          journal,  \* the rollback journal
          jsync,    \* what of it is durable: "none", "records" or "all"
          ghosts,   \* journals that were deleted, but maybe not on the disk
          at,       \* per process: what it is about to do
          lock,     \* per process: its lock on the file
          cache,    \* per process: the pages it has, and their content
          vers,     \* per process: Pager.dbFileVers
          dirty,    \* per process: the pages of its cache it has changed
          pos,      \* per process: the pages a commit or a rollback is past
          mine,     \* per process: the number of its transaction
          last,     \* the last number that was given
          failed    \* history: transactions that were reported to have failed

disk == <<file, maybe, journal, jsync, ghosts>>
memory == <<cache, vers, dirty, pos, mine>>
vars == <<disk, at, lock, memory, last, failed>>

Header == 1
Pages == {Header} \cup DataPages
Torn == MaxTxn + 1  \* the content of a page that was written in part

NO_LOCK == 0
SHARED_LOCK == 1
RESERVED_LOCK == 2
PENDING_LOCK == 3
EXCLUSIVE_LOCK == 4

\* count is nRec of the header; a header of zeros has none.
NoJournal == [exists |-> FALSE, count |-> 0, recs |-> <<>>]

-----------------------------------------------------------------------------
\* The records a rollback plays back: those that are whole, up to count.
Records(j) == SubSeq(j.recs, 1, IF j.count < Len(j.recs) THEN j.count ELSE Len(j.recs))

\* The file f after journal j has been played back.
Restored(f, j) ==
    LET of(pg) == {k \in DOMAIN Records(j) : j.recs[k].page = pg}
    IN  IF j.count = 0 THEN f
        ELSE [pg \in Pages |-> IF of(pg) = {} THEN f[pg]
                               ELSE j.recs[CHOOSE k \in of(pg) : TRUE].val]

Content == Restored(file, journal)

Put(c, pg, v) == [q \in DOMAIN c \cup {pg} |-> IF q = pg THEN v ELSE c[q]]
NoCache == <<>>

\* A page goes to the operating system, or to the disk.
WriteFile(pg, v) ==
    /\ file' = [file EXCEPT ![pg] = v]
    /\ maybe' = [maybe EXCEPT ![pg] = @ \cup {v}]
SyncFile == maybe' = [pg \in Pages |-> {file[pg]}] /\ UNCHANGED file

DeleteJournal ==
    /\ journal' = NoJournal
    /\ jsync' = "none"
    /\ ghosts' = IF journal.count > 0 THEN ghosts \cup {journal} ELSE ghosts

\* What a power loss can leave of a page, of the file, and of the journal: a
\* deleted one may be back, one that was not synced lacks records or its header.
PageOutcomes(pg) == IF maybe[pg] = {file[pg]} THEN maybe[pg] ELSE maybe[pg] \cup {Torn}
FileOutcomes ==
    IF \A pg \in Pages : maybe[pg] = {file[pg]}
    THEN {file}
    ELSE {f \in [Pages -> 0 .. Torn] : \A pg \in Pages : f[pg] \in PageOutcomes(pg)}

HeaderLost == [exists |-> TRUE, count |-> 0, recs |-> <<>>]
JournalOutcomes ==
    (IF jsync = "none" THEN {NoJournal} \cup ghosts ELSE {}) \cup
    (IF ~journal.exists THEN {}
     ELSE CASE jsync = "all" -> {journal}
            [] jsync = "records" -> {journal, HeaderLost}
            [] OTHER -> {HeaderLost} \cup {[journal EXCEPT !.recs = SubSeq(@, 1, k)] :
                                               k \in DOMAIN Records(journal)})

\* The contents a power loss can leave, once the next process has recovered.
Possible == {Restored(f, j) : f \in FileOutcomes, j \in JournalOutcomes}

-----------------------------------------------------------------------------
To(p, step) == at' = [at EXCEPT ![p] = step]
Lock(p, l) == lock' = [lock EXCEPT ![p] = l]

\* unixLock: what the locks of the others allow.
Others(p) == Processes \ {p}
CanShare(p) == \A q \in Others(p) : lock[q] < PENDING_LOCK
CanReserve(p) == \A q \in Others(p) : lock[q] < RESERVED_LOCK
CanExclude(p) == \A q \in Others(p) : lock[q] = NO_LOCK

-----------------------------------------------------------------------------
(***************************************************************************)
(* sqlite3PagerSharedLock: a lock to read, after a look for a journal that *)
(* a dead process has left.                                                *)
(***************************************************************************)
SharedLock(p) ==
    /\ at[p] = "open"
    /\ CanShare(p)
    /\ Lock(p, SHARED_LOCK)
    /\ To(p, "exists")
    /\ UNCHANGED <<disk, memory, last, failed>>

\* hasHotJournal looks at three things, one after the other.
JournalExists(p) ==
    /\ at[p] = "exists"
    /\ To(p, IF journal.exists THEN "reserved" ELSE "validate")
    /\ UNCHANGED <<disk, lock, memory, last, failed>>

CheckReservedLock(p) ==
    /\ at[p] = "reserved"
    /\ To(p, IF CanReserve(p) THEN "first_byte" ELSE "validate")
    /\ UNCHANGED <<disk, lock, memory, last, failed>>

\* A journal that is gone by now is taken for a hot one.
FirstByte(p) ==
    /\ at[p] = "first_byte"
    /\ To(p, IF journal.exists /\ journal.count = 0 THEN "validate" ELSE "hot")
    /\ UNCHANGED <<disk, lock, memory, last, failed>>

\* The exclusive lock, and a second look for the journal under it.
LockHot(p) ==
    /\ at[p] = "hot"
    /\ \/ /\ CanExclude(p) /\ journal.exists
          /\ Lock(p, EXCLUSIVE_LOCK)
          /\ To(p, "sync_hot")
       \/ /\ CanExclude(p) /\ ~journal.exists
          /\ To(p, "validate")
          /\ UNCHANGED lock
       \/ /\ ~CanExclude(p)
          /\ Lock(p, NO_LOCK)
          /\ To(p, "open")
    /\ UNCHANGED <<disk, memory, last, failed>>

\* Its directory is not synced with it.
SyncHotJournal(p) ==
    /\ at[p] = "sync_hot"
    /\ jsync' = IF jsync = "none" THEN jsync ELSE "all"
    /\ To(p, "play_hot")
    /\ UNCHANGED <<file, maybe, journal, ghosts, lock, memory, last, failed>>

\* A validation that trusts the cache.
TrustCache(p) ==
    /\ at[p] = "validate"
    /\ LET kept == cache[p]
       IN  cache' = [cache EXCEPT ![p] =
                        IF Header \in DOMAIN kept THEN kept ELSE Put(kept, Header, file[Header])]
    /\ vers' = [vers EXCEPT ![p] = file[Header]]
    /\ To(p, "reader")
    /\ UNCHANGED <<disk, lock, dirty, pos, mine, last, failed>>

\* The cache is kept if the change counter is the one it was read under; the
\* first page is read next.
Validate(p) ==
    /\ at[p] = "validate"
    /\ LET kept == IF vers[p] = file[Header] THEN cache[p] ELSE NoCache
       IN  cache' = [cache EXCEPT ![p] =
                        IF Header \in DOMAIN kept THEN kept ELSE Put(kept, Header, file[Header])]
    /\ vers' = [vers EXCEPT ![p] = file[Header]]
    /\ To(p, "reader")
    /\ UNCHANGED <<disk, lock, dirty, pos, mine, last, failed>>

\* readDbPage.
Fetch(p, pg) ==
    /\ at[p] \in {"reader", "writer"}
    /\ pg \notin DOMAIN cache[p]
    /\ cache' = [cache EXCEPT ![p] = Put(@, pg, file[pg])]
    /\ UNCHANGED <<disk, at, lock, vers, dirty, pos, mine, last, failed>>

\* pagerUnlockAndRollback of a reader; the cache stays.
Unlock(p) ==
    /\ at[p] = "reader"
    /\ Lock(p, NO_LOCK)
    /\ To(p, "open")
    /\ UNCHANGED <<disk, memory, last, failed>>

-----------------------------------------------------------------------------
(***************************************************************************)
(* A write transaction.                                                    *)
(***************************************************************************)
Begin(p) ==
    /\ at[p] = "reader"
    /\ CanReserve(p)
    /\ last < MaxTxn
    /\ Lock(p, RESERVED_LOCK)
    /\ To(p, "writer")
    /\ last' = last + 1
    /\ mine' = [mine EXCEPT ![p] = last + 1]
    /\ UNCHANGED <<disk, cache, vers, dirty, pos, failed>>

\* pager_write: the first one opens the journal, under a header of zeros; each
\* appends the page as it was and changes it in the cache.
Journalled(p, pg, v) ==
    LET recs == IF dirty[p] = {} THEN <<>> ELSE journal.recs
    IN  /\ journal' = [exists |-> TRUE, count |-> 0,
                       recs |-> Append(recs, [page |-> pg, val |-> cache[p][pg]])]
        /\ jsync' = "none"
        /\ cache' = [cache EXCEPT ![p] = Put(@, pg, v)]
        /\ dirty' = [dirty EXCEPT ![p] = @ \cup {pg}]
        /\ UNCHANGED <<file, maybe, ghosts, lock, vers, pos, mine, last, failed>>

Write(p, pg) ==
    /\ at[p] = "writer"
    /\ pg \in (DOMAIN cache[p] \cap DataPages) \ dirty[p]
    /\ Journalled(p, pg, mine[p])
    /\ UNCHANGED at

\* The transaction has written nothing.
EndEmpty(p) ==
    /\ at[p] = "writer"
    /\ dirty[p] = {}
    /\ Lock(p, SHARED_LOCK)
    /\ To(p, "reader")
    /\ mine' = [mine EXCEPT ![p] = 0]
    /\ UNCHANGED <<disk, cache, vers, dirty, pos, last, failed>>

\* pager_incr_changecounter, the first step of the commit.
IncrCounter(p) ==
    /\ at[p] = "writer"
    /\ dirty[p] # {}
    /\ Journalled(p, Header, vers[p] + 1)
    /\ To(p, "lock")

\* The statement reports that it has failed.
Report(p) == failed' = failed \cup {mine[p]}

\* No reader may be left.  If one is, the PENDING lock is kept until the
\* rollback is over.
ExclusiveLock(p) ==
    /\ at[p] = "lock"
    /\ \/ /\ CanExclude(p)
          /\ Lock(p, EXCLUSIVE_LOCK)
          /\ To(p, "sync_records")
          /\ UNCHANGED failed
       \/ /\ ~CanExclude(p)
          /\ Lock(p, PENDING_LOCK)
          /\ To(p, "undo")
          /\ Report(p)
    /\ UNCHANGED <<disk, memory, last>>

\* syncJournal: the records, then the header with their number.  The first
\* sync of a journal syncs its directory too.
SyncRecords(p) ==
    /\ at[p] = "sync_records"
    /\ jsync' = "records"
    /\ ghosts' = {}
    /\ To(p, "header")
    /\ UNCHANGED <<file, maybe, journal, lock, memory, last, failed>>

\* A header that counts one record more.
WriteHeaderOver(p) ==
    /\ at[p] = "header"
    /\ journal' = [journal EXCEPT !.count = Len(journal.recs) + 1]
    /\ To(p, "sync_header")
    /\ UNCHANGED <<file, maybe, jsync, ghosts, lock, memory, last, failed>>

WriteHeader(p) ==
    /\ at[p] = "header"
    /\ journal' = [journal EXCEPT !.count = Len(journal.recs)]
    /\ To(p, "sync_header")
    /\ UNCHANGED <<file, maybe, jsync, ghosts, lock, memory, last, failed>>

\* A commit that does not sync the header before it writes the pages.
SkipSyncHeader(p) ==
    /\ at[p] = "sync_header"
    /\ To(p, "write_file")
    /\ UNCHANGED <<disk, lock, memory, last, failed>>

SyncHeader(p) ==
    /\ at[p] = "sync_header"
    /\ jsync' = "all"
    /\ To(p, "write_file")
    /\ UNCHANGED <<file, maybe, journal, ghosts, lock, memory, last, failed>>

\* The dirty pages in the order of their numbers.
NextDirty(p) ==
    CHOOSE pg \in dirty[p] : Cardinality({q \in dirty[p] : q < pg}) = pos[p]

\* pager_write_pagelist.
WritePage(p) ==
    /\ at[p] = "write_file"
    /\ pos[p] < Cardinality(dirty[p])
    /\ LET pg == NextDirty(p)
       IN  /\ WriteFile(pg, cache[p][pg])
           /\ vers' = [vers EXCEPT ![p] = IF pg = Header THEN cache[p][pg] ELSE @]
    /\ pos' = [pos EXCEPT ![p] = @ + 1]
    /\ UNCHANGED <<journal, jsync, ghosts, at, lock, cache, dirty, mine, last, failed>>

SyncPages(p) ==
    /\ at[p] = "write_file"
    /\ pos[p] = Cardinality(dirty[p])
    /\ SyncFile
    /\ pos' = [pos EXCEPT ![p] = 0]
    /\ To(p, "delete")
    /\ UNCHANGED <<journal, jsync, ghosts, lock, cache, vers, dirty, mine, last, failed>>

\* pager_end_transaction; the deletion is the moment of the commit.
Finish(p) ==
    /\ at[p] = "delete"
    /\ DeleteJournal
    /\ Lock(p, SHARED_LOCK)
    /\ dirty' = [dirty EXCEPT ![p] = {}]
    /\ mine' = [mine EXCEPT ![p] = 0]
    /\ To(p, "reader")
    /\ UNCHANGED <<file, maybe, cache, vers, pos, last, failed>>

-----------------------------------------------------------------------------
(***************************************************************************)
(* A commit that fails, and the rollback.                                  *)
(***************************************************************************)
\* Before the file has been written: the cache alone has to be restored.
CommitFails(p) ==
    /\ \/ at[p] \in {"sync_records", "header", "sync_header"}
       \/ at[p] = "writer" /\ dirty[p] # {}
    /\ To(p, "undo")
    /\ Report(p)
    /\ UNCHANGED <<disk, lock, memory, last>>

\* A page, maybe in part, or none of them is written.
PartOf(pg) ==
    \/ WriteFile(pg, Torn)
    \/ UNCHANGED <<file, maybe>>

WriteFails(p) ==
    /\ at[p] = "write_file"
    /\ IF pos[p] < Cardinality(dirty[p])
       THEN PartOf(NextDirty(p))
       ELSE UNCHANGED <<file, maybe>>
    /\ vers' = [vers EXCEPT ![p] =
                    IF pos[p] < Cardinality(dirty[p]) /\ NextDirty(p) = Header
                    THEN cache[p][Header] ELSE @]
    /\ pos' = [pos EXCEPT ![p] = 0]
    /\ To(p, "play")
    /\ Report(p)
    /\ UNCHANGED <<journal, jsync, ghosts, lock, cache, dirty, mine, last>>

\* The journal is gone when its deletion is reported to have failed.
FinishUnsure(p) ==
    /\ at[p] = "delete"
    /\ DeleteJournal
    /\ Lock(p, SHARED_LOCK)
    /\ To(p, "error")
    /\ Report(p)
    /\ UNCHANGED <<file, maybe, memory, last>>

\* The journal cannot be deleted: it stays, for the next process to play back.
FinishFails(p) ==
    /\ at[p] = "delete"
    /\ Lock(p, SHARED_LOCK)
    /\ To(p, "error")
    /\ Report(p)
    /\ UNCHANGED <<disk, memory, last>>

\* pager_playback while the file has not been written.
Undo(p) ==
    /\ at[p] = "undo"
    /\ LET old == [pg \in {journal.recs[k].page : k \in DOMAIN journal.recs} |->
                      journal.recs[CHOOSE k \in DOMAIN journal.recs :
                                       journal.recs[k].page = pg].val]
       IN  cache' = [cache EXCEPT ![p] =
                        [pg \in DOMAIN @ |-> IF pg \in DOMAIN old THEN old[pg] ELSE @[pg]]]
    /\ vers' = [vers EXCEPT ![p] = cache'[p][Header]]
    /\ To(p, "delete_undone")
    /\ UNCHANGED <<disk, lock, dirty, pos, mine, last, failed>>

\* pager_playback of the own journal or of a hot one, page for page.  A hot
\* one empties the cache first.
Play(p) ==
    LET r == journal.recs[pos[p] + 1]
        kept == IF at[p] = "play_hot" THEN NoCache ELSE cache[p]
    IN  /\ at[p] \in {"play", "play_hot"}
        /\ pos[p] < Len(Records(journal))
        /\ WriteFile(r.page, r.val)
        /\ cache' = [cache EXCEPT ![p] =
                        IF r.page \in DOMAIN kept THEN Put(kept, r.page, r.val) ELSE kept]
        /\ vers' = [vers EXCEPT ![p] =
                        IF Header = r.page /\ Header \in DOMAIN kept THEN r.val ELSE @]
        /\ pos' = [pos EXCEPT ![p] = @ + 1]
        /\ UNCHANGED <<journal, jsync, ghosts, at, lock, dirty, mine, last, failed>>

SyncPlayed(p) ==
    /\ at[p] \in {"play", "play_hot"}
    /\ pos[p] = Len(Records(journal))
    /\ SyncFile
    /\ pos' = [pos EXCEPT ![p] = 0]
    /\ To(p, IF at[p] = "play" THEN "delete_undone" ELSE "delete_hot")
    /\ UNCHANGED <<journal, jsync, ghosts, lock, cache, vers, dirty, mine, last, failed>>

DeletePlayed(p) ==
    /\ at[p] \in {"delete_undone", "delete_hot"}
    /\ DeleteJournal
    /\ Lock(p, SHARED_LOCK)
    /\ dirty' = [dirty EXCEPT ![p] = {}]
    /\ mine' = [mine EXCEPT ![p] = 0]
    /\ To(p, IF at[p] = "delete_hot" THEN "validate" ELSE "reader")
    /\ UNCHANGED <<file, maybe, cache, vers, pos, last, failed>>

\* The rollback fails as well.
PlayFails(p) ==
    /\ \/ /\ at[p] \in {"play", "play_hot"}
          /\ IF pos[p] < Len(Records(journal))
             THEN PartOf(journal.recs[pos[p] + 1].page)
             ELSE UNCHANGED <<file, maybe>>
          /\ UNCHANGED lock
       \/ /\ at[p] = "sync_hot"
          /\ UNCHANGED <<file, maybe, lock>>
       \/ /\ at[p] \in {"delete_undone", "delete_hot"}
          /\ Lock(p, SHARED_LOCK)
          /\ UNCHANGED <<file, maybe>>
    /\ To(p, "error")
    /\ UNCHANGED <<journal, jsync, ghosts, memory, last, failed>>

\* What a process knows that has no lock and nothing in its cache.
Forgotten(p) ==
    /\ Lock(p, NO_LOCK)
    /\ To(p, "open")
    /\ cache' = [cache EXCEPT ![p] = NoCache]
    /\ dirty' = [dirty EXCEPT ![p] = {}]
    /\ pos' = [pos EXCEPT ![p] = 0]
    /\ mine' = [mine EXCEPT ![p] = 0]

\* pager_unlock in PAGER_ERROR: the cache cannot be trusted.
UnlockError(p) ==
    /\ at[p] = "error"
    /\ Forgotten(p)
    /\ UNCHANGED <<disk, vers, last, failed>>

-----------------------------------------------------------------------------
(***************************************************************************)
(* The end of a process, and of all.                                       *)
(***************************************************************************)
Crash(p) ==
    /\ at[p] # "open" \/ cache[p] # NoCache
    /\ Forgotten(p)
    /\ vers' = [vers EXCEPT ![p] = 0]
    /\ UNCHANGED <<disk, last, failed>>

PowerLoss ==
    /\ file' \in FileOutcomes
    /\ maybe' = [pg \in Pages |-> {file'[pg]}]
    /\ journal' \in JournalOutcomes
    /\ jsync' = IF journal'.exists THEN "all" ELSE "none"
    /\ ghosts' = {}
    /\ lock' = [p \in Processes |-> NO_LOCK]
    /\ at' = [p \in Processes |-> "open"]
    /\ cache' = [p \in Processes |-> NoCache]
    /\ vers' = [p \in Processes |-> 0]
    /\ dirty' = [p \in Processes |-> {}]
    /\ pos' = [p \in Processes |-> 0]
    /\ mine' = [p \in Processes |-> 0]
    /\ UNCHANGED <<last, failed>>

-----------------------------------------------------------------------------
\* The file has been made before.
Init ==
    /\ file = [pg \in Pages |-> 0]
    /\ maybe = [pg \in Pages |-> {0}]
    /\ journal = NoJournal
    /\ jsync = "none"
    /\ ghosts = {}
    /\ at = [p \in Processes |-> "open"]
    /\ lock = [p \in Processes |-> NO_LOCK]
    /\ cache = [p \in Processes |-> NoCache]
    /\ vers = [p \in Processes |-> 0]
    /\ dirty = [p \in Processes |-> {}]
    /\ pos = [p \in Processes |-> 0]
    /\ mine = [p \in Processes |-> 0]
    /\ last = 0
    /\ failed = {}

Read(p) ==
    \/ SharedLock(p)
    \/ JournalExists(p)
    \/ CheckReservedLock(p)
    \/ FirstByte(p)
    \/ LockHot(p)
    \/ SyncHotJournal(p)
    \/ Validate(p)
    \/ \E pg \in Pages : Fetch(p, pg)
    \/ Unlock(p)

Transact(p) ==
    \/ Begin(p)
    \/ \E pg \in DataPages : Write(p, pg)
    \/ EndEmpty(p)
    \/ IncrCounter(p)
    \/ ExclusiveLock(p)
    \/ SyncRecords(p)
    \/ WriteHeader(p)
    \/ SyncHeader(p)
    \/ WritePage(p)
    \/ SyncPages(p)
    \/ Finish(p)

Rollback(p) ==
    \/ CommitFails(p)
    \/ WriteFails(p)
    \/ FinishFails(p)
    \/ Undo(p)
    \/ Play(p)
    \/ SyncPlayed(p)
    \/ DeletePlayed(p)
    \/ PlayFails(p)
    \/ UnlockError(p)

Next ==
    \/ \E p \in Processes : Read(p) \/ Transact(p) \/ Rollback(p) \/ Crash(p)
    \/ PowerLoss

Spec == Init /\ [][Next]_vars

-----------------------------------------------------------------------------
(***************************************************************************)
(* Properties.                                                             *)
(***************************************************************************)
Steps == {"open", "exists", "reserved", "first_byte", "hot", "sync_hot", "play_hot",
          "delete_hot", "validate", "reader", "writer", "lock", "sync_records",
          "header", "sync_header", "write_file", "delete", "undo", "play",
          "delete_undone", "error"}

TypeOK ==
    /\ file \in [Pages -> 0 .. Torn]
    /\ maybe \in [Pages -> SUBSET (0 .. Torn)]
    /\ journal.exists \in BOOLEAN
    /\ journal.recs \in Seq([page : Pages, val : 0 .. MaxTxn])
    /\ journal.count \in 0 .. Len(journal.recs)
    /\ jsync \in {"none", "records", "all"}
    /\ at \in [Processes -> Steps]
    /\ lock \in [Processes -> NO_LOCK .. EXCLUSIVE_LOCK]
    /\ \A p \in Processes : cache[p] \in [DOMAIN cache[p] -> 0 .. MaxTxn]
    /\ dirty \in [Processes -> SUBSET Pages]
    /\ failed \subseteq 1 .. last

\* A process that reads sees what the last commit left, whatever other
\* processes wrote, left half done, or lost, since it filled its cache.
ReadersSeeCommitted ==
    \A p \in Processes :
        at[p] \in {"reader", "writer"} =>
            \A pg \in DOMAIN cache[p] \ dirty[p] : cache[p][pg] = Content[pg]

\* What a statement wrote that reported a failure is not in the file, and no
\* power loss brings it back.
FailedLeavesNothing ==
    \A content \in Possible : \A pg \in DataPages : content[pg] \notin failed

Atomic == INSTANCE AtomicFile WITH content <- Content, older <- Possible \ {Content}

\* The file, with what the next process would roll back, implements AtomicFile.
\* A step that leaves the disk alone changes neither of the two.
ImplementsAtomicFile == Atomic!Init /\ [][disk # disk' => Atomic!Next]_disk
=============================================================================
