----------------------------- MODULE FileLocks ------------------------------
(***************************************************************************)
(* The locks of one inode at the master: requests are granted, refused or  *)
(* queued, and whatever frees a range tries the queue again.  flock is the *)
(* case of the single range [0, 1).                                        *)
(*                                                                         *)
(* Once the inode is gone, lock requests are refused and change nothing;   *)
(* its locks remain until the sessions that have them end.                 *)
(*                                                                         *)
(* held and unanswered record what the clients know: the locks they were   *)
(* told they have, and the requests they wait for.                         *)
(***************************************************************************)
EXTENDS LockRanges

CONSTANTS
    Owner,       \* lock owners, numbers
    Session,     \* the session of every owner
    EOF,         \* end of the longest range: the largest offset
    Ranges,      \* the ranges <<start, end>> that clients lock and unlock
    MaxPending   \* bound: requests that wait at one time

ASSUME OwnerAssumption ==
    /\ IsFiniteSet(Owner) /\ Owner \subseteq Nat
    /\ Session \in [Owner -> Nat]

ASSUME RangeAssumption ==
    /\ EOF \in Nat \ {0} /\ MaxPending \in Nat
    /\ \A range \in Ranges : range[1] \in Nat /\ range[2] \in 1..EOF /\ range[1] < range[2]

VARIABLES
    exists,      \* the inode can be found
    table,       \* the inode's active_locks_ and pending_locks_
    held,        \* what every owner was told it holds, byte by byte
    unanswered   \* requests whose client waits for an answer

vars == <<exists, table, held, unanswered>>

Byte == 0..(EOF - 1)

Empty == [active |-> <<>>, pending |-> <<>>]

Nothing == [o \in Owner |-> [b \in Byte |-> "none"]]

Init == exists = TRUE /\ table = Empty /\ held = Nothing /\ unanswered = {}

-----------------------------------------------------------------------------
(* FileLocks: t is the state of an inode.                                  *)

Before(a, b) == a.start < b.start \/ (a.start = b.start /\ a.end < b.end)

\* enqueue: a lock comes before the equal ones that wait already.
Enqueue(queue, lock) ==
    InsertAt(queue, Cardinality({i \in DOMAIN queue : Before(queue[i], lock)}) + 1, lock)

\* Mutant: what cannot be granted is not queued again.
MutApply(t, lock, nonblocking) ==
    IF Fits(t.active, lock) THEN [t EXCEPT !.active = Insert(@, lock)] ELSE t

Apply(t, lock, nonblocking) ==
    IF Fits(t.active, lock) THEN [t EXCEPT !.active = Insert(@, lock)]
    ELSE IF nonblocking THEN t
    ELSE [t EXCEPT !.pending = Enqueue(@, lock)]

\* gatherCandidates searches the queue as findCollision searches the ranges.
GatherCandidates(queue, start, end) ==
    [candidates |-> Window(queue, start, end),
     rest |-> SubSeq(queue, 1, From(queue, start) - 1)
                \o SubSeq(queue, Upto(queue, end) + 1, Len(queue))]

\* manageLockTryLockPending and the end of lockOperation: r is a state with
\* the locks applied so far.
TryLockPending(r, start, end) ==
    LET gathered == GatherCandidates(r.t.pending, start, end)
        Try(acc, lock) ==
            [t |-> Apply(acc.t, lock, FALSE),
             applied |-> IF Fits(acc.t.active, lock)
                         THEN Append(acc.applied, lock) ELSE acc.applied]
    IN  FoldLeft(Try, [r EXCEPT !.t.pending = gathered.rest], gathered.candidates)

\* lockOperation for kShared and kExclusive.
LockOperation(t, lock, nonblocking) ==
    LET r == [t |-> Apply(t, lock, nonblocking), applied |-> <<>>]
    IN  IF lock.type = "exclusive" THEN r
        ELSE TryLockPending(r, lock.start, lock.end)

\* lockOperation for kUnlock.
UnlockOperation(t, start, end, owner) ==
    TryLockPending([t |-> Apply(t, Lock("unlock", start, end, owner), FALSE),
                    applied |-> <<>>], start, end)

RemovePending(t, owner) ==
    LET Stays(lock) == lock.owners # {owner}
    IN  [t EXCEPT !.pending = SelectSeq(@, Stays)]

\* lockOperation for kRelease.
ReleaseOperation(t, owner) ==
    UnlockOperation(RemovePending(t, owner), 0, EOF, owner)

\* matocl_session_lock_owners, in the order in which they are released.
SessionLockOwners(t, session) ==
    SetToSortSeq({o \in Owner :
                    /\ Session[o] = session
                    /\ \E lock \in ToSet(t.active) \cup ToSet(t.pending) :
                         o \in lock.owners}, <)

\* matocl_locks_release: grants to other owners of the session are not told.
ReleaseSession(t, session) ==
    LET Release(acc, o) ==
            LET r == ReleaseOperation(acc.t, o)
                Told(lock) == \A p \in lock.owners : Session[p] # session
            IN  [t |-> r.t, applied |-> acc.applied \o SelectSeq(r.applied, Told)]
    IN  FoldLeft(Release, [t |-> t, applied |-> <<>>], SessionLockOwners(t, session))

\* FileLocks::unlock with a predicate: the session is taken out of every range.
UnlockSession(active, session) ==
    LET Without(lock) == [lock EXCEPT !.owners = {o \in @ : Session[o] # session}]
        Owned(lock) == lock.owners # {}
    IN  SelectSeq([i \in DOMAIN active |-> Without(active[i])], Owned)

RemoveSessionPending(t, session) ==
    LET Stays(lock) == \A o \in lock.owners : Session[o] # session
    IN  [t EXCEPT !.pending = SelectSeq(@, Stays)]

\* locksClearSession: what waits for the ranges that were freed is answered as
\* if granted, but not applied.
ClearSession(t, session) ==
    LET u == RemoveSessionPending(t, session)
        freed == {lock \in ToSet(t.active) : \E o \in lock.owners : Session[o] = session}
        gathered == GatherCandidates(u.pending, Min({lock.start : lock \in freed}),
                                                Max({lock.end : lock \in freed}))
        active == UnlockSession(t.active, session)
    IN  IF freed = {} THEN [t |-> u, applied |-> <<>>]
        ELSE [t |-> [active |-> active, pending |-> gathered.rest],
              applied |-> gathered.candidates]

\* locksUnlockInode.
UnlockInode(t) ==
    TryLockPending([t |-> [t EXCEPT !.active = <<>>], applied |-> <<>>], 0, EOF)

-----------------------------------------------------------------------------
(* What the clients are told.                                              *)

Mark(h, lock) ==
    [o \in Owner |-> [b \in Byte |->
        IF o \in lock.owners /\ lock.start <= b /\ b < lock.end
        THEN lock.type ELSE h[o][b]]]

MarkAll(h, locks) == FoldLeft(Mark, h, locks)

\* The state after an operation with result r; h and w are what the clients
\* know and wait for once the operation itself is answered.
Answer(r, h, w) ==
    /\ table' = r.t
    /\ held' = MarkAll(h, r.applied)
    /\ unanswered' = w \ ToSet(r.applied)

-----------------------------------------------------------------------------
(* Requests.                                                               *)

Waits(o) == \E lock \in unanswered : lock.owners = {o}

\* matoclserv_fuse_setlk and matoclserv_fuse_flock with a lock.  The flag is of
\* no importance to a lock that fits.
SetLk(o, type, range, nonblocking) ==
    LET lock == Lock(type, range[1], range[2], o)
        fits == Fits(table.active, lock)
    IN  /\ exists
        /\ ~Waits(o)
        /\ nonblocking => ~fits
        /\ fits \/ nonblocking \/ Cardinality(unanswered) < MaxPending
        /\ Answer(LockOperation(table, lock, nonblocking),
                  IF fits THEN Mark(held, lock) ELSE held,
                  IF fits \/ nonblocking THEN unanswered ELSE unanswered \cup {lock})
        /\ UNCHANGED exists

\* The same with F_UNLCK.
Unlock(o, range) ==
    /\ exists
    /\ Answer(UnlockOperation(table, range[1], range[2], o),
              Mark(held, Lock("none", range[1], range[2], o)), unanswered)
    /\ UNCHANGED exists

\* The same when the file is closed.
Release(o) ==
    /\ exists
    /\ Answer(ReleaseOperation(table, o), Mark(held, Lock("none", 0, EOF, o)),
              {lock \in unanswered : lock.owners # {o}})
    /\ UNCHANGED exists

\* matoclserv_fuse_locks_interrupt for the request that waits.
Interrupt(o) ==
    /\ Waits(o)
    /\ Answer([t |-> RemovePending(table, o), applied |-> <<>>], held,
              {lock \in unanswered : lock.owners # {o}})
    /\ UNCHANGED exists

\* matocl_close_files of a session that ends.
CloseSession(session) ==
    /\ Answer(IF exists THEN ReleaseSession(table, session) ELSE ClearSession(table, session),
              [o \in Owner |-> IF Session[o] = session THEN Nothing[o] ELSE held[o]],
              {lock \in unanswered : \A o \in lock.owners : Session[o] # session})
    /\ UNCHANGED exists

\* matoclserv_manage_locks_unlock of the whole inode.
ManageLocksUnlock == Answer(UnlockInode(table), Nothing, unanswered) /\ UNCHANGED exists

\* doEmptyReserved: a file without links is released for the sessions that have
\* it open and purged with the last one; their locks stay.
PurgeReserved == exists /\ exists' = FALSE /\ UNCHANGED <<table, held, unanswered>>

Next ==
    \/ \E o \in Owner, range \in Ranges :
         \/ \E type \in {"shared", "exclusive"}, nonblocking \in BOOLEAN :
              SetLk(o, type, range, nonblocking)
         \/ Unlock(o, range)
    \/ \E o \in Owner : Release(o) \/ Interrupt(o)
    \/ \E session \in {Session[o] : o \in Owner} : CloseSession(session)
    \/ ManageLocksUnlock \/ PurgeReserved

Spec == Init /\ [][Next]_vars

-----------------------------------------------------------------------------

\* The ranges of LockRanges are exactly the locks the clients were told they
\* hold: insert's merging, splitting and sharing loses and adds nothing.  When
\* the inode is gone, no range is left of a session that has ended.
ActiveIsHeld ==
    \A o \in Owner, b \in Byte :
        LET covering == {i \in DOMAIN table.active :
                            /\ table.active[i].start <= b /\ b < table.active[i].end
                            /\ o \in table.active[i].owners}
            type == IF covering = {} THEN "none"
                    ELSE table.active[CHOOSE i \in covering : TRUE].type
        IN  IF exists THEN held[o][b] = type
            ELSE held[o][b] = "none" => type = "none"

\* No client holds an exclusive lock on a byte of a file that another one has
\* locked.
ExclusiveExcludes ==
    \A o, p \in Owner, b \in Byte :
        exists /\ o # p /\ held[o][b] = "exclusive" => held[p][b] = "none"

\* The vector is sorted and its ranges are disjoint, as the binary searches
\* of findCollision and insert require.
SortedDisjoint ==
    \A i \in DOMAIN table.active :
        /\ table.active[i].start < table.active[i].end
        /\ i > 1 => table.active[i - 1].end <= table.active[i].start

\* A client waits exactly for the requests in the queue: none is lost when the
\* candidates are taken out and tried, none is granted after it was withdrawn.
QueueIsUnanswered ==
    /\ ToSet(table.pending) = unanswered
    /\ Len(table.pending) = Cardinality(unanswered)

\* gatherCandidates finds whatever might be granted after a range is freed
\* (locks.h): no request waits that could be granted.
PendingIsBlocked ==
    \A i \in DOMAIN table.pending : ~Fits(table.active, table.pending[i])
=============================================================================
