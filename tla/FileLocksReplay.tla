-------------------------- MODULE FileLocksReplay ---------------------------
(***************************************************************************)
(* The locks of FileLocks at a shadow that replays the changelog.  The     *)
(* shadow applies the entries in order and its result depends on nothing   *)
(* else, so that each one is replayed here in the step that writes it.     *)
(***************************************************************************)
EXTENDS FileLocks

VARIABLE replica   \* the inode's active_locks_ and pending_locks_ at the shadow

ReplayInit == Init /\ replica = Empty

\* do_lock_op of FLCK: the entry does not say that the request was nonblocking.
ReplayLock(lock) == replica' = LockOperation(replica, lock, FALSE).t

ReplayUnlock(start, end, owner) == replica' = UnlockOperation(replica, start, end, owner).t

\* The FLCK entries of matocl_locks_release, one for every owner the master found.
ReplayReleases(owners) ==
    LET Replay(t, o) == ReleaseOperation(t, o).t
    IN  replica' = FoldLeft(Replay, replica, owners)

\* do_remove_pending_op of RMPLOCK: the entry names a request id, and all that
\* do_lock_op queues has the id 0, which is the id of a mount's first request only.
ReplayRemovePending(owner) ==
    replica' \in {replica, RemovePending(replica, owner)}

\* do_lock_clear_session of CLRLCK, which the master writes for an inode that is gone.
ReplayClearSession(session) == replica' = ClearSession(replica, session).t

\* do_lock_unlock_inode of FLCKINODE.
ReplayUnlockInode == replica' = UnlockInode(replica).t

ReplayNext ==
    \/ \E o \in Owner, range \in Ranges :
         \/ \E type \in {"shared", "exclusive"}, nonblocking \in BOOLEAN :
              /\ SetLk(o, type, range, nonblocking)
              /\ ReplayLock(Lock(type, range[1], range[2], o))
         \/ Unlock(o, range) /\ ReplayUnlock(range[1], range[2], o)
    \/ \E o \in Owner :
         \/ Release(o) /\ ReplayReleases(<<o>>)
         \/ Interrupt(o) /\ ReplayRemovePending(o)
    \/ \E session \in {Session[o] : o \in Owner} :
         /\ CloseSession(session)
         /\ IF exists THEN ReplayReleases(SessionLockOwners(table, session))
            ELSE ReplayClearSession(session)
    \/ ManageLocksUnlock /\ ReplayUnlockInode
    \/ PurgeReserved /\ UNCHANGED replica

ReplaySpec == ReplayInit /\ [][ReplayNext]_<<vars, replica>>

-----------------------------------------------------------------------------

\* Master and shadow are in sync (leil-master.8): a shadow that has replayed
\* every lock entry enforces the locks that the master granted, and no others.
ShadowInSync == replica.active = table.active
=============================================================================
