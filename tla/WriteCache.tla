----------------------------- MODULE WriteCache -----------------------------
(***************************************************************************)
(* The write path of a client: src/mount/writedata.cc.  Calls of the       *)
(* application put blocks into the data chains of chunks; write workers    *)
(* take a chunk from a queue, lock it at the master, send its blocks to    *)
(* chunkservers and end the job.                                           *)
(*                                                                         *)
(* An action is what happens under one stay in a critical section (gMutex  *)
(* or the mutex of an inode) or one atomic access outside of them.  A      *)
(* write is cut into pieces, one for each block it touches, and a block is *)
(* the set of the pieces whose bytes it holds.                             *)
(***************************************************************************)
EXTENDS Integers, Sequences, FiniteSets, SequencesExt, FiniteSetsExt

CONSTANTS None,
          Thread,     \* threads of the application
          Worker,     \* write_worker threads
          Inode,
          Chunk, Parent,     \* chunks, and the inode of each
          CacheBlocks,       \* size of the write cache
          CachePercentage,   \* gCachePerInodePercentage
          MaxParallel,       \* gMaxChunksWrittenInParallelPerInode
          MaxRetries,        \* maxretries
          KernelLock,        \* are writes and truncations of an inode kept apart above?
          MaxSize,           \* blocks that one write touches, at most
          Budget             \* bound on blocks written, other calls, errors and jobs that leave
                             \* data behind, together

ASSUME WriteCacheAssumption ==
  /\ Parent \in [Chunk -> Inode]
  /\ CacheBlocks \in Nat \ {0} /\ CachePercentage \in 1..100
  /\ MaxParallel \in Nat \ {0} /\ MaxRetries \in Nat \ {0}
  /\ KernelLock \in BOOLEAN
  /\ MaxSize \in Nat \ {0} /\ Budget \in Nat

VARIABLES lcnt, status, flushwaiting, pendingChunkData, parallel,   \* fields of inodedata
          chunk,           \* the ChunkData of each chunk, None when there is none
          locator,         \* chunks whose ChunkData keeps a lock of the master
          freecacheblocks,
          jobsQueue, delayedQueue,
          pc, call, handle,      \* threads: step, call in progress, file open for writing
          on, at, left,          \* threads: inode of the call, chunk being written, blocks to go
          wpc, job, journal, taken, locked, error,   \* workers
          spent,     \* of Budget
          writing,   \* ghost: the piece a thread is writing
          unsaved,   \* ghost: the pieces in the cache that no chunkserver has confirmed
          before     \* ghost: those that a flush in progress has to wait for

inodes == <<lcnt, status, flushwaiting, pendingChunkData, parallel>>
queues == <<jobsQueue, delayedQueue>>
cache == <<chunk, locator, freecacheblocks>>
threads == <<pc, call, handle, on, at, left>>
workers == <<wpc, job, journal, taken, locked, error>>
ghosts == <<writing, unsaved, before>>
vars == <<inodes, queues, cache, threads, workers, spent, ghosts>>

-----------------------------------------------------------------------------
(* Chunks, the cache and the condition variables *)

\* The ChunkData of a chunk; while a truncation writes zeros its lock is the master's.
NewChunk(i) == [dataChain |-> <<>>, writesCount |-> 0, inQueue |-> FALSE, tryCounter |-> 0,
                truncating |-> \E t \in Thread : call[t] = "zeros" /\ on[t] = i]

ChunksOf(i) == {c \in Chunk : Parent[c] = i}
Listed(i) == {c \in ChunksOf(i) : chunk[c] # None}
TotalCachedBlocks(i) == MapThenSumSet(LAMBDA c : Len(chunk[c].dataChain), Listed(i))

\* The predicate of write_cb_wait_for_block.
MayTakeBlock(i) ==
  LET total == TotalCachedBlocks(i) IN
  /\ freecacheblocks > 0
  /\ total * 100 <= (total + freecacheblocks) * CachePercentage

\* A condition variable: those of S that sleep at step "from" go on at step "to".
Wake(p, S, from, to) == [t \in Thread |-> IF t \in S /\ p[t] = from THEN to ELSE p[t]]

OnInode(i) == {t \in Thread : on[t] = i}

\* write_cb_release_blocks: one thread that waits for a block is woken, or all of them.
ReleaseBlocks(p, count) ==
  LET sleeping == {t \in Thread : p[t] = "fcbsleep"} IN
  /\ freecacheblocks' = freecacheblocks + count
  /\ IF freecacheblocks + count <= 0 \/ sleeping = {} THEN pc' = p
     ELSE IF count = 1 THEN \E t \in sleeping : pc' = [p EXCEPT ![t] = "fcb"]
     ELSE pc' = Wake(p, Thread, "fcbsleep", "fcb")

Enqueue(c) == jobsQueue' = Append(jobsQueue, c)

\* (mutant) The limit is not looked at.
MutAddPendingJobs(i, waiting, running) ==
  /\ jobsQueue' = jobsQueue \o waiting
  /\ pendingChunkData' = [pendingChunkData EXCEPT ![i] = <<>>]
  /\ parallel' = [parallel EXCEPT ![i] = running + Len(waiting)]

\* add_pending_jobs, with the chunks that wait and the number of those that do not.
AddPendingJobs(i, waiting, running) ==
  LET n == Min({Len(waiting), MaxParallel - running}) IN
  /\ jobsQueue' = jobsQueue \o SubSeq(waiting, 1, n)
  /\ pendingChunkData' = [pendingChunkData EXCEPT ![i] = SubSeq(waiting, n + 1, Len(waiting))]
  /\ parallel' = [parallel EXCEPT ![i] = running + n]

Go(t, step) == pc' = [pc EXCEPT ![t] = step]
Idle(t) == pc[t] = "idle"
Failed(i) == status[i] # "ok"

\* Threads between the first and the last step of a write, or of a truncation, of i.
Writers(i) == {t \in OnInode(i) : ~Idle(t) /\ call[t] = "write"}
Truncaters(i) == {t \in OnInode(i) : ~Idle(t) /\ call[t] \in {"truncate", "zeros"}}

Init ==
  /\ handle \in [Thread -> Inode \cup {None}]
  /\ lcnt = [i \in Inode |-> Cardinality({t \in Thread : handle[t] = i})]
  /\ status = [i \in Inode |-> "ok"]
  /\ flushwaiting = [i \in Inode |-> 0]
  /\ pendingChunkData = [i \in Inode |-> <<>>] /\ parallel = [i \in Inode |-> 0]
  /\ chunk = [c \in Chunk |-> None] /\ locator = {} /\ freecacheblocks = CacheBlocks
  /\ jobsQueue = <<>> /\ delayedQueue = {}
  /\ pc = [t \in Thread |-> "idle"] /\ call = [t \in Thread |-> "none"]
  /\ on = [t \in Thread |-> None] /\ at = [t \in Thread |-> None]
  /\ left = [t \in Thread |-> 0]
  /\ wpc = [w \in Worker |-> "idle"] /\ job = [w \in Worker |-> None]
  /\ journal = [w \in Worker |-> <<>>] /\ taken = [w \in Worker |-> 0]
  /\ locked = [w \in Worker |-> FALSE] /\ error = [w \in Worker |-> "none"]
  /\ spent = 0
  /\ writing = [t \in Thread |-> 0] /\ unsaved = [i \in Inode |-> {}]
  /\ before = [t \in Thread |-> {}]

-----------------------------------------------------------------------------
(* Calls of the application *)

\* write_data_lcnt_decrease: the last reference deletes the inodedata.
LcntDecrease(i) ==
  /\ lcnt' = [lcnt EXCEPT ![i] = @ - 1]
  /\ IF lcnt[i] = 1 THEN /\ status' = [status EXCEPT ![i] = "ok"]
                         /\ unsaved' = [unsaved EXCEPT ![i] = {}]
                    ELSE UNCHANGED <<status, unsaved>>
  /\ UNCHANGED <<flushwaiting, pendingChunkData, parallel>>

\* (mutant) The counter is looked at before it is decreased.
MutFlushwaitingDecrease(t, step) ==
  LET i == on[t] IN
  /\ flushwaiting' = [flushwaiting EXCEPT ![i] = @ - 1]
  /\ pc' = [(IF flushwaiting[i] = 0 THEN Wake(pc, OnInode(i), "writecond", "writewoken") ELSE pc)
              EXCEPT ![t] = step]
  /\ UNCHANGED <<lcnt, status, pendingChunkData, parallel>>

\* write_data_flushwaiting_decrease: the last one lets the writers go on.
FlushwaitingDecrease(t, step) ==
  LET i == on[t] IN
  /\ flushwaiting' = [flushwaiting EXCEPT ![i] = @ - 1]
  /\ pc' = [(IF flushwaiting[i] = 1 THEN Wake(pc, OnInode(i), "writecond", "writewoken") ELSE pc)
              EXCEPT ![t] = step]
  /\ UNCHANGED <<lcnt, status, pendingChunkData, parallel>>

Begin(t, name, i, step) ==
  /\ call' = [call EXCEPT ![t] = name]
  /\ on' = [on EXCEPT ![t] = i]
  /\ Go(t, step)

Return(t) == Begin(t, "none", None, "idle")

Spend(n) == spent + n <= Budget /\ spent' = spent + n

\* write_data_new.
Open(t) ==
  /\ Idle(t) /\ handle[t] = None /\ Spend(1)
  /\ \E i \in Inode : /\ handle' = [handle EXCEPT ![t] = i]
                      /\ lcnt' = [lcnt EXCEPT ![i] = @ + 1]
  /\ UNCHANGED <<status, flushwaiting, pendingChunkData, parallel, queues, cache,
                 pc, call, on, at, left, workers, ghosts>>

NewWrite(t) ==
  \E n \in 1..MaxSize : /\ Spend(n)
                        /\ writing' = [writing EXCEPT ![t] = spent + 1]
                        /\ left' = [left EXCEPT ![t] = n]

\* write_data: a write waits for the flushes of its inode to end.
Write(t) ==
  LET i == handle[t] IN
  /\ Idle(t) /\ i # None /\ ~Failed(i)
  /\ KernelLock => Truncaters(i) = {}
  /\ NewWrite(t)
  /\ Begin(t, "write", i, IF flushwaiting[i] > 0 THEN "writecond" ELSE "blocks")
  /\ UNCHANGED <<inodes, queues, cache, handle, at, workers, unsaved, before>>

WriteWoken(t) ==
  /\ pc[t] = "writewoken"
  /\ Go(t, IF flushwaiting[on[t]] > 0 THEN "writecond" ELSE "blocks")
  /\ UNCHANGED <<inodes, queues, cache, call, handle, on, at, left, workers, spent, ghosts>>

Cached(t) == unsaved' = [unsaved EXCEPT ![on[t]] = @ \cup {writing[t]}]

\* The end of an iteration of write_blocks: it returns once all is written or the inode has
\* failed.
NextBlock(t) ==
  LET i == on[t]
      last == Failed(i) \/ left[t] = 1
  IN /\ left' = [left EXCEPT ![t] = IF last THEN 0 ELSE @ - 1]
     /\ writing' = [writing EXCEPT ![t] = IF last THEN 0 ELSE @ + 1]
     /\ IF ~last THEN Go(t, "blocks") /\ UNCHANGED <<call, on>>
        ELSE IF call[t] = "write" THEN Return(t)
        ELSE Go(t, "flush1") /\ UNCHANGED <<call, on>>
     /\ UNCHANGED before

\* write_get_chunkdata, and write_block up to the point where a new block is needed.
WriteBlock(t) ==
  /\ pc[t] = "blocks"
  /\ \E c \in ChunksOf(on[t]) :
       LET d == IF chunk[c] = None THEN NewChunk(on[t]) ELSE chunk[c]
           n == Len(d.dataChain)
       IN \/ /\ n > 0 /\ d.dataChain[n].writable
             /\ chunk' = [chunk EXCEPT ![c].dataChain[n].ids = @ \cup {writing[t]}]
             /\ Cached(t) /\ NextBlock(t) /\ UNCHANGED at
          \/ /\ chunk' = [chunk EXCEPT ![c] = [d EXCEPT !.writesCount = @ + 1]]
             /\ at' = [at EXCEPT ![t] = c]
             /\ Go(t, "fcb") /\ UNCHANGED <<call, on, left, ghosts>>
  /\ UNCHANGED <<inodes, queues, locator, freecacheblocks, handle, workers, spent>>

\* write_cb_wait_for_block.
WaitForBlock(t) ==
  /\ pc[t] = "fcb"
  /\ Go(t, IF Failed(on[t]) THEN "giveup"
           ELSE IF MayTakeBlock(on[t]) THEN "acquire" ELSE "fcbsleep")
  /\ UNCHANGED <<inodes, queues, cache, call, handle, on, at, left, workers, spent, ghosts>>

\* write_cb_acquire_blocks.
AcquireBlock(t) ==
  /\ pc[t] = "acquire"
  /\ freecacheblocks' = freecacheblocks - 1
  /\ Go(t, "push")
  /\ UNCHANGED <<inodes, queues, chunk, locator, call, handle, on, at, left, workers, spent, ghosts>>

\* The thread is done with chunk c, whose ChunkData is now d.
Leave(t, d) ==
  /\ chunk' = [chunk EXCEPT ![at[t]] = [d EXCEPT !.writesCount = @ - 1]]
  /\ at' = [at EXCEPT ![t] = None]
  /\ NextBlock(t)

\* The chunk needs a job.
NeedsJob(t, d) ==
  /\ chunk' = [chunk EXCEPT ![at[t]] = [d EXCEPT !.inQueue = TRUE]]
  /\ Go(t, "enqueue")
  /\ UNCHANGED <<call, on, at, left, writing, before>>

\* The new block joins the chain; a chunk that has no job yet gets one, a job that waits in
\* the delayed queue may be worth starting.
PushBlock(t) ==
  LET c == at[t]
      d == [chunk[c] EXCEPT !.dataChain = Append(@, [ids |-> {writing[t]}, writable |-> TRUE])]
  IN /\ pc[t] = "push"
     /\ Cached(t)
     /\ \/ ~d.inQueue /\ NeedsJob(t, d)
        \/ d.inQueue /\ Leave(t, d)
        \/ /\ d.inQueue /\ d.tryCounter = 0 /\ Len(d.dataChain) > 1 /\ c \in delayedQueue
           /\ chunk' = [chunk EXCEPT ![c] = d]
           /\ Go(t, "speedup")
           /\ UNCHANGED <<call, on, at, left, writing, before>>
     /\ UNCHANGED <<inodes, queues, locator, freecacheblocks, handle, workers, spent>>

\* The inode has failed while the thread waited: the chunk still needs a job to free it.
GiveUp(t) ==
  LET d == chunk[at[t]] IN
  /\ pc[t] = "giveup"
  /\ IF d.inQueue THEN Leave(t, d) ELSE NeedsJob(t, d)
  /\ UNCHANGED <<inodes, queues, locator, freecacheblocks, handle, workers, spent, unsaved>>

\* write_queue_new_chunk, add_pending_jobs_after_new_job.
EnqueueNew(t) ==
  LET i == on[t] IN
  /\ pc[t] = "enqueue"
  /\ AddPendingJobs(i, Append(pendingChunkData[i], at[t]), parallel[i])
  /\ Go(t, "leave")
  /\ UNCHANGED <<lcnt, status, flushwaiting, delayedQueue, cache, call, handle, on, at, left, workers, spent, ghosts>>

\* (mutant) The chunk may have left the delayed queue since that was checked.
MutSpeedUp(t) ==
  /\ pc[t] = "speedup"
  /\ delayedQueue' = delayedQueue \ {at[t]}
  /\ Enqueue(at[t])
  /\ Go(t, "leave")
  /\ UNCHANGED <<inodes, cache, call, handle, on, at, left, workers, spent, ghosts>>

\* delayed_queue_remove of one chunk.
SpeedUp(t) ==
  /\ pc[t] = "speedup"
  /\ delayedQueue' = delayedQueue \ {at[t]}
  /\ IF at[t] \in delayedQueue THEN Enqueue(at[t]) ELSE UNCHANGED jobsQueue
  /\ Go(t, "leave")
  /\ UNCHANGED <<inodes, cache, call, handle, on, at, left, workers, spent, ghosts>>

\* Back in write_blocks.
LeaveBlock(t) ==
  /\ pc[t] = "leave"
  /\ Leave(t, chunk[at[t]])
  /\ UNCHANGED <<inodes, queues, locator, freecacheblocks, handle, workers, spent, unsaved>>

-----------------------------------------------------------------------------
(* Flushing, closing and truncating *)

\* write_data_flush and write_data_end, of an open file.
FlushOrEnd(t) ==
  /\ Idle(t) /\ handle[t] # None /\ Spend(1)
  /\ \E name \in {"flush", "end"} : Begin(t, name, handle[t], "flush1")
  /\ UNCHANGED <<inodes, queues, cache, handle, at, left, workers, ghosts>>

\* (mutant) No reference is held during the flush.
MutFlushInode(t) ==
  /\ Idle(t) /\ Spend(1)
  /\ \E i \in Inode : lcnt[i] > 0 /\ Begin(t, "inode", i, "flush1")
  /\ UNCHANGED <<inodes, queues, cache, handle, at, left, workers, ghosts>>

\* write_data_flush_inode, of an inode somebody has open.
FlushInode(t) ==
  /\ Idle(t) /\ Spend(1)
  /\ \E i \in Inode : /\ lcnt[i] > 0
                      /\ lcnt' = [lcnt EXCEPT ![i] = @ + 1]
                      /\ Begin(t, "inode", i, "flush1")
  /\ UNCHANGED <<status, flushwaiting, pendingChunkData, parallel, queues, cache,
                 handle, at, left, workers, ghosts>>

\* write_data_truncate.
Truncate(t) ==
  /\ Idle(t) /\ Spend(1)
  /\ \E i \in Inode : /\ KernelLock => Writers(i) \cup Truncaters(i) = {}
                      /\ lcnt' = [lcnt EXCEPT ![i] = @ + 1]
                      /\ Begin(t, "truncate", i, "block")
  /\ UNCHANGED <<status, flushwaiting, pendingChunkData, parallel, queues, cache,
                 handle, at, left, workers, ghosts>>

\* write_data_flushwaiting_increase, by a truncation and by a flush.
FlushwaitingIncrease(t) ==
  /\ flushwaiting' = [flushwaiting EXCEPT ![on[t]] = @ + 1]
  /\ \/ /\ pc[t] = "block" /\ Go(t, "flush1") /\ UNCHANGED before
     \/ /\ pc[t] = "flush1" /\ Go(t, "flush2")
        /\ before' = [before EXCEPT ![t] = unsaved[on[t]]]
  /\ UNCHANGED <<lcnt, status, pendingChunkData, parallel, queues, cache, call, handle, on, at,
                 left, workers, spent, writing, unsaved>>

\* (mutant) Blocks that a worker has taken are forgotten.
MutFlushedOrSleep(i) == IF TotalCachedBlocks(i) = 0 THEN "flush3" ELSE "flushsleep"

FlushedOrSleep(i) == IF Listed(i) = {} THEN "flush3" ELSE "flushsleep"

\* The jobs of the inode that wait in the delayed queue start now; then the flush waits until
\* the inode has no chunk left.
FlushQueue(t) ==
  LET delayed == {c \in delayedQueue : Parent[c] = on[t]} IN
  /\ pc[t] = "flush2"
  /\ delayedQueue' = delayedQueue \ delayed
  /\ jobsQueue' = jobsQueue \o SetToSeq(delayed)
  /\ Go(t, FlushedOrSleep(on[t]))
  /\ UNCHANGED <<inodes, cache, call, handle, on, at, left, workers, spent, ghosts>>

FlushWoken(t) ==
  /\ pc[t] = "flushwoken"
  /\ Go(t, FlushedOrSleep(on[t]))
  /\ UNCHANGED <<inodes, queues, cache, call, handle, on, at, left, workers, spent, ghosts>>

FlushEnd(t) ==
  /\ pc[t] = "flush3"
  /\ FlushwaitingDecrease(t, "flush4")
  /\ UNCHANGED <<queues, cache, call, handle, on, at, left, workers, spent, ghosts>>

\* What the callers of write_data_flush do with its result.
FlushReturns(t) ==
  LET i == on[t] IN
  /\ pc[t] = "flush4"
  /\ IF call[t] \in {"end", "inode"} THEN LcntDecrease(i) ELSE UNCHANGED <<inodes, unsaved>>
  /\ handle' = IF call[t] = "end" THEN [handle EXCEPT ![t] = None] ELSE handle
  /\ before' = [before EXCEPT ![t] = {}]
  /\ IF call[t] \in {"truncate", "zeros"}
     THEN /\ Go(t, IF Failed(i) THEN "unblock"
                   ELSE IF call[t] = "zeros" THEN "truncateend" ELSE "request")
          /\ UNCHANGED <<call, on>>
     ELSE Return(t)
  /\ UNCHANGED <<queues, cache, at, left, workers, spent, writing>>

\* fs_truncate: it fails, the master does it alone, it needs no zeros, or it needs zeros, which
\* are passed to the workers as a write.
TruncateRequest(t) ==
  /\ pc[t] = "request"
  /\ \/ /\ \E step \in {"unblock", "truncateend"} : Go(t, step)
        /\ UNCHANGED <<call, left, spent, writing>>
     \/ /\ NewWrite(t)
        /\ call' = [call EXCEPT ![t] = "zeros"]
        /\ Go(t, "blocks")
  /\ UNCHANGED <<inodes, queues, cache, handle, on, at, workers, unsaved, before>>

\* fs_truncateend.
TruncateEnd(t) ==
  /\ pc[t] = "truncateend"
  /\ Go(t, "unblock")
  /\ UNCHANGED <<inodes, queues, cache, call, handle, on, at, left, workers, spent, ghosts>>

\* write_data_truncate_release, in two critical sections.
TruncateUnblock(t) ==
  /\ pc[t] = "unblock"
  /\ FlushwaitingDecrease(t, "release")
  /\ UNCHANGED <<queues, cache, call, handle, on, at, left, workers, spent, ghosts>>

TruncateRelease(t) ==
  /\ pc[t] = "release"
  /\ LcntDecrease(on[t])
  /\ Return(t)
  /\ UNCHANGED <<queues, cache, handle, at, left, workers, spent, writing, before>>

-----------------------------------------------------------------------------
(* Write workers *)

Working(w, step) == wpc' = [wpc EXCEPT ![w] = step]

\* write_worker, and the start of processJob: after an error the data is only dropped.  Idle
\* workers are alike, so it does not matter which of them gets the job.
TakeJob(w) ==
  /\ wpc[w] = "idle" /\ jobsQueue # <<>>
  /\ w = CHOOSE v \in Worker : wpc[v] = "idle"
  /\ job' = [job EXCEPT ![w] = Head(jobsQueue)]
  /\ jobsQueue' = Tail(jobsQueue)
  /\ Working(w, IF Failed(Parent[Head(jobsQueue)]) THEN "end" ELSE "locate")
  /\ UNCHANGED <<inodes, delayedQueue, cache, threads, journal, taken, locked, error, spent, ghosts>>

\* (mutant) The locator stays.
MutTakeOutLocator(w) ==
  /\ locked' = [locked EXCEPT ![w] = FALSE]
  /\ job' = [job EXCEPT ![w] = None]
  /\ Working(w, "idle")
  /\ UNCHANGED locator

\* A locator that still has a lock leaves the ChunkData; it is destroyed when the critical
\* section is over.
TakeOutLocator(w) ==
  LET keeps == job[w] \in locator IN
  /\ locator' = locator \ {job[w]}
  /\ locked' = [locked EXCEPT ![w] = keeps]
  /\ job' = [job EXCEPT ![w] = IF keeps THEN @ ELSE None]
  /\ Working(w, IF keeps THEN "drop" ELSE "idle")

\* write_job_delayed_end, with outcome "failed" or "ok".
JobEnd(w, outcome) ==
  LET c == job[w]
      i == Parent[c]
      d == chunk[c]
      failed == Failed(i) \/ outcome = "failed"
      p == IF outcome = "failed" THEN Wake(pc, Thread, "fcbsleep", "fcb") ELSE pc
      free == d.writesCount = 0
      empty == free /\ Listed(i) = {c}
      q == IF empty THEN Wake(p, OnInode(i), "flushsleep", "flushwoken") ELSE p
  IN /\ status' = [status EXCEPT ![i] = IF failed THEN "failed" ELSE "ok"]
     /\ TakeOutLocator(w)
     /\ error' = [error EXCEPT ![w] = "none"]
     /\ \/ /\ ~failed /\ d.writesCount > 0
           /\ Enqueue(c)
           /\ UNCHANGED <<chunk, freecacheblocks, pc, delayedQueue, pendingChunkData, parallel>>
        \/ /\ ~failed /\ d.writesCount = 0 /\ d.dataChain # <<>>
           /\ chunk' = [chunk EXCEPT ![c].tryCounter = 0]
           /\ \/ Enqueue(c) /\ UNCHANGED delayedQueue
              \/ /\ flushwaiting[i] = 0
                 /\ delayedQueue' = delayedQueue \cup {c} /\ UNCHANGED jobsQueue
           /\ UNCHANGED <<freecacheblocks, pc, pendingChunkData, parallel>>
        \/ /\ failed \/ (d.writesCount = 0 /\ d.dataChain = <<>>)
           /\ chunk' = [chunk EXCEPT ![c] = IF free THEN None ELSE [d EXCEPT !.dataChain = <<>>]]
           /\ ReleaseBlocks(q, Len(d.dataChain))
           /\ IF free THEN /\ AddPendingJobs(i, pendingChunkData[i], parallel[i] - 1)
                           /\ UNCHANGED delayedQueue
                      ELSE /\ delayedQueue' = delayedQueue \cup {c}
                           /\ UNCHANGED <<jobsQueue, pendingChunkData, parallel>>
     /\ UNCHANGED <<lcnt, flushwaiting, call, handle, on, at, left, journal, taken, spent, ghosts>>

\* Another worker has the lock of the chunk and has not returned it yet.
LockedByOther(w) == \E v \in Worker \ {w} : locked[v] /\ job[v] = job[w]

\* locateAndLockChunk.
Locate(w) ==
  LET c == job[w] IN
  /\ wpc[w] = "locate" /\ ~LockedByOther(w)
  /\ locked' = [locked EXCEPT ![w] = ~chunk[c].truncating]
  /\ locator' = locator \ {c}
  /\ Working(w, "write")
  /\ UNCHANGED <<inodes, queues, chunk, freecacheblocks, threads, job, journal, taken, error, spent, ghosts>>

\* The first exception handler of processJob: the tries are counted, the locator keeps its lock
\* unless the master has taken it back.
Throw(w, kind, keeps) ==
  LET c == job[w]
      n == IF kind = "locked" THEN Max({chunk[c].tryCounter, 1}) ELSE chunk[c].tryCounter + 1
  IN /\ Spend(1)
     /\ chunk' = [chunk EXCEPT ![c].tryCounter = n]
     /\ locator' = IF keeps THEN locator \cup {c} ELSE locator \ {c}
     /\ locked' = [locked EXCEPT ![w] = FALSE]
     /\ error' = [error EXCEPT ![w] =
          IF kind = "fatal" \/ (kind # "locked" /\ n >= MaxRetries) THEN "fatal" ELSE "again"]
     /\ Working(w, "return")
     /\ UNCHANGED <<inodes, queues, freecacheblocks, threads, job, journal, taken, ghosts>>

LocateFails(w) ==
  /\ wpc[w] = "locate"
  /\ \/ job[w] \notin locator /\ Throw(w, "locked", FALSE)
     \/ Throw(w, "recoverable", job[w] \in locator)
     \/ Throw(w, "fatal", FALSE)

\* A block that was sent is not written to any more.
Sent(blocks) == [n \in DOMAIN blocks |-> [blocks[n] EXCEPT !.writable = FALSE]]

\* processDataChain: the first blocks of the chain go to the writer, ...
TakeBlocks(w) ==
  LET c == job[w] IN
  /\ wpc[w] = "write"
  /\ \E n \in 1..Len(chunk[c].dataChain) :
       /\ journal' = [journal EXCEPT ![w] = @ \o Sent(SubSeq(chunk[c].dataChain, 1, n))]
       /\ chunk' = [chunk EXCEPT ![c].dataChain = SubSeq(@, n + 1, Len(@))]
       /\ taken' = [taken EXCEPT ![w] = n]
  /\ Working(w, "free")
  /\ UNCHANGED <<inodes, queues, locator, freecacheblocks, threads, job, locked, error, spent, ghosts>>

\* ... and then leave the cache.
FreeBlocks(w) ==
  /\ wpc[w] = "free"
  /\ ReleaseBlocks(pc, taken[w])
  /\ taken' = [taken EXCEPT ![w] = 0]
  /\ Working(w, "write")
  /\ UNCHANGED <<inodes, queues, chunk, locator, call, handle, on, at, left, job, journal, locked,
                 error, spent, ghosts>>

\* A chunkserver confirms a block.
Confirmed(w) ==
  /\ wpc[w] = "write"
  /\ \E n \in 1..Len(journal[w]) :
       /\ unsaved' = [i \in Inode |-> unsaved[i] \ journal[w][n].ids]
       /\ before' = [t \in Thread |-> before[t] \ journal[w][n].ids]
       /\ journal' = [journal EXCEPT ![w] = RemoveAt(@, n)]
  /\ UNCHANGED <<inodes, queues, cache, threads, wpc, job, taken, locked, error, spent, writing>>

WriteFails(w) == /\ wpc[w] = "write"
                 /\ \E kind \in {"recoverable", "fatal"} : Throw(w, kind, locked[w])

AfterReturn(w) == IF error[w] = "none" THEN "unlock" ELSE "caught"

\* (mutant) After an error the blocks are not counted again.
MutReturnJournal(w) ==
  /\ \/ wpc[w] = "return" /\ UNCHANGED <<spent, freecacheblocks>>
     \/ /\ wpc[w] = "write"
        /\ IF journal[w] \o chunk[job[w]].dataChain = <<>> THEN UNCHANGED spent ELSE Spend(1)
        /\ freecacheblocks' = freecacheblocks - Len(journal[w])
  /\ Working(w, IF journal[w] = <<>> THEN AfterReturn(w) ELSE "splice")
  /\ UNCHANGED <<inodes, queues, chunk, locator, threads, job, journal, taken, locked, error, ghosts>>

\* returnJournalToDataChain, at the end of the job: after an error, when all is sent and
\* confirmed, or with data left, because its block is not full yet or the time is over.  Blocks
\* that are not confirmed need room in the cache, ...
ReturnJournal(w) ==
  /\ \/ wpc[w] = "return" /\ UNCHANGED spent
     \/ /\ wpc[w] = "write"
        /\ IF journal[w] \o chunk[job[w]].dataChain = <<>> THEN UNCHANGED spent ELSE Spend(1)
  /\ freecacheblocks' = freecacheblocks - Len(journal[w])
  /\ Working(w, IF journal[w] = <<>> THEN AfterReturn(w) ELSE "splice")
  /\ UNCHANGED <<inodes, queues, chunk, locator, threads, job, journal, taken, locked, error, ghosts>>

\* ... and go back to the front of the chain.
SpliceJournal(w) ==
  /\ wpc[w] = "splice"
  /\ chunk' = [chunk EXCEPT ![job[w]].dataChain = journal[w] \o @]
  /\ journal' = [journal EXCEPT ![w] = <<>>]
  /\ Working(w, AfterReturn(w))
  /\ UNCHANGED <<inodes, queues, locator, freecacheblocks, threads, job, taken, locked, error,
                 spent, ghosts>>

\* unlockChunk.
UnlockChunk(w) ==
  /\ wpc[w] = "unlock"
  /\ \/ /\ locked' = [locked EXCEPT ![w] = FALSE]
        /\ Working(w, "end")
        /\ UNCHANGED <<inodes, queues, cache, threads, job, journal, taken, error, spent, ghosts>>
     \/ locked[w] /\ Throw(w, "recoverable", TRUE)
     \/ locked[w] /\ Throw(w, "fatal", FALSE)

EndJob(w) == wpc[w] = "end" /\ JobEnd(w, "ok")

\* The outer exception handlers of processJob.
Caught(w) ==
  /\ wpc[w] = "caught"
  /\ IF error[w] = "fatal" THEN JobEnd(w, "failed")
     ELSE IF Failed(Parent[job[w]]) THEN JobEnd(w, "ok")
     ELSE /\ \/ Enqueue(job[w]) /\ UNCHANGED delayedQueue
             \/ delayedQueue' = delayedQueue \cup {job[w]} /\ UNCHANGED jobsQueue
          /\ Working(w, "idle")
          /\ job' = [job EXCEPT ![w] = None]
          /\ error' = [error EXCEPT ![w] = "none"]
          /\ UNCHANGED <<inodes, cache, threads, journal, taken, locked, spent, ghosts>>

\* The locator that write_job_delayed_end took out is destroyed: it unlocks its chunk.
DropLocator(w) ==
  /\ wpc[w] = "drop"
  /\ locked' = [locked EXCEPT ![w] = FALSE]
  /\ job' = [job EXCEPT ![w] = None]
  /\ Working(w, "idle")
  /\ UNCHANGED <<inodes, queues, cache, threads, journal, taken, error, spent, ghosts>>

\* delayed_queue_worker: the time of an entry has come, or its chunk was reported unlocked.
Delayed(c) ==
  /\ c \in delayedQueue
  /\ delayedQueue' = delayedQueue \ {c}
  /\ Enqueue(c)
  /\ UNCHANGED <<inodes, cache, threads, workers, spent, ghosts>>

-----------------------------------------------------------------------------
ThreadStep(t) ==
  \/ WriteWoken(t) \/ WriteBlock(t) \/ WaitForBlock(t) \/ AcquireBlock(t) \/ PushBlock(t)
  \/ GiveUp(t) \/ EnqueueNew(t) \/ SpeedUp(t) \/ LeaveBlock(t)
  \/ FlushwaitingIncrease(t) \/ FlushQueue(t) \/ FlushWoken(t) \/ FlushEnd(t) \/ FlushReturns(t)
  \/ TruncateRequest(t) \/ TruncateEnd(t) \/ TruncateUnblock(t) \/ TruncateRelease(t)

WorkerStep(w) ==
  \/ TakeJob(w) \/ Locate(w) \/ LocateFails(w)
  \/ TakeBlocks(w) \/ FreeBlocks(w) \/ Confirmed(w) \/ WriteFails(w)
  \/ ReturnJournal(w) \/ SpliceJournal(w) \/ UnlockChunk(w) \/ EndJob(w) \/ Caught(w)
  \/ DropLocator(w)

Next ==
  \/ \E t \in Thread : \/ Open(t) \/ Write(t) \/ FlushOrEnd(t) \/ FlushInode(t) \/ Truncate(t)
                       \/ ThreadStep(t)
  \/ \E w \in Worker : WorkerStep(w)
  \/ \E c \in Chunk : Delayed(c)

Spec == Init /\ [][Next]_vars

\* Some thread of the application that can go on does, every worker does, and a delay ends.
Fairness ==
  /\ WF_vars(\E t \in Thread : ThreadStep(t))
  /\ \A w \in Worker : WF_vars(WorkerStep(w))
  /\ WF_vars(\E c \in Chunk : Delayed(c))

FairSpec == Spec /\ Fairness

-----------------------------------------------------------------------------
(* Properties *)

Blocks == Seq([ids : SUBSET (1..Budget), writable : BOOLEAN])

\* The structs hold what their fields allow; no counter goes below zero (freecacheblocks may,
\* by the number of threads and of blocks that workers give back) and no inode has more chunks
\* in progress than sfsmaxchunkswritteninparallelperinode.
TypeOK ==
  /\ lcnt \in [Inode -> Nat] /\ flushwaiting \in [Inode -> Nat]
  /\ status \in [Inode -> {"ok", "failed"}]
  /\ pendingChunkData \in [Inode -> Seq(Chunk)]
  /\ parallel \in [Inode -> 0..MaxParallel]
  /\ \A c \in Chunk : chunk[c] = None \/
       /\ chunk[c].dataChain \in Blocks /\ chunk[c].writesCount \in Nat
       /\ chunk[c].tryCounter \in 0..MaxRetries
       /\ chunk[c].inQueue \in BOOLEAN /\ chunk[c].truncating \in BOOLEAN
  /\ locator \subseteq Chunk /\ delayedQueue \subseteq Chunk /\ jobsQueue \in Seq(Chunk)
  /\ freecacheblocks \in Int /\ spent \in 0..Budget
  /\ handle \in [Thread -> Inode \cup {None}] /\ on \in [Thread -> Inode \cup {None}]
  /\ at \in [Thread -> Chunk \cup {None}] /\ left \in [Thread -> 0..MaxSize]
  /\ job \in [Worker -> Chunk \cup {None}] /\ journal \in [Worker -> Blocks]
  /\ taken \in [Worker -> Nat] /\ locked \in [Worker -> BOOLEAN]

Occurrences(c, seq) == Cardinality({n \in DOMAIN seq : seq[n] = c})
Processing(c) == {w \in Worker : job[w] = c /\ wpc[w] # "drop"}
Running(c) == Occurrences(c, jobsQueue) + Cardinality({c} \cap delayedQueue)
              + Cardinality(Processing(c))

\* A chunk that wants writing is in exactly one place: waiting for its inode's turn, in one of
\* the queues or with one worker; a chunk that was freed is in none (a queue of pointers would
\* give a worker freed memory).  parallelChunksBeingWritten counts the chunks of an inode that
\* do not wait for its turn.
OneJobPerChunk ==
  /\ \A c \in Chunk :
       Occurrences(c, pendingChunkData[Parent[c]]) + Running(c) =
         IF /\ chunk[c] # None /\ chunk[c].inQueue
            /\ \A t \in Thread : ~(pc[t] = "enqueue" /\ at[t] = c) THEN 1 ELSE 0
  /\ \A i \in Inode : parallel[i] = MapThenSumSet(Running, ChunksOf(i))

\* No block of the write cache is lost or counted twice, whatever fails and whoever races: the
\* free ones, those in chains and those in the hands of a thread or worker that has taken or
\* released one already make up the cache.
CacheConserved ==
  freecacheblocks + MapThenSumSet(TotalCachedBlocks, Inode)
    + Cardinality({t \in Thread : pc[t] = "push"})
    + MapThenSumSet(LAMBDA w : taken[w] + IF wpc[w] = "splice" THEN Len(journal[w]) ELSE 0, Worker)
  = CacheBlocks

\* The inodedata outlives every thread and job that points to it, and what the two assertions
\* of the code say holds: no chunk is left when the last reference goes, no block is cached when
\* a truncation starts to write zeros.
ReferencesHold ==
  /\ \A i \in Inode : lcnt[i] = 0 =>
       /\ Listed(i) = {} /\ OnInode(i) = {} /\ \A t \in Thread : handle[t] # i
  /\ \A t \in Thread : pc[t] = "request" => TotalCachedBlocks(on[t]) = 0

\* A flush, a close or a truncation that reports success has everything on the chunkservers that
\* was in the cache when it began.
FlushIsDurable ==
  \A t \in Thread : pc[t] = "flush4" /\ ~Failed(on[t]) => before[t] = {}

\* A lock at the master is kept across jobs only to try again: its chunk is queued.  So every
\* lock is returned before its ChunkData is freed, and never under the mutexes.
LockMeansRetry ==
  \A c \in locator : /\ chunk[c] # None /\ chunk[c].tryCounter > 0
                     /\ Running(c) = 1

\* Every call returns: no wake-up is lost, whether of a writer held back by a flush, of a flush
\* that waits for chunks, or of a writer that waits for a free block, of which one only may be
\* woken for a block.
CallsReturn == \A t \in Thread : []<>Idle(t)
=============================================================================
