------------------------ MODULE MetadataReplication ------------------------
(***************************************************************************)
(* A master and one shadow metadata server: src/master/matomlserv.cc on    *)
(* the master's side, src/master/masterconn.cc on the shadow's, with the   *)
(* metadata dump, the changelog files and their replay.                    *)
(*                                                                         *)
(* A change is abstracted to a number that tells its place in the history  *)
(* and the mastership it was made under, the metadata to the sequence of   *)
(* changes that produced it; the metadata version is then Len + 1.  A      *)
(* changelog line is its number and its change.  A downloaded file travels *)
(* with the DOWNLOAD_START reply (its size is fixed there and its contents *)
(* cannot change below it).                                                *)
(***************************************************************************)
EXTENDS Integers, Sequences, Folds

CONSTANTS None,
          MaxVersion,   \* bound on the changes made
          Budget,       \* bound on dumps, losses and crashes, see Spend
          LostChanges   \* may a master be replaced by a shadow that lacks changes?

ASSUME ReplicationAssumption ==
  /\ None \notin Seq(Nat)
  /\ MaxVersion \in Nat /\ Budget \in Nat /\ LostChanges \in BOOLEAN

VARIABLES log,       \* the master's metadata
          mdisk,     \* the master's data directory
          dump,      \* the snapshot its dumping child is writing, or None
          oldest,    \* the first change in oldChangesBlocks, 0 when empty
          recent,    \* a dump was requested within METADATA_SAVE_REQUEST_MIN_PERIOD
          eptr,      \* its MatomlservEntry of the shadow
          up,        \* the connection exists
          toMaster, toShadow,   \* packets in flight
          mem,       \* the shadow's metadata, None when gMetadata is null
          sdisk,     \* the shadow's data directory
          state, lastLogVersion, downloading,   \* fields of MasterConn
          cursor,    \* currentFsVersion and nextFsVersion of restore.cc
          loading, todo, lines,   \* fs_loadall: running, files left, lines left
          term,      \* promotions so far
          spent,     \* dumps, losses and crashes so far, weighted
          failures,  \* dumps of the master that failed since the last good one
          cut,       \* ghost: a download was given up and nothing restarts it
          torn,      \* ghost: the files downloaded lack changes the master has made
          overwritten   \* ghost: a dump of old metadata replaced the files downloaded

master == <<log, mdisk, dump, oldest, recent, failures>>
link == <<eptr, up, toMaster, toShadow>>
loader == <<cursor, loading, todo, lines>>
shadow == <<mem, sdisk, state, lastLogVersion, downloading, loader>>
ghosts == <<cut, torn, overwritten>>
vars == <<master, link, shadow, term, spent, ghosts>>

-----------------------------------------------------------------------------
(* Changelog files and their replay *)

Version(h) == Len(h) + 1

\* Mutant: the oldest file is not kept.
MutRotate(d) == [d EXCEPT !.cur = <<>>, !.log1 = d.cur]

\* changelog_rotate: changelog.sfs becomes .1, .1 becomes .2.
Rotate(d) == [d EXCEPT !.cur = <<>>, !.log1 = d.cur, !.log2 = d.log1]

\* fs_storeall in the foreground: rotate, then metadata.sfs is this metadata.
Dumped(d, h) == [Rotate(d) EXCEPT !.meta = h]

\* Mutant: a missing number goes unnoticed.
MutRestore(h, c, r) ==
  [ok |-> TRUE, mem |-> IF r.id >= Version(h) THEN Append(h, r.change) ELSE h,
   cursor |-> [current |-> r.id, next |-> r.id + 1]]

\* restore: the checks on the number of a change, then restore_line.
Restore(h, c, r) ==
  LET cur == IF 0 \in {c.current, c.next} THEN Len(h) ELSE c.current
      next == IF 0 \in {c.current, c.next} THEN Version(h) ELSE c.next
      h2 == Append(h, r.change)
      Result(ok, hist, a, b) == [ok |-> ok, mem |-> hist, cursor |-> [current |-> a, next |-> b]]
  IN CASE r.id < cur -> Result(TRUE, h, cur, next)
       [] r.id >= cur /\ (r.id < next \/ r.id = cur) -> Result(TRUE, h, r.id, next)
       [] r.id >= next /\ r.id > cur + 1 -> Result(FALSE, h, cur, next)
       [] r.id >= next /\ r.id = cur + 1 ->
            IF Version(h2) = r.id + 1 THEN Result(TRUE, h2, r.id, Version(h2))
                                      ELSE Result(FALSE, h2, cur, Version(h2))

\* load_changelogs: is the file in order, does it reach the metadata version?
InOrder(f) == f = <<>> \/ f[Len(f)].id >= f[1].id
Needed(f, h) == f # <<>> /\ f[Len(f)].id >= Version(h)

NoCursor == [current |-> 0, next |-> 0]

\* load_changelog: a line below the metadata version is skipped.
ReplayLine(acc, r) ==
  IF acc.ok /\ r.id >= Version(acc.mem) THEN Restore(acc.mem, acc.cursor, r) ELSE acc

\* op applied to the members of s from the first to the last.
FoldSeq(op(_, _), base, s) ==
  LET Last(S) == CHOOSE i \in S : \A j \in S : j <= i
  IN MapThenFoldSet(LAMBDA i, acc : op(acc, s[i]), base, LAMBDA i : i, Last, 1..Len(s))

\* load_changelogs on one file.
ReplayFile(acc, f) ==
  IF ~InOrder(f) THEN [acc EXCEPT !.ok = FALSE]
  ELSE IF Needed(f, acc.mem) THEN FoldSeq(ReplayLine, acc, f) ELSE acc

\* fs_loadall in a fresh process: what a data directory is worth.
Recovered(d) == FoldSeq(ReplayFile, [ok |-> TRUE, mem |-> d.meta, cursor |-> NoCursor],
                         <<d.log2, d.log1, d.cur>>)

GivesBack(d, h) == LET r == Recovered(d) IN r.ok /\ r.mem = h

-----------------------------------------------------------------------------
(* The connection *)

Closed == [registered |-> FALSE, queued |-> FALSE, live |-> FALSE,
           chain1 |-> <<>>, chain2 |-> <<>>]

EmptyDisk == [meta |-> <<>>, cur |-> <<>>, log1 |-> <<>>, log2 |-> <<>>]

Init ==
  /\ log = <<>> /\ mdisk = EmptyDisk /\ dump = None /\ oldest = 0 /\ recent = FALSE
  /\ failures = 0
  /\ eptr = Closed /\ up = FALSE /\ toMaster = <<>> /\ toShadow = <<>>
  /\ mem = None /\ sdisk = EmptyDisk
  /\ state = "none" /\ lastLogVersion = 0 /\ downloading = "nothing"
  /\ cursor = NoCursor /\ loading = FALSE /\ todo = <<>> /\ lines = <<>>
  /\ term = 0 /\ spent = 0 /\ cut = FALSE /\ torn = FALSE /\ overwritten = FALSE

\* Both ends close: matomlserv_beforeclose, MasterConn::beforeClose.
Close == up' = FALSE /\ toMaster' = <<>> /\ toShadow' = <<>> /\ eptr' = Closed

ToMaster(p) == toMaster' = IF up THEN Append(toMaster, p) ELSE toMaster
ToShadow(p) == toShadow' = Append(toShadow, p)

\* The rarer an event, the more of the budget it takes.
Spend(w) == spent + w <= Budget /\ spent' = spent + w

-----------------------------------------------------------------------------
(* The master *)

\* How often changelog.sfs was rotated since metadata.sfs was last replaced.
Rotations == failures + IF dump = None THEN 0 ELSE 1

\* changeLog: the line goes to changelog.sfs, to oldChangesBlocks (where a new block may
\* push out all the old ones) and to the registered shadow; a changelog.sfs opened for a
\* download grows too.
MasterChange ==
  /\ Len(log) < MaxVersion
  /\ LET r == [id |-> Version(log), change |-> term * MaxVersion + Version(log)] IN
     /\ log' = Append(log, r.change)
     /\ mdisk' = [mdisk EXCEPT !.cur = Append(@, r)]
     /\ oldest' \in {IF oldest = 0 THEN r.id ELSE oldest, r.id}
     /\ eptr' = IF eptr.live THEN [eptr EXCEPT !.chain1 = Append(@, r)] ELSE eptr
     /\ IF eptr.registered THEN ToShadow([op |-> "change", id |-> r.id, change |-> r.change])
                           ELSE UNCHANGED toShadow
  /\ UNCHANGED <<dump, recent, failures, up, toMaster, shadow, term, spent, ghosts>>

\* fs_storeall(kBackgroundDump) when no dump is in progress: the files opened for a
\* download stop growing.
StartDump(e) ==
  /\ dump' = log
  /\ mdisk' = Rotate(mdisk)
  /\ eptr' = [e EXCEPT !.live = FALSE]

\* fs_periodic_storeall.
PeriodicDump ==
  /\ dump = None /\ Spend(1)
  /\ StartDump(eptr)
  /\ UNCHANGED <<log, oldest, recent, failures, up, toMaster, toShadow, shadow, term, ghosts>>

\* Mutant: a failed dump is not reported.
MutAnswerQueue(status) ==
  /\ eptr' = [eptr EXCEPT !.queued = FALSE]
  /\ IF eptr.queued /\ status = "ok" THEN ToShadow([op |-> "applyError", status |-> status])
                                      ELSE UNCHANGED toShadow

\* ShadowQueue::handleRequests.
AnswerQueue(status) ==
  /\ eptr' = [eptr EXCEPT !.queued = FALSE]
  /\ IF eptr.queued THEN ToShadow([op |-> "applyError", status |-> status])
                    ELSE UNCHANGED toShadow

\* Mutant: the file is renamed although no child has been started.
MutFinishDump ==
  /\ dump' = None /\ failures' = 0
  /\ mdisk' = [mdisk EXCEPT !.meta = dump]
  /\ AnswerQueue("ok")
  /\ UNCHANGED <<log, oldest, recent, up, toMaster, shadow, term, spent, ghosts>>

\* metadataPollServe: the child has finished and its file becomes metadata.sfs.
FinishDump ==
  /\ dump # None
  /\ dump' = None /\ failures' = 0
  /\ mdisk' = [mdisk EXCEPT !.meta = dump]
  /\ AnswerQueue("ok")
  /\ UNCHANGED <<log, oldest, recent, up, toMaster, shadow, term, spent, ghosts>>

\* metadataPollServe: the child has failed.
FailDump ==
  /\ dump # None /\ Spend(1)
  /\ dump' = None /\ failures' = failures + 1
  /\ AnswerQueue("error")
  /\ UNCHANGED <<log, mdisk, oldest, recent, up, toMaster, shadow, term, ghosts>>

\* Time passes: the next dump request will be honoured.
PeriodPasses ==
  /\ recent /\ recent' = FALSE
  /\ UNCHANGED <<log, mdisk, dump, oldest, failures, link, shadow, term, spent, ghosts>>

FromShadow(op) ==
  /\ toMaster # <<>> /\ Head(toMaster).op = op
  /\ toMaster' = Tail(toMaster)
  /\ UNCHANGED <<log, oldest, failures, up, shadow, term, spent, cut, overwritten>>

\* The changes in memory from number v on, as matomlserv_send_old_changes sends them.
OldChanges(v) ==
  IF oldest = 0 THEN <<>>
  ELSE LET from == IF v > oldest THEN v ELSE oldest
       IN [i \in 1..(Version(log) - from) |->
             [op |-> "change", id |-> from + i - 1, change |-> log[from + i - 1]]]

\* matomlserv_register_shadow: the reply is the shadow's own version when the changes it
\* misses are still in memory, and they follow; otherwise the master's version.
RegisterShadow ==
  /\ FromShadow("register")
  /\ LET v == Head(toMaster).version
         reply == IF Version(log) > v /\ oldest # 0 /\ oldest <= v THEN v ELSE Version(log)
     IN toShadow' = Append(toShadow, [op |-> "registered", version |-> reply]) \o OldChanges(reply)
  /\ eptr' = [eptr EXCEPT !.registered = TRUE]
  /\ UNCHANGED <<mdisk, dump, recent, torn>>

\* matomlserv_download_start: with the metadata the changelogs are opened too, and those
\* descriptors serve the requests that follow.
DownloadStart ==
  /\ FromShadow("start")
  /\ UNCHANGED <<mdisk, dump, recent>>
  /\ torn' = IF Head(toMaster).file = "metadata" THEN Rotations > 1 ELSE torn
  /\ LET f == Head(toMaster).file
         Reply(data) == ToShadow([op |-> "file", file |-> f, data |-> data])
     IN \/ /\ f = "metadata" /\ Reply(mdisk.meta)
           /\ eptr' = [eptr EXCEPT !.chain1 = mdisk.cur, !.chain2 = mdisk.log1,
                                   !.live = mdisk.cur # <<>>]
        \/ /\ f = "changelog" /\ Reply(eptr.chain1)
           /\ eptr' = [eptr EXCEPT !.chain1 = <<>>, !.live = FALSE]
        \/ /\ f = "changelog1" /\ Reply(eptr.chain2)
           /\ eptr' = [eptr EXCEPT !.chain2 = <<>>]
        \/ /\ f = "sessions" /\ Reply(<<>>)
           /\ eptr' = [eptr EXCEPT !.chain1 = <<>>, !.chain2 = <<>>, !.live = FALSE]

\* matomlserv_changelog_apply_error: the shadow is queued and a dump started, unless one
\* was requested recently; a dump in progress is not started again and will do.
ChangelogApplyErrorRequest ==
  /\ FromShadow("applyError")
  /\ \/ /\ recent
        /\ ToShadow([op |-> "applyError", status |-> "delayed"])
        /\ UNCHANGED <<mdisk, dump, recent, eptr>>
     \/ /\ ~recent /\ recent' = TRUE
        /\ LET e == [eptr EXCEPT !.queued = TRUE]
           IN IF dump = None THEN StartDump(e) ELSE eptr' = e /\ UNCHANGED <<mdisk, dump>>
        /\ UNCHANGED toShadow
  /\ UNCHANGED torn

-----------------------------------------------------------------------------
(* The shadow.  It does nothing else while fs_loadall runs. *)

Request(op) == [op |-> op]
RequestFile(f) == [op |-> "start", file |-> f]

\* MasterConn::reconnect, sendInitConnectPackets: register with the version of the metadata
\* when synchronized, else with 0; then ask for the metadata, or for a dump, if need be.
Connect ==
  /\ ~up /\ ~loading
  /\ up' = TRUE
  /\ LET register == [op |-> "register", version |-> IF state = "sync" THEN Version(mem) ELSE 0]
     IN IF lastLogVersion = 0
        THEN /\ toMaster' = <<register, RequestFile("metadata")>>
             /\ state' = "downloading" /\ downloading' = "metadata"
        ELSE /\ toMaster' = IF state = "dumpPending" THEN <<register, Request("applyError")>>
                                                     ELSE <<register>>
             /\ downloading' = "nothing" /\ UNCHANGED state
  /\ UNCHANGED <<master, eptr, toShadow, mem, sdisk, lastLogVersion, loader, term, spent, ghosts>>

NoGhosts == cut' = FALSE /\ torn' = FALSE /\ overwritten' = FALSE

\* forceMetadataDownload: drop the metadata and the connection.
ForceMetadataDownload ==
  /\ state' = "none" /\ mem' = None /\ cursor' = NoCursor /\ lastLogVersion' = 0
  /\ downloading' = "nothing" /\ NoGhosts
  /\ Close
  /\ UNCHANGED <<sdisk, loading, todo, lines>>

\* handleChangelogApplyError, requestMetadataDump.
RequestMetadataDump ==
  /\ ToMaster(Request("applyError"))
  /\ state' = "dumpPending"
  /\ UNCHANGED <<eptr, up>>

FromMaster(op) ==
  /\ toShadow # <<>> /\ Head(toShadow).op = op /\ ~loading
  /\ UNCHANGED <<master, term, spent>>

Consumed == toShadow' = Tail(toShadow)

\* Mutant: the version in the reply is not looked at.
MutOnRegistered ==
  FromMaster("registered") /\ Consumed /\ UNCHANGED <<eptr, up, toMaster, shadow, ghosts>>

\* onRegistered.
OnRegistered ==
  /\ FromMaster("registered")
  /\ IF state = "sync" /\ Version(mem) # Head(toShadow).version
     THEN ForceMetadataDownload
     ELSE Consumed /\ UNCHANGED <<eptr, up, toMaster, shadow, ghosts>>

\* metachangesLog: a missing number, or a change that cannot be applied, is reported to the
\* master; in every state the line is stored and its number remembered.
MetachangesLog ==
  /\ FromMaster("change") /\ Consumed
  /\ LET p == Head(toShadow)
         line == [id |-> p.id, change |-> p.change]
         r == Restore(mem, cursor, line)
         Store == /\ sdisk' = [sdisk EXCEPT !.cur = Append(@, line)]
                  /\ lastLogVersion' = p.id
                  /\ UNCHANGED <<eptr, up, toMaster, state, ghosts>>
         Refuse == RequestMetadataDump /\ UNCHANGED <<sdisk, lastLogVersion, ghosts>>
     IN \/ /\ lastLogVersion > 0 /\ p.id # lastLogVersion + 1
           /\ Refuse /\ UNCHANGED <<mem, cursor>>
        \/ /\ lastLogVersion = 0 \/ p.id = lastLogVersion + 1
           /\ state = "sync"
           /\ mem' = r.mem /\ cursor' = r.cursor
           /\ IF r.ok THEN Store ELSE Refuse
        \/ /\ lastLogVersion = 0 \/ p.id = lastLogVersion + 1
           /\ state # "sync"
           /\ Store /\ UNCHANGED <<mem, cursor>>
  /\ UNCHANGED <<downloading, loading, todo, lines>>

\* downloadNext: the file takes its place and the next one is requested; after the last one
\* fs_loadall reads metadata.sfs.
DownloadNext ==
  /\ FromMaster("file") /\ Consumed
  /\ LET data == Head(toShadow).data
         Then(f) == /\ ToMaster(RequestFile(f)) /\ downloading' = f
                    /\ UNCHANGED <<mem, loading, todo>>
     IN \/ /\ downloading = "metadata"
           /\ sdisk' = [sdisk EXCEPT !.meta = data] /\ overwritten' = FALSE
           /\ Then("changelog")
        \/ /\ downloading = "changelog"
           /\ sdisk' = [sdisk EXCEPT !.log1 = data] /\ UNCHANGED overwritten
           /\ Then("changelog1")
        \/ /\ downloading = "changelog1"
           /\ sdisk' = [sdisk EXCEPT !.log2 = data] /\ UNCHANGED overwritten
           /\ Then("sessions")
        \/ /\ downloading = "sessions" /\ downloading' = "nothing"
           /\ IF state = "downloading"
              THEN /\ loading' = TRUE /\ mem' = sdisk.meta
                   /\ todo' = <<sdisk.log2, sdisk.log1, sdisk.cur>>
              ELSE UNCHANGED <<loading, mem, todo>>
           /\ UNCHANGED <<sdisk, toMaster, overwritten>>
  /\ UNCHANGED <<eptr, up, state, lastLogVersion, cursor, lines, cut, torn>>

\* load_changelogs: open the next file.
OpenChangelog ==
  /\ loading /\ lines = <<>> /\ todo # <<>>
  /\ IF InOrder(Head(todo))
     THEN /\ lines' = IF Needed(Head(todo), mem) THEN Head(todo) ELSE <<>>
          /\ todo' = Tail(todo)
          /\ UNCHANGED <<loading, state, link>>
     ELSE /\ loading' = FALSE /\ todo' = <<>> /\ lines' = <<>>
          /\ RequestMetadataDump /\ UNCHANGED toShadow
  /\ UNCHANGED <<master, mem, sdisk, lastLogVersion, downloading, cursor, term, spent, ghosts>>

\* load_changelog: replay one line.
LoadLine ==
  /\ loading /\ lines # <<>>
  /\ LET r == ReplayLine([ok |-> TRUE, mem |-> mem, cursor |-> cursor], Head(lines)) IN
     /\ mem' = r.mem /\ cursor' = r.cursor
     /\ IF r.ok
        THEN lines' = Tail(lines) /\ UNCHANGED <<loading, todo, state, link>>
        ELSE /\ loading' = FALSE /\ todo' = <<>> /\ lines' = <<>>
             /\ RequestMetadataDump /\ UNCHANGED toShadow
  /\ UNCHANGED <<master, sdisk, lastLogVersion, downloading, term, spent, ghosts>>

\* fs_loadall ends with a dump, and the shadow is synchronized.
FinishLoad ==
  /\ loading /\ lines = <<>> /\ todo = <<>>
  /\ loading' = FALSE
  /\ sdisk' = Dumped(sdisk, mem)
  /\ lastLogVersion' = Len(mem)
  /\ state' = "sync"
  /\ UNCHANGED <<master, link, mem, downloading, cursor, todo, lines, term, spent, ghosts>>

\* changelogApplyError: the answer to a dump request.
ChangelogApplyError ==
  /\ FromMaster("applyError")
  /\ IF Head(toShadow).status = "ok"
     THEN ForceMetadataDownload
     ELSE /\ Consumed /\ state' = "limbo"
          /\ UNCHANGED <<eptr, up, toMaster, mem, sdisk, lastLogVersion, downloading, loader, ghosts>>

\* Mutant: the retry waits for the connection to be lost.
MutRetryDumpRequest ==
  /\ ~up /\ ~loading /\ state = "limbo"
  /\ RequestMetadataDump
  /\ UNCHANGED <<master, toShadow, mem, sdisk, lastLogVersion, downloading, loader, term, spent, ghosts>>

\* reconnect: in kLimbo the request is repeated when changelogApplyErrorTimeout expires.
RetryDumpRequest ==
  /\ up /\ ~loading /\ state = "limbo"
  /\ RequestMetadataDump
  /\ UNCHANGED <<master, toShadow, mem, sdisk, lastLogVersion, downloading, loader, term, spent, ghosts>>

\* masterconn_sessionsdownloadinit.
SessionsDownload ==
  /\ up /\ ~loading /\ state = "sync" /\ downloading = "nothing"
  /\ ToMaster(RequestFile("sessions")) /\ downloading' = "sessions"
  /\ UNCHANGED <<master, eptr, up, toShadow, mem, sdisk, state, lastLogVersion, loader, term, spent, ghosts>>

\* The shadow's own periodic dump.  Metadata that is still loaded while new files are
\* downloaded (lastLogVersion was 0 on reconnection) is written over them.
ShadowDump ==
  /\ mem # None /\ ~loading /\ Spend(1)
  /\ sdisk' = Dumped(sdisk, mem)
  /\ overwritten' = (overwritten \/ (state = "downloading" /\ downloading # "metadata"))
  /\ UNCHANGED <<master, link, mem, state, lastLogVersion, downloading, loader, term, cut, torn>>

-----------------------------------------------------------------------------
(* Faults *)

\* A download that is cut off after a change was stored is not restarted by the next
\* connection: sendInitConnectPackets looks at lastLogVersion.
CutOff == state = "downloading" /\ ~loading /\ lastLogVersion > 0

\* The connection is lost.
Disconnect ==
  /\ up /\ Spend(1) /\ Close
  /\ downloading' = "nothing"
  /\ cut' = (cut \/ CutOff)
  /\ UNCHANGED <<master, mem, sdisk, state, lastLogVersion, loader, term, torn, overwritten>>

\* downloadStart, downloadData: the file cannot be opened or its blocks fail too often.
DownloadFails ==
  /\ toShadow # <<>> /\ Head(toShadow).op = "file" /\ ~loading /\ Spend(3) /\ Consumed
  /\ downloading' = "nothing"
  /\ cut' = (cut \/ state = "downloading")
  /\ UNCHANGED <<master, eptr, up, toMaster, mem, sdisk, state, lastLogVersion, loader, term, torn, overwritten>>

\* A shadow process starts with the files of its predecessor and nothing loaded.
FreshShadow(d) ==
  /\ sdisk' = d /\ mem' = None /\ state' = "none" /\ lastLogVersion' = 0
  /\ downloading' = "nothing" /\ cursor' = NoCursor /\ NoGhosts
  /\ loading' = FALSE /\ todo' = <<>> /\ lines' = <<>>
  /\ Close

ShadowRestart ==
  /\ Spend(3)
  /\ FreshShadow(sdisk)
  /\ UNCHANGED <<master, term>>

\* The master dies and starts again with AUTO_RECOVERY: it replays its changelogs and dumps
\* (a dumping child would have left metadata.sfs.tmp, which stops it).  A master whose files
\* do not give back its metadata does not get here; Recoverable says when that can be.
MasterRestart ==
  /\ Spend(3)
  /\ dump = None /\ GivesBack(mdisk, log)
  /\ mdisk' = Dumped(mdisk, log)
  /\ oldest' = 0 /\ recent' = FALSE /\ failures' = 0
  /\ Close /\ downloading' = "nothing"
  /\ cut' = (cut \/ CutOff)
  /\ UNCHANGED <<log, dump, mem, sdisk, state, lastLogVersion, loader, term, torn, overwritten>>

\* fs_become_master: the master has died, the shadow takes over with the metadata it has,
\* and the old master comes back as a shadow.
Promote ==
  /\ Spend(3)
  /\ mem # None /\ ~loading
  /\ LostChanges \/ (state = "sync" /\ mem = log)
  /\ log' = mem /\ mdisk' = sdisk
  /\ dump' = None /\ oldest' = 0 /\ recent' = FALSE /\ failures' = 0
  /\ term' = term + 1
  /\ FreshShadow(mdisk)

Next ==
  \/ MasterChange \/ PeriodicDump \/ FinishDump \/ FailDump \/ PeriodPasses
  \/ RegisterShadow \/ DownloadStart \/ ChangelogApplyErrorRequest
  \/ Connect \/ OnRegistered \/ MetachangesLog \/ DownloadNext
  \/ OpenChangelog \/ LoadLine \/ FinishLoad
  \/ ChangelogApplyError \/ RetryDumpRequest \/ SessionsDownload \/ ShadowDump
  \/ Disconnect \/ DownloadFails \/ ShadowRestart \/ MasterRestart \/ Promote

\* Both event loops keep running, the dumping child ends, the timers expire.
Fairness ==
  /\ WF_vars(FinishDump) /\ WF_vars(PeriodPasses)
  /\ WF_vars(RegisterShadow \/ DownloadStart \/ ChangelogApplyErrorRequest)
  /\ WF_vars(Connect) /\ WF_vars(RetryDumpRequest)
  /\ WF_vars(OnRegistered \/ MetachangesLog \/ DownloadNext \/ ChangelogApplyError)
  /\ WF_vars(OpenChangelog \/ LoadLine \/ FinishLoad)

Spec == Init /\ [][Next]_vars
FairSpec == Spec /\ Fairness

-----------------------------------------------------------------------------
(* Properties *)

Line == [id : Nat, change : Nat]
Disk == [meta : Seq(Nat), cur : Seq(Line), log1 : Seq(Line), log2 : Seq(Line)]

\* Type correctness of the two servers (the packets are records of several shapes).
TypeOK ==
  /\ log \in Seq(Nat) /\ mdisk \in Disk /\ dump \in Seq(Nat) \cup {None}
  /\ oldest \in Nat /\ recent \in BOOLEAN
  /\ eptr \in [registered : BOOLEAN, queued : BOOLEAN, live : BOOLEAN,
               chain1 : Seq(Line), chain2 : Seq(Line)]
  /\ up \in BOOLEAN
  /\ mem \in Seq(Nat) \cup {None} /\ sdisk \in Disk
  /\ state \in {"none", "downloading", "sync", "dumpPending", "limbo"}
  /\ lastLogVersion \in Nat
  /\ downloading \in {"nothing", "metadata", "changelog", "changelog1", "sessions"}
  /\ cursor \in [current : Nat, next : Nat]
  /\ loading \in BOOLEAN /\ todo \in Seq(Seq(Line)) /\ lines \in Seq(Line)
  /\ term \in Nat /\ spent \in Nat /\ failures \in Nat /\ cut \in BOOLEAN
  /\ torn \in BOOLEAN /\ overwritten \in BOOLEAN

\* A shadow that is not synchronized is not forgotten: a download, a dump it is queued for,
\* or the retry timer of kLimbo will move it on, unless its download was given up.
NotForgotten ==
  /\ up /\ state # "sync" /\ ~cut
       => \/ loading \/ state = "limbo"
          \/ toMaster # <<>> \/ toShadow # <<>>
          \/ eptr.queued
  /\ eptr.queued => dump # None

\* Whenever a server in service dies, load_changelogs gives back its metadata from its
\* files; a third dump of the master after two that failed puts this at risk.
Recoverable ==
  /\ Rotations <= 2 => GivesBack(mdisk, log)
  /\ state = "sync" => GivesBack(sdisk, mem)

\* A synchronized shadow that has handled all it was sent has every change: "we have the
\* same version as the master" (masterconn.cc), unless the files it loaded lacked some.
SynchronizedIsCurrent ==
  state = "sync" /\ eptr.registered /\ toShadow = <<>> /\ ~torn /\ ~overwritten => mem = log

\* A synchronized shadow is a replica of the master's history (one whose dump went over the
\* files it then loaded is not counted as in service).
Replica == INSTANCE ReplicatedLog
             WITH replica <- IF state = "sync" /\ ~overwritten THEN mem ELSE None
Implements == Replica!Spec

\* Once faults and changes stop, the shadow becomes and stays synchronized with all changes,
\* unless its download was given up; it may lack changes that the files it loaded lacked.
CatchesUp == <>[](cut \/ (state = "sync" /\ (mem = log \/ torn \/ overwritten)))
=============================================================================
