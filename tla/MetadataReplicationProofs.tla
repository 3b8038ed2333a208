--------------------- MODULE MetadataReplicationProofs ----------------------
(***************************************************************************)
(* As long as no changes are lost at a promotion, MetadataReplication      *)
(* implements ReplicatedLog, for every number of changes, dumps and faults. *)
(*                                                                         *)
(* The argument: every changelog line, wherever it is (a file of either    *)
(* server, a packet, the replay in progress), is the line of that number   *)
(* of the master's history, and every metadata file is an initial part of  *)
(* it.  A change is applied only to the metadata it follows, so what is    *)
(* loaded stays an initial part.  This needs that a downloaded file takes  *)
(* the place of the file that was asked for: one request or reply at most  *)
(* is under way, and it is for the file that the shadow waits for.         *)
(*                                                                         *)
(* The last sections, from "Where a change can be" on, begin the proof of  *)
(* ReplicationCurrentProofs: its invariant CInv, and the conjuncts of it   *)
(* about registration and about the contents of the changelogs.            *)
(***************************************************************************)
EXTENDS MetadataReplication, TLAPS

-----------------------------------------------------------------------------
(* The inductive invariant *)

\* h is an initial part of the history l.
Part(h, l) == h \in Seq(Nat) /\ Replica!Prefix(h, l)

\* Line r is in the history l.
LineOf(r, l) == r \in Line /\ r.id \in 1..Len(l) /\ r.change = l[r.id]

\* All lines of the changelog f are in the history l.
FileOf(f, l) == f \in Seq(Line) /\ \A i \in 1..Len(f) : LineOf(f[i], l)

DiskOf(d, l) == FileOf(d.cur, l) /\ FileOf(d.log1, l) /\ FileOf(d.log2, l)

Files == {"metadata", "changelog", "changelog1", "sessions"}

ToMasterPacket == [op : {"register"}, version : Nat]
                    \cup [op : {"start"}, file : Files]
                    \cup [op : {"applyError"}]

ToShadowPacket == [op : {"registered"}, version : Nat]
                    \cup [op : {"applyError"}, status : {"ok", "error", "delayed"}]
                    \cup [op : {"change"}, id : Nat, change : Nat]
                    \cup [op : {"file"}, file : {"metadata", "sessions"}, data : Seq(Nat)]
                    \cup [op : {"file"}, file : {"changelog", "changelog1"}, data : Seq(Line)]

Entry == [registered : BOOLEAN, queued : BOOLEAN, live : BOOLEAN,
          chain1 : Seq(Line), chain2 : Seq(Line)]

\* The types that the proof needs, of the packets too.
Types == /\ log \in Seq(Nat) /\ dump \in Seq(Nat) \cup {None} /\ mem \in Seq(Nat) \cup {None}
         /\ oldest \in Nat /\ term \in Nat /\ cursor \in [current : Nat, next : Nat]
         /\ mdisk \in Disk /\ sdisk \in Disk /\ eptr \in Entry
         /\ todo \in Seq(Seq(Line)) /\ lines \in Seq(Line)
         /\ toMaster \in Seq(ToMasterPacket) /\ toShadow \in Seq(ToShadowPacket)

\* The master's files, snapshot and open descriptors hold its history.
MasterFiles ==
  /\ Part(mdisk.meta, log) /\ DiskOf(mdisk, log)
  /\ dump # None => Part(dump, log)
  /\ FileOf(eptr.chain1, log) /\ FileOf(eptr.chain2, log)

\* So do the shadow's changelogs and the replay in progress.
ShadowFiles ==
  /\ DiskOf(sdisk, log) /\ FileOf(lines, log)
  /\ \A i \in 1..Len(todo) : FileOf(todo[i], log)

\* A packet to the shadow holds what its kind promises.
Honest(p, l) ==
  /\ p.op = "change" => LineOf([id |-> p.id, change |-> p.change], l)
  /\ p.op = "file" /\ p.file = "metadata" => Part(p.data, l)
  /\ p.op = "file" /\ p.file \in {"changelog", "changelog1"} => FileOf(p.data, l)

Packets == \A i \in 1..Len(toShadow) : Honest(toShadow[i], log)

Absent(s, op) == \A i \in 1..Len(s) : s[i].op # op

AtMostOne(s, op) == \A i, j \in 1..Len(s) : s[i].op = op /\ s[j].op = op => i = j

Matching(s, op, f) == \A i \in 1..Len(s) : s[i].op = op => s[i].file = f

\* One file request or reply at most is under way, for the file awaited; without a
\* connection nothing is.
Traffic ==
  /\ ~up => toMaster = <<>> /\ toShadow = <<>> /\ ~eptr.queued /\ ~eptr.registered
  /\ AtMostOne(toMaster, "start") /\ AtMostOne(toShadow, "file")
  /\ Absent(toMaster, "start") \/ Absent(toShadow, "file")
  /\ Matching(toMaster, "start", downloading) /\ Matching(toShadow, "file", downloading)
  /\ downloading = "nothing" => Absent(toMaster, "start") /\ Absent(toShadow, "file")

\* The metadata in service, being loaded or about to be loaded.
Service ==
  /\ loading => state = "downloading" /\ downloading = "nothing"
  /\ state = "sync" => downloading \in {"nothing", "sessions"}
  /\ loading => mem \in Seq(Nat)
  /\ state = "sync" => mem \in Seq(Nat) /\ Replica!Prefix(sdisk.meta, mem)
  /\ (loading \/ state = "sync") /\ ~overwritten => Part(mem, log)
  /\ state = "downloading" /\ downloading \in {"changelog", "changelog1", "sessions"} /\ ~overwritten
       => Part(sdisk.meta, log)

RInv == Types /\ MasterFiles /\ ShadowFiles /\ Packets /\ Traffic /\ Service

-----------------------------------------------------------------------------
(* Histories, lines and files *)

\* A history is an initial part of itself.
LEMMA PartSelf == ASSUME NEW l \in Seq(Nat) PROVE Part(l, l)
BY DEF Part, Replica!Prefix

\* A line at the end, and the loss of the first line, leave a file of the history.
LEMMA FileSteps ==
  ASSUME NEW l \in Seq(Nat)
  PROVE  /\ FileOf(<<>>, l)
         /\ \A f, r : FileOf(f, l) /\ LineOf(r, l) => FileOf(Append(f, r), l)
         /\ \A f : FileOf(f, l) /\ f # <<>> => LineOf(Head(f), l) /\ FileOf(Tail(f), l)
<1>1. FileOf(<<>>, l)
  BY DEF FileOf
<1>2. ASSUME NEW f, NEW r, FileOf(f, l), LineOf(r, l) PROVE FileOf(Append(f, r), l)
  <2>1. f \in Seq(Line) /\ r \in Line
    BY ZenonT(30), <1>2 DEF FileOf, LineOf
  <2>2. Append(f, r) \in Seq(Line)
    BY <2>1
  <2>3. ASSUME NEW i \in 1..Len(Append(f, r)) PROVE LineOf(Append(f, r)[i], l)
    BY <1>2, <2>1 DEF FileOf
  <2> QED
    BY ZenonT(30), <2>2, <2>3 DEF FileOf
<1>3. ASSUME NEW f, FileOf(f, l), f # <<>> PROVE LineOf(Head(f), l) /\ FileOf(Tail(f), l)
  <2>1. f \in Seq(Line) /\ Len(f) > 0
    BY <1>3 DEF FileOf
  <2>2. Head(f) = f[1] /\ LineOf(f[1], l)
    BY <1>3, <2>1 DEF FileOf
  <2>3. Tail(f) \in Seq(Line) /\ Len(Tail(f)) = Len(f) - 1
    BY <2>1
  <2>4. ASSUME NEW i \in 1..Len(Tail(f)) PROVE LineOf(Tail(f)[i], l)
    BY <1>3, <2>1, <2>3 DEF FileOf
  <2> QED
    BY ZenonT(30), <2>2, <2>3, <2>4 DEF FileOf
<1> QED
  BY ZenonT(30), <1>1, <1>2, <1>3

\* restore returns the metadata it was given or that metadata and the change; it
\* succeeds with the change only if the change is the next one.
LEMMA RestoreFacts ==
  ASSUME NEW h \in Seq(Nat), NEW c \in [current : Nat, next : Nat], NEW r \in Line
  PROVE  LET x == Restore(h, c, r) IN
         /\ x.ok \in BOOLEAN /\ x.cursor \in [current : Nat, next : Nat]
         /\ x.mem \in {h, Append(h, r.change)} /\ x.mem \in Seq(Nat)
         /\ x.ok => x.mem = h \/ (x.mem = Append(h, r.change) /\ r.id = Len(h) + 1)
<1> DEFINE cur == IF 0 \in {c.current, c.next} THEN Len(h) ELSE c.current
           next == IF 0 \in {c.current, c.next} THEN Version(h) ELSE c.next
           h2 == Append(h, r.change)
           Result(ok, hist, a, b) == [ok |-> ok, mem |-> hist, cursor |-> [current |-> a, next |-> b]]
           x == Restore(h, c, r)
<1>1. cur \in Nat /\ next \in Nat /\ r.id \in Nat /\ r.change \in Nat
  BY DEF Version, Line
<1>2. h2 \in Seq(Nat) /\ Len(h2) = Len(h) + 1
  BY <1>1
<1>3. x = CASE r.id < cur -> Result(TRUE, h, cur, next)
           [] r.id >= cur /\ (r.id < next \/ r.id = cur) -> Result(TRUE, h, r.id, next)
           [] r.id >= next /\ r.id > cur + 1 -> Result(FALSE, h, cur, next)
           [] r.id >= next /\ r.id = cur + 1 ->
                IF Version(h2) = r.id + 1 THEN Result(TRUE, h2, r.id, Version(h2))
                                          ELSE Result(FALSE, h2, cur, Version(h2))
  BY ZenonT(30) DEF Restore
<1>4. Version(h2) \in Nat /\ Version(h2) = Len(h) + 2
  BY <1>2 DEF Version
<1>5. CASE r.id < cur
  <2>1. x = Result(TRUE, h, cur, next)
    BY SMTT(30), <1>1, <1>3, <1>5
  <2> QED
    BY SMTT(30), <2>1, <1>1
<1> HIDE DEF cur, next, h2
<1>6. CASE r.id >= cur /\ (r.id < next \/ r.id = cur)
  <2>1. x = Result(TRUE, h, r.id, next)
    BY SMTT(30), <1>1, <1>3, <1>6
  <2> QED
    BY <2>1, <1>1
<1>7. CASE r.id >= next /\ r.id > cur + 1
  <2>1. x = Result(FALSE, h, cur, next)
    BY <1>1, <1>3, <1>7
  <2> QED
    BY <2>1, <1>1
<1>8. CASE r.id >= next /\ r.id = cur + 1
  <2>1. x = IF Version(h2) = r.id + 1 THEN Result(TRUE, h2, r.id, Version(h2))
                                      ELSE Result(FALSE, h2, cur, Version(h2))
    BY <1>1, <1>3, <1>8
  <2> QED
    BY SMTT(30), <2>1, <1>1, <1>2, <1>4 DEF h2
<1>9. \/ r.id < cur \/ (r.id >= cur /\ (r.id < next \/ r.id = cur))
      \/ (r.id >= next /\ r.id > cur + 1) \/ (r.id >= next /\ r.id = cur + 1)
  BY SMTT(30), <1>1
<1> HIDE DEF x
<1> QED
  BY <1>5, <1>6, <1>7, <1>8, <1>9, ZenonT(30)

-----------------------------------------------------------------------------
(* Packets and queues *)

\* What the receiver of a packet reads is there.
LEMMA PacketFields ==
  /\ \A p \in ToMasterPacket : p.op = "register" => p.version \in Nat
  /\ \A p \in ToMasterPacket : p.op = "start" => p.file \in Files
  /\ \A p \in ToShadowPacket : p.op = "change" => p.id \in Nat /\ p.change \in Nat
  /\ \A p \in ToShadowPacket : p.op = "file" =>
       /\ p.file \in Files
       /\ p.file \in {"metadata", "sessions"} => p.data \in Seq(Nat)
       /\ p.file \in {"changelog", "changelog1"} => p.data \in Seq(Line)
BY ZenonT(30) DEF ToMasterPacket, ToShadowPacket, Files

\* The packets that are sent.
LEMMA PacketTypes ==
  /\ \A v \in Nat : [op |-> "register", version |-> v] \in ToMasterPacket
  /\ \A f \in Files : RequestFile(f) \in ToMasterPacket
  /\ Request("applyError") \in ToMasterPacket
  /\ \A v \in Nat : [op |-> "registered", version |-> v] \in ToShadowPacket
  /\ \A v \in {"ok", "error", "delayed"} : [op |-> "applyError", status |-> v] \in ToShadowPacket
  /\ \A v, c \in Nat : [op |-> "change", id |-> v, change |-> c] \in ToShadowPacket
  /\ \A f \in {"metadata", "sessions"}, d \in Seq(Nat) :
       [op |-> "file", file |-> f, data |-> d] \in ToShadowPacket
  /\ \A f \in {"changelog", "changelog1"}, d \in Seq(Line) :
       [op |-> "file", file |-> f, data |-> d] \in ToShadowPacket
BY ZenonT(30) DEF ToMasterPacket, ToShadowPacket, Files, RequestFile, Request

\* Taking the first packet of a queue.
LEMMA Taken ==
  ASSUME NEW S, NEW s \in Seq(S), s # <<>>, NEW op
  PROVE  /\ Head(s) \in S /\ Head(s) = s[1] /\ 1 \in 1..Len(s) /\ Tail(s) \in Seq(S)
         /\ Absent(s, op) => Head(s).op # op /\ Absent(Tail(s), op)
         /\ AtMostOne(s, op) => AtMostOne(Tail(s), op)
         /\ AtMostOne(s, op) /\ Head(s).op = op => Absent(Tail(s), op)
         /\ \A f : Matching(s, op, f) => Matching(Tail(s), op, f)
         /\ \A f : Matching(s, op, f) /\ Head(s).op = op => Head(s).file = f
<1>1. /\ Len(s) \in Nat /\ Len(s) > 0 /\ Head(s) \in S /\ Head(s) = s[1] /\ 1 \in 1..Len(s)
      /\ Tail(s) \in Seq(S) /\ Len(Tail(s)) = Len(s) - 1
      /\ \A i \in 1..Len(Tail(s)) : i + 1 \in 1..Len(s) /\ i + 1 # 1 /\ Tail(s)[i] = s[i + 1]
  OBVIOUS
<1>2. Absent(s, op) => Head(s).op # op /\ Absent(Tail(s), op)
  BY ZenonT(30), <1>1 DEF Absent
<1>3. AtMostOne(s, op) => AtMostOne(Tail(s), op)
  BY <1>1 DEF AtMostOne
<1>4. AtMostOne(s, op) /\ Head(s).op = op => Absent(Tail(s), op)
  BY ZenonT(30), <1>1 DEF AtMostOne, Absent
<1>5. \A f : Matching(s, op, f) => Matching(Tail(s), op, f)
  BY ZenonT(30), <1>1 DEF Matching
<1>6. \A f : Matching(s, op, f) /\ Head(s).op = op => Head(s).file = f
  BY ZenonT(30), <1>1 DEF Matching
<1> QED
  BY ZenonT(30), <1>1, <1>2, <1>3, <1>4, <1>5, <1>6

\* Adding a packet to a queue.
LEMMA Added ==
  ASSUME NEW S, NEW s \in Seq(S), NEW p \in S, NEW op
  PROVE  /\ Append(s, p) \in Seq(S)
         /\ p.op # op => /\ Absent(s, op) => Absent(Append(s, p), op)
                         /\ AtMostOne(s, op) => AtMostOne(Append(s, p), op)
                         /\ \A f : Matching(s, op, f) => Matching(Append(s, p), op, f)
         /\ p.op = op /\ Absent(s, op) => /\ AtMostOne(Append(s, p), op)
                                         /\ \A f : p.file = f => Matching(Append(s, p), op, f)
<1>1. /\ Len(s) \in Nat /\ Append(s, p) \in Seq(S) /\ Len(Append(s, p)) = Len(s) + 1
      /\ \A i \in 1..Len(Append(s, p)) :
           \/ i \in 1..Len(s) /\ Append(s, p)[i] = s[i]
           \/ i = Len(s) + 1 /\ Append(s, p)[i] = p
  OBVIOUS
<1>2. ASSUME p.op # op PROVE /\ Absent(s, op) => Absent(Append(s, p), op)
                             /\ AtMostOne(s, op) => AtMostOne(Append(s, p), op)
                             /\ \A f : Matching(s, op, f) => Matching(Append(s, p), op, f)
  BY ZenonT(30), <1>1, <1>2 DEF Absent, AtMostOne, Matching
<1>3. ASSUME p.op = op, Absent(s, op)
      PROVE  /\ AtMostOne(Append(s, p), op)
             /\ \A f : p.file = f => Matching(Append(s, p), op, f)
  BY ZenonT(30), <1>1, <1>3 DEF Absent, AtMostOne, Matching
<1> QED
  BY ZenonT(30), <1>1, <1>2, <1>3

\* A queue with nothing in it.
LEMMA Cleared ==
  ASSUME NEW op
  PROVE  Absent(<<>>, op) /\ AtMostOne(<<>>, op) /\ \A f : Matching(<<>>, op, f)
BY DEF Absent, AtMostOne, Matching

-----------------------------------------------------------------------------
(* What the steps do to the history and to the metadata *)

\* The next change is a number.
LEMMA NewChange ==
  ASSUME RInv
  PROVE  term * MaxVersion + Version(log) \in Nat /\ Version(log) \in Nat
<1>1. term \in Nat /\ MaxVersion \in Nat /\ Len(log) \in Nat
  BY ReplicationAssumption DEF RInv, Types
<1>2. term * MaxVersion \in Nat
  BY SMTT(30), <1>1
<1> QED
  BY <1>1, <1>2 DEF Version

\* What belongs to the history belongs to it after the step.
LEMMA StillOf ==
  ASSUME RInv, ~LostChanges, [Next]_vars
  PROVE  /\ log' \in Seq(Nat)
         /\ \A h : Part(h, log) => Part(h, log')
         /\ \A r : LineOf(r, log) => LineOf(r, log')
         /\ \A f : FileOf(f, log) => FileOf(f, log')
         /\ \A d : DiskOf(d, log) => DiskOf(d, log')
\* What belongs to a history belongs to every longer one.
<1>Longer.
  ASSUME NEW l \in Seq(Nat), NEW x \in Nat
  PROVE  /\ Append(l, x) \in Seq(Nat)
         /\ \A h : Part(h, l) => Part(h, Append(l, x))
         /\ \A r : LineOf(r, l) => LineOf(r, Append(l, x))
         /\ \A f : FileOf(f, l) => FileOf(f, Append(l, x))
         /\ \A d : DiskOf(d, l) => DiskOf(d, Append(l, x))
  <2> USE <1>Longer
  <2>1. /\ Append(l, x) \in Seq(Nat) /\ Len(Append(l, x)) = Len(l) + 1
        /\ \A i \in 1..Len(l) : Append(l, x)[i] = l[i]
    OBVIOUS
  <2>2. \A h : Part(h, l) => Part(h, Append(l, x))
    BY <2>1 DEF Part, Replica!Prefix
  <2>3. \A r : LineOf(r, l) => LineOf(r, Append(l, x))
    BY <2>1 DEF LineOf
  <2>4. \A f : FileOf(f, l) => FileOf(f, Append(l, x))
    BY ZenonT(30), <2>3 DEF FileOf
  <2> QED
    BY ZenonT(30), <2>1, <2>2, <2>3, <2>4 DEF DiskOf
\* The history grows by a change or stays: a promoted shadow has all changes.
<1>HistoryStep.
  ASSUME RInv, ~LostChanges, [Next]_vars
  PROVE  \/ log' = log
         \/ MasterChange /\ log' = Append(log, term * MaxVersion + Version(log))
  <2> USE <1>HistoryStep
  <2> USE DEF master, link, loader, shadow, ghosts
  <2>1. CASE MasterChange
    BY ZenonT(30), <2>1 DEF MasterChange
  <2>2. CASE Promote
    BY ZenonT(30), <2>2 DEF Promote
  <2>3. CASE MasterRestart \/ FinishDump \/ FailDump \/ PeriodPasses \/ PeriodicDump
    BY ZenonT(30), <2>3 DEF MasterRestart, FinishDump, FailDump, PeriodPasses, PeriodicDump
  <2>4. CASE RegisterShadow \/ DownloadStart \/ ChangelogApplyErrorRequest
    BY ZenonT(30), <2>4 DEF RegisterShadow, DownloadStart, ChangelogApplyErrorRequest, FromShadow
  <2>5. CASE OnRegistered \/ MetachangesLog \/ DownloadNext \/ ChangelogApplyError
    BY ZenonT(30), <2>5 DEF OnRegistered, MetachangesLog, DownloadNext, ChangelogApplyError, FromMaster
  <2>6. CASE Connect \/ OpenChangelog \/ LoadLine \/ FinishLoad \/ RetryDumpRequest
    BY ZenonT(30), <2>6 DEF Connect, OpenChangelog, LoadLine, FinishLoad, RetryDumpRequest
  <2>7. CASE SessionsDownload \/ ShadowDump \/ Disconnect \/ DownloadFails \/ ShadowRestart
    BY ZenonT(30), <2>7 DEF SessionsDownload, ShadowDump, Disconnect, DownloadFails, ShadowRestart
  <2>8. CASE UNCHANGED vars
    BY ZenonT(30), <2>8 DEF vars
  <2> QED
    BY ZenonT(30), <2>1, <2>2, <2>3, <2>4, <2>5, <2>6, <2>7, <2>8 DEF Next
<1>1. log \in Seq(Nat) /\ term * MaxVersion + Version(log) \in Nat
  BY ZenonT(30), NewChange DEF RInv, Types
<1>2. CASE log' = log
  BY ZenonT(30), <1>1, <1>2
<1>3. CASE log' = Append(log, term * MaxVersion + Version(log))
  BY ZenonT(30), <1>1, <1>3, <1>Longer
<1> QED
  BY ZenonT(30), <1>2, <1>3, <1>HistoryStep

\* A change of the history that restore accepts leads to an initial part of it.
LEMMA Applied ==
  ASSUME NEW l \in Seq(Nat), NEW h \in Seq(Nat), NEW c \in [current : Nat, next : Nat],
         NEW r, LineOf(r, l), Restore(h, c, r).ok
  PROVE  LET x == Restore(h, c, r) IN
         /\ Part(h, l) => Part(x.mem, l)
         /\ x.mem = h \/ (Len(h) < Len(l) /\ x.mem = Append(h, l[Len(h) + 1]))
<1> DEFINE x == Restore(h, c, r)
<1>1. r \in Line /\ r.id \in 1..Len(l) /\ r.change = l[r.id]
  BY ZenonT(30) DEF LineOf
<1>2. x.mem = h \/ (x.mem = Append(h, r.change) /\ r.id = Len(h) + 1)
  BY ZenonT(30), <1>1, RestoreFacts
<1> HIDE DEF x
<1>3. CASE x.mem = h
  BY ZenonT(30), <1>3 DEF x
<1>4. CASE x.mem = Append(h, r.change) /\ r.id = Len(h) + 1
  <2>1. Len(h) < Len(l) /\ x.mem = Append(h, l[Len(h) + 1]) /\ l[Len(h) + 1] \in Nat
    BY SMTT(30), <1>1, <1>4
  <2>2. ASSUME Part(h, l) PROVE Part(x.mem, l)
    BY SMTT(30), <2>1, <2>2 DEF Part, Replica!Prefix
  <2> QED
    BY ZenonT(30), <2>1, <2>2 DEF x
<1> QED
  BY ZenonT(30), <1>2, <1>3, <1>4

\* The packet that the shadow applies, and the line that it replays.
LEMMA AtHand ==
  ASSUME RInv
  PROVE  /\ toShadow # <<>> =>
              /\ Head(toShadow) \in ToShadowPacket /\ Honest(Head(toShadow), log)
              /\ Tail(toShadow) \in Seq(ToShadowPacket)
         /\ toShadow # <<>> /\ Head(toShadow).op = "change" =>
              LineOf([id |-> Head(toShadow).id, change |-> Head(toShadow).change], log)
         /\ lines # <<>> => LineOf(Head(lines), log) /\ FileOf(Tail(lines), log)
         /\ toMaster # <<>> =>
              Head(toMaster) \in ToMasterPacket /\ Tail(toMaster) \in Seq(ToMasterPacket)
<1>1. /\ toShadow \in Seq(ToShadowPacket) /\ toMaster \in Seq(ToMasterPacket)
      /\ Packets /\ FileOf(lines, log) /\ log \in Seq(Nat)
  BY ZenonT(30) DEF RInv, Types, ShadowFiles
<1>2. toShadow # <<>> => /\ Head(toShadow) \in ToShadowPacket /\ Honest(Head(toShadow), log)
                         /\ Tail(toShadow) \in Seq(ToShadowPacket)
  BY <1>1 DEF Packets
<1>3. lines # <<>> => LineOf(Head(lines), log) /\ FileOf(Tail(lines), log)
  BY ZenonT(30), <1>1, FileSteps
<1>4. toMaster # <<>> =>
        Head(toMaster) \in ToMasterPacket /\ Tail(toMaster) \in Seq(ToMasterPacket)
  BY <1>1
<1> QED
  BY ZenonT(30), <1>2, <1>3, <1>4 DEF Honest

\* load_changelog on one line: the same facts as restore.
LEMMA ReplayFacts ==
  ASSUME RInv, loading, lines # <<>>
  PROVE  LET x == ReplayLine([ok |-> TRUE, mem |-> mem, cursor |-> cursor], Head(lines)) IN
         /\ x.mem \in Seq(Nat) /\ x.cursor \in [current : Nat, next : Nat]
         /\ x.ok /\ Part(mem, log) => Part(x.mem, log)
<1> DEFINE acc == [ok |-> TRUE, mem |-> mem, cursor |-> cursor]
           x == ReplayLine(acc, Head(lines))
<1>1. /\ mem \in Seq(Nat) /\ cursor \in [current : Nat, next : Nat] /\ log \in Seq(Nat)
      /\ LineOf(Head(lines), log) /\ Head(lines) \in Line
  BY ZenonT(30), AtHand DEF RInv, Types, Service, LineOf
<1>2. x = acc \/ x = Restore(mem, cursor, Head(lines))
  BY ZenonT(30) DEF ReplayLine
<1>3. CASE x = acc
  BY SMTT(30), <1>1, <1>3
<1>4. CASE x = Restore(mem, cursor, Head(lines))
  BY SMTT(30), <1>1, <1>4, RestoreFacts, Applied
<1> QED
  BY ZenonT(30), <1>2, <1>3, <1>4

\* metachangesLog on one change.
LEMMA ReceiveFacts ==
  ASSUME RInv, state = "sync", toShadow # <<>>, Head(toShadow).op = "change"
  PROVE  LET x == Restore(mem, cursor, [id |-> Head(toShadow).id, change |-> Head(toShadow).change])
         IN /\ x.mem \in Seq(Nat) /\ x.cursor \in [current : Nat, next : Nat]
            /\ x.mem = mem \/ \E c \in Nat : x.mem = Append(mem, c)
            /\ x.ok => /\ Part(mem, log) => Part(x.mem, log)
                       /\ \/ x.mem = mem
                          \/ Len(mem) < Len(log) /\ x.mem = Append(mem, log[Len(mem) + 1])
<1> DEFINE r == [id |-> Head(toShadow).id, change |-> Head(toShadow).change]
<1>1. /\ mem \in Seq(Nat) /\ cursor \in [current : Nat, next : Nat] /\ log \in Seq(Nat)
      /\ LineOf(r, log) /\ r \in Line /\ r.change \in Nat
  BY ZenonT(30), AtHand DEF RInv, Types, Service, LineOf, Line
<1> HIDE DEF r
<1>2. /\ Restore(mem, cursor, r).mem \in {mem, Append(mem, r.change)}
      /\ Restore(mem, cursor, r).mem \in Seq(Nat)
      /\ Restore(mem, cursor, r).cursor \in [current : Nat, next : Nat]
  BY ZenonT(30), <1>1, RestoreFacts
<1>3. Restore(mem, cursor, r).ok =>
        /\ Part(mem, log) => Part(Restore(mem, cursor, r).mem, log)
        /\ \/ Restore(mem, cursor, r).mem = mem
           \/ /\ Len(mem) < Len(log)
              /\ Restore(mem, cursor, r).mem = Append(mem, log[Len(mem) + 1])
  BY ZenonT(30), <1>1, Applied
<1> QED
  BY ZenonT(30), <1>1, <1>2, <1>3 DEF r

-----------------------------------------------------------------------------
(* Types *)

\* Metadata, cursor and counters keep their types.
LEMMA ScalarTypes ==
  ASSUME RInv, ~LostChanges, [Next]_vars
  PROVE  /\ dump' \in Seq(Nat) \cup {None} /\ mem' \in Seq(Nat) \cup {None}
         /\ oldest' \in Nat /\ term' \in Nat /\ cursor' \in [current : Nat, next : Nat]
<1> USE DEF master, link, loader, shadow, ghosts
<1>1. /\ dump \in Seq(Nat) \cup {None} /\ mem \in Seq(Nat) \cup {None} /\ log \in Seq(Nat)
      /\ oldest \in Nat /\ term \in Nat /\ cursor \in [current : Nat, next : Nat]
      /\ sdisk.meta \in Seq(Nat) /\ NoCursor \in [current : Nat, next : Nat]
  BY ZenonT(30) DEF RInv, Types, Disk, NoCursor
<1>2. CASE MasterChange
  <2>1. oldest' \in Nat
    BY ZenonT(30), <1>1, <1>2, NewChange DEF MasterChange
  <2> QED
    BY ZenonT(30), <1>1, <1>2, <2>1 DEF MasterChange
<1>3. CASE Promote \/ ShadowRestart \/ MasterRestart
  BY SMTT(30), <1>1, <1>3 DEF Promote, ShadowRestart, MasterRestart, FreshShadow
<1>4. CASE FinishDump \/ FailDump \/ PeriodPasses \/ PeriodicDump
  BY ZenonT(30), <1>1, <1>4 DEF FinishDump, FailDump, PeriodPasses, PeriodicDump, StartDump
<1>5. CASE RegisterShadow \/ DownloadStart \/ ChangelogApplyErrorRequest
  BY ZenonT(30), <1>1, <1>5 DEF RegisterShadow, DownloadStart, ChangelogApplyErrorRequest, FromShadow, StartDump
<1>6. CASE OnRegistered \/ ChangelogApplyError
  BY ZenonT(30), <1>1, <1>6 DEF OnRegistered, ChangelogApplyError, FromMaster, ForceMetadataDownload
<1>7. CASE MetachangesLog
  <2>1. UNCHANGED <<dump, oldest, term>>
    BY ZenonT(30), <1>7 DEF MetachangesLog, FromMaster
  <2>2. CASE UNCHANGED <<mem, cursor>>
    BY ZenonT(30), <1>1, <2>1, <2>2
  <2>3. CASE state = "sync"
    BY ZenonT(30), <1>1, <1>7, <2>1, <2>3, ReceiveFacts DEF MetachangesLog, FromMaster
  <2> QED
    BY ZenonT(30), <1>7, <2>2, <2>3 DEF MetachangesLog
<1>8. CASE DownloadNext
  BY ZenonT(30), <1>1, <1>8 DEF DownloadNext, FromMaster
<1>9. CASE LoadLine
  BY ZenonT(30), <1>1, <1>9, ReplayFacts DEF LoadLine
<1>10. CASE Connect \/ OpenChangelog \/ FinishLoad \/ RetryDumpRequest
  BY ZenonT(30), <1>1, <1>10 DEF Connect, OpenChangelog, FinishLoad, RetryDumpRequest
<1>11. CASE SessionsDownload \/ ShadowDump \/ Disconnect \/ DownloadFails
  BY ZenonT(30), <1>1, <1>11 DEF SessionsDownload, ShadowDump, Disconnect, DownloadFails
<1>12. CASE UNCHANGED vars
  BY ZenonT(30), <1>1, <1>12 DEF vars
<1> QED
  BY ZenonT(30), <1>2, <1>3, <1>4, <1>5, <1>6, <1>7, <1>8, <1>9, <1>10, <1>11, <1>12 DEF Next

\* Dumping, rotating and writing to a data directory keep its type and its lines.
LEMMA DiskSteps ==
  ASSUME NEW d \in Disk, NEW l \in Seq(Nat)
  PROVE  /\ Rotate(d) \in Disk /\ Rotate(d).meta = d.meta /\ (DiskOf(d, l) => DiskOf(Rotate(d), l))
         /\ \A h \in Seq(Nat) : /\ Dumped(d, h) \in Disk /\ Dumped(d, h).meta = h
                                /\ DiskOf(d, l) => DiskOf(Dumped(d, h), l)
         /\ \A h \in Seq(Nat) : LET e == [d EXCEPT !.meta = h] IN
              e \in Disk /\ e.meta = h /\ (DiskOf(d, l) => DiskOf(e, l))
         /\ \A r \in Line : LET e == [d EXCEPT !.cur = Append(d.cur, r)] IN
              e \in Disk /\ e.meta = d.meta /\ (DiskOf(d, l) /\ LineOf(r, l) => DiskOf(e, l))
         /\ \A f \in Seq(Line) : LET e == [d EXCEPT !.log1 = f] IN
              e \in Disk /\ e.meta = d.meta /\ (DiskOf(d, l) /\ FileOf(f, l) => DiskOf(e, l))
         /\ \A f \in Seq(Line) : LET e == [d EXCEPT !.log2 = f] IN
              e \in Disk /\ e.meta = d.meta /\ (DiskOf(d, l) /\ FileOf(f, l) => DiskOf(e, l))
<1>1. FileOf(<<>>, l) /\ \A f, r : FileOf(f, l) /\ LineOf(r, l) => FileOf(Append(f, r), l)
  BY ZenonT(30), FileSteps
<1>2. <<>> \in Seq(Line) /\ \A r \in Line : Append(d.cur, r) \in Seq(Line)
  BY DEF Disk
<1>3. Rotate(d) \in Disk /\ Rotate(d).meta = d.meta /\ (DiskOf(d, l) => DiskOf(Rotate(d), l))
  BY ZenonT(30), <1>1, <1>2 DEF Rotate, Disk, DiskOf
<1>4. ASSUME NEW h \in Seq(Nat)
      PROVE  /\ Dumped(d, h) \in Disk /\ Dumped(d, h).meta = h
             /\ DiskOf(d, l) => DiskOf(Dumped(d, h), l)
  BY ZenonT(30), <1>3 DEF Dumped, Disk, DiskOf
<1>5. ASSUME NEW h \in Seq(Nat)
      PROVE  LET e == [d EXCEPT !.meta = h] IN
               e \in Disk /\ e.meta = h /\ (DiskOf(d, l) => DiskOf(e, l))
  BY ZenonT(30) DEF Disk, DiskOf
<1>6. ASSUME NEW r \in Line
      PROVE  LET e == [d EXCEPT !.cur = Append(d.cur, r)] IN
               e \in Disk /\ e.meta = d.meta /\ (DiskOf(d, l) /\ LineOf(r, l) => DiskOf(e, l))
  BY ZenonT(30), <1>1, <1>2 DEF Disk, DiskOf
<1>7. ASSUME NEW f \in Seq(Line)
      PROVE  /\ LET e == [d EXCEPT !.log1 = f] IN
                  e \in Disk /\ e.meta = d.meta /\ (DiskOf(d, l) /\ FileOf(f, l) => DiskOf(e, l))
             /\ LET e == [d EXCEPT !.log2 = f] IN
                  e \in Disk /\ e.meta = d.meta /\ (DiskOf(d, l) /\ FileOf(f, l) => DiskOf(e, l))
  BY ZenonT(30) DEF Disk, DiskOf
<1> QED
  BY ZenonT(30), <1>3, <1>4, <1>5, <1>6, <1>7

-----------------------------------------------------------------------------
(* The files *)

\* The line that the master writes is in its new history.
LEMMA NewLine ==
  ASSUME RInv, MasterChange
  PROVE  LET r == [id |-> Version(log), change |-> term * MaxVersion + Version(log)] IN
         /\ log' = Append(log, r.change) /\ log' \in Seq(Nat)
         /\ r \in Line /\ LineOf(r, log')
<1> DEFINE c == term * MaxVersion + Version(log)
           r == [id |-> Version(log), change |-> c]
<1>1. c \in Nat /\ Version(log) \in Nat /\ log \in Seq(Nat)
  BY ZenonT(30), NewChange DEF RInv, Types
<1>2. log' = Append(log, c)
  BY ZenonT(30) DEF MasterChange
<1> HIDE DEF c
<1>3. /\ log' \in Seq(Nat) /\ Version(log) \in 1..Len(log') /\ log'[Version(log)] = c
  BY SMTT(30), <1>1, <1>2 DEF Version
<1>4. r \in Line /\ LineOf(r, log')
  BY ZenonT(30), <1>1, <1>3 DEF Line, LineOf
<1> QED
  BY ZenonT(30), <1>2, <1>3, <1>4 DEF c

\* The master's data directory.
LEMMA MasterDiskStep ==
  ASSUME RInv, ~LostChanges, [Next]_vars
  PROVE  mdisk' \in Disk /\ Part(mdisk'.meta, log') /\ DiskOf(mdisk', log')
<1> USE DEF master, link, loader, shadow, ghosts
<1>1. /\ mdisk \in Disk /\ sdisk \in Disk /\ log \in Seq(Nat) /\ log' \in Seq(Nat)
      /\ Part(mdisk.meta, log) /\ Part(mdisk.meta, log')
      /\ DiskOf(mdisk, log) /\ DiskOf(mdisk, log') /\ DiskOf(sdisk, log')
  BY ZenonT(30), StillOf DEF RInv, Types, MasterFiles, ShadowFiles
<1>2. CASE UNCHANGED mdisk
  BY ZenonT(30), <1>1, <1>2
<1>3. CASE MasterChange
  <2> DEFINE r == [id |-> Version(log), change |-> term * MaxVersion + Version(log)]
  <2>1. r \in Line /\ LineOf(r, log')
    BY ZenonT(30), <1>3, NewLine
  <2>2. mdisk' = [mdisk EXCEPT !.cur = Append(mdisk.cur, r)]
    BY ZenonT(30), <1>3 DEF MasterChange
  <2> HIDE DEF r
  <2> QED
    BY ZenonT(30), <1>1, <2>1, <2>2, DiskSteps
<1>4. CASE mdisk' = Rotate(mdisk)
  BY ZenonT(30), <1>1, <1>4, DiskSteps
<1>5. CASE FinishDump
  <2>1. dump \in Seq(Nat) /\ Part(dump, log')
    BY ZenonT(30), <1>5, StillOf DEF FinishDump, RInv, MasterFiles, Part
  <2>2. mdisk' = [mdisk EXCEPT !.meta = dump]
    BY ZenonT(30), <1>5 DEF FinishDump
  <2> QED
    BY SMTT(30), <1>1, <2>1, <2>2, DiskSteps
<1>6. CASE MasterRestart
  <2>1. mdisk' = Dumped(mdisk, log) /\ log' = log
    BY ZenonT(30), <1>6 DEF MasterRestart
  <2> QED
    BY SMTT(30), <1>1, <2>1, DiskSteps, PartSelf
<1>7. CASE Promote
  <2>1. mdisk' = sdisk /\ state = "sync" /\ mem = log /\ log' = log
    BY ZenonT(30), <1>7 DEF Promote
  <2>2. Part(sdisk.meta, log)
    BY ZenonT(30), <1>1, <2>1 DEF RInv, Service, Disk, Part
  <2> QED
    BY ZenonT(30), <1>1, <2>1, <2>2
<1>8. CASE PeriodicDump \/ FailDump \/ PeriodPasses
  BY ZenonT(30), <1>2, <1>4, <1>8 DEF PeriodicDump, FailDump, PeriodPasses, StartDump
<1>9. CASE RegisterShadow \/ DownloadStart \/ ChangelogApplyErrorRequest
  BY ZenonT(30), <1>2, <1>4, <1>9 DEF RegisterShadow, DownloadStart, ChangelogApplyErrorRequest, StartDump
<1>10. CASE OnRegistered \/ MetachangesLog \/ DownloadNext \/ ChangelogApplyError
  BY ZenonT(30), <1>2, <1>10 DEF OnRegistered, MetachangesLog, DownloadNext, ChangelogApplyError, FromMaster
<1>11. CASE Connect \/ OpenChangelog \/ LoadLine \/ FinishLoad \/ RetryDumpRequest
  BY ZenonT(30), <1>2, <1>11 DEF Connect, OpenChangelog, LoadLine, FinishLoad, RetryDumpRequest
<1>12. CASE SessionsDownload \/ ShadowDump \/ Disconnect \/ DownloadFails \/ ShadowRestart
  BY ZenonT(30), <1>2, <1>12 DEF SessionsDownload, ShadowDump, Disconnect, DownloadFails, ShadowRestart
<1>13. CASE UNCHANGED vars
  BY ZenonT(30), <1>2, <1>13 DEF vars
<1> QED
  BY ZenonT(90), <1>3, <1>5, <1>6, <1>7, <1>8, <1>9, <1>10, <1>11, <1>12, <1>13 DEF Next

\* The snapshot that the master's child writes.
LEMMA DumpStep ==
  ASSUME RInv, ~LostChanges, [Next]_vars
  PROVE  dump' # None => Part(dump', log')
<1> USE DEF master, link, loader, shadow, ghosts
<1>1. log \in Seq(Nat) /\ (dump # None => Part(dump, log')) /\ Part(log, log')
  BY ZenonT(30), StillOf, PartSelf DEF RInv, Types, MasterFiles
<1>2. CASE dump' \in {dump, log, None}
  BY ZenonT(30), <1>1, <1>2
<1>3. CASE MasterChange \/ PeriodicDump \/ FinishDump \/ FailDump \/ PeriodPasses
  BY ZenonT(30), <1>2, <1>3 DEF MasterChange, PeriodicDump, FinishDump, FailDump, PeriodPasses, StartDump
<1>4. CASE RegisterShadow \/ DownloadStart \/ ChangelogApplyErrorRequest
  BY ZenonT(30), <1>2, <1>4 DEF RegisterShadow, DownloadStart, ChangelogApplyErrorRequest, StartDump
<1>5. CASE OnRegistered \/ MetachangesLog \/ DownloadNext \/ ChangelogApplyError
  BY ZenonT(30), <1>2, <1>5 DEF OnRegistered, MetachangesLog, DownloadNext, ChangelogApplyError, FromMaster
<1>6. CASE Connect \/ OpenChangelog \/ LoadLine \/ FinishLoad \/ RetryDumpRequest
  BY ZenonT(30), <1>2, <1>6 DEF Connect, OpenChangelog, LoadLine, FinishLoad, RetryDumpRequest
<1>7. CASE SessionsDownload \/ ShadowDump \/ Disconnect \/ DownloadFails \/ ShadowRestart
  BY ZenonT(30), <1>2, <1>7 DEF SessionsDownload, ShadowDump, Disconnect, DownloadFails, ShadowRestart
<1>8. CASE MasterRestart \/ Promote \/ UNCHANGED vars
  BY ZenonT(30), <1>2, <1>8 DEF MasterRestart, Promote, vars
<1> QED
  BY ZenonT(30), <1>3, <1>4, <1>5, <1>6, <1>7, <1>8 DEF Next

\* The master's entry of the shadow.
LEMMA EntryStep ==
  ASSUME RInv, ~LostChanges, [Next]_vars
  PROVE  eptr' \in Entry /\ FileOf(eptr'.chain1, log') /\ FileOf(eptr'.chain2, log')
\* What the steps make of an entry.
<1>EntrySteps.
  ASSUME NEW e \in Entry, NEW l \in Seq(Nat), FileOf(e.chain1, l), FileOf(e.chain2, l)
  PROVE  /\ Closed \in Entry /\ FileOf(Closed.chain1, l) /\ FileOf(Closed.chain2, l)
         /\ \A b \in BOOLEAN :
              /\ LET x == [e EXCEPT !.live = b]
                 IN x \in Entry /\ x.chain1 = e.chain1 /\ x.chain2 = e.chain2
              /\ LET x == [e EXCEPT !.queued = b]
                 IN x \in Entry /\ x.chain1 = e.chain1 /\ x.chain2 = e.chain2
              /\ LET x == [e EXCEPT !.registered = b]
                 IN x \in Entry /\ x.chain1 = e.chain1 /\ x.chain2 = e.chain2
         /\ \A f \in Seq(Line) :
              /\ LET x == [e EXCEPT !.chain1 = f]
                 IN x \in Entry /\ x.chain1 = f /\ x.chain2 = e.chain2
              /\ LET x == [e EXCEPT !.chain2 = f]
                 IN x \in Entry /\ x.chain1 = e.chain1 /\ x.chain2 = f
  <2> USE <1>EntrySteps
  <2>1. Closed \in Entry /\ FileOf(Closed.chain1, l) /\ FileOf(Closed.chain2, l)
    <3>1. Closed.chain1 = <<>> /\ Closed.chain2 = <<>> /\ <<>> \in Seq(Line)
      BY DEF Closed
    <3>2. Closed \in Entry
      BY <3>1, ZenonT(30) DEF Closed, Entry
    <3> QED
      BY ZenonT(30), <3>1, <3>2, FileSteps
  <2>2. ASSUME NEW b \in BOOLEAN
        PROVE  LET x == [e EXCEPT !.live = b]
               IN x \in Entry /\ x.chain1 = e.chain1 /\ x.chain2 = e.chain2
    BY ZenonT(30) DEF Entry
  <2>3. ASSUME NEW b \in BOOLEAN
        PROVE  LET x == [e EXCEPT !.queued = b]
               IN x \in Entry /\ x.chain1 = e.chain1 /\ x.chain2 = e.chain2
    BY ZenonT(30) DEF Entry
  <2>4. ASSUME NEW b \in BOOLEAN
        PROVE  LET x == [e EXCEPT !.registered = b]
               IN x \in Entry /\ x.chain1 = e.chain1 /\ x.chain2 = e.chain2
    BY ZenonT(30) DEF Entry
  <2>5. ASSUME NEW f \in Seq(Line)
        PROVE  LET x == [e EXCEPT !.chain1 = f]
               IN x \in Entry /\ x.chain1 = f /\ x.chain2 = e.chain2
    BY ZenonT(30) DEF Entry
  <2>6. ASSUME NEW f \in Seq(Line)
        PROVE  LET x == [e EXCEPT !.chain2 = f]
               IN x \in Entry /\ x.chain1 = e.chain1 /\ x.chain2 = f
    BY ZenonT(60) DEF Entry
  <2> QED
    BY ZenonT(30), <2>1, <2>2, <2>3, <2>4, <2>5, <2>6
<1> USE DEF master, link, loader, shadow, ghosts
<1>1. /\ eptr \in Entry /\ log' \in Seq(Nat)
      /\ FileOf(eptr.chain1, log') /\ FileOf(eptr.chain2, log')
      /\ FileOf(mdisk.cur, log') /\ FileOf(mdisk.log1, log') /\ FileOf(<<>>, log')
  BY ZenonT(30), StillOf, FileSteps DEF RInv, Types, MasterFiles, DiskOf
<1>2. CASE UNCHANGED eptr
  BY ZenonT(30), <1>1, <1>2
<1>3. CASE eptr' = Closed
  BY ZenonT(30), <1>1, <1>3, <1>EntrySteps
<1>4. CASE MasterChange
  <2> DEFINE r == [id |-> Version(log), change |-> term * MaxVersion + Version(log)]
             f == Append(eptr.chain1, r)
  <2>1. FileOf(f, log') /\ f \in Seq(Line)
    BY ZenonT(30), <1>1, <1>4, NewLine, FileSteps DEF FileOf
  <2>2. eptr' = eptr \/ eptr' = [eptr EXCEPT !.chain1 = f]
    BY ZenonT(30), <1>4 DEF MasterChange
  <2> HIDE DEF f
  <2>3. CASE eptr' = [eptr EXCEPT !.chain1 = f]
    <3>1. eptr' \in Entry /\ eptr'.chain1 = f /\ eptr'.chain2 = eptr.chain2
      BY <1>1, <2>1, <2>3, <1>EntrySteps, ZenonT(30)
    <3> QED
      BY <1>1, <2>1, <3>1, ZenonT(30)
  <2> QED
    BY ZenonT(30), <1>2, <2>2, <2>3
<1>5. CASE PeriodicDump
  <2>1. eptr' = [eptr EXCEPT !.live = FALSE]
    BY ZenonT(30), <1>5 DEF PeriodicDump, StartDump
  <2> QED
    BY ZenonT(30), <1>1, <2>1, <1>EntrySteps
<1>6. CASE FinishDump \/ FailDump
  <2>1. eptr' = [eptr EXCEPT !.queued = FALSE]
    BY ZenonT(30), <1>6 DEF FinishDump, FailDump, AnswerQueue
  <2> QED
    BY ZenonT(30), <1>1, <2>1, <1>EntrySteps
<1>7. CASE RegisterShadow
  <2>1. eptr' = [eptr EXCEPT !.registered = TRUE]
    BY ZenonT(30), <1>7 DEF RegisterShadow
  <2> QED
    BY ZenonT(30), <1>1, <2>1, <1>EntrySteps
<1>8. CASE DownloadStart
  <2>1. /\ mdisk.cur \in Seq(Line) /\ mdisk.log1 \in Seq(Line) /\ <<>> \in Seq(Line)
        /\ (mdisk.cur # <<>>) \in BOOLEAN
    BY ZenonT(30), <1>1 DEF FileOf
  <2>2. \/ eptr' = [eptr EXCEPT !.chain1 = mdisk.cur, !.chain2 = mdisk.log1,
                                !.live = mdisk.cur # <<>>]
        \/ eptr' = [eptr EXCEPT !.chain1 = <<>>, !.live = FALSE]
        \/ eptr' = [eptr EXCEPT !.chain2 = <<>>]
        \/ eptr' = [eptr EXCEPT !.chain1 = <<>>, !.chain2 = <<>>, !.live = FALSE]
    BY ZenonT(30), <1>8 DEF DownloadStart
  <2>3. CASE eptr' = [eptr EXCEPT !.chain1 = mdisk.cur, !.chain2 = mdisk.log1,
                                  !.live = mdisk.cur # <<>>]
    <3>1. eptr' \in Entry /\ eptr'.chain1 = mdisk.cur /\ eptr'.chain2 = mdisk.log1
      BY ZenonT(30), <1>1, <2>1, <2>3 DEF Entry
    <3> QED
      BY ZenonT(30), <1>1, <3>1
  <2>4. CASE eptr' = [eptr EXCEPT !.chain1 = <<>>, !.live = FALSE]
    <3>1. eptr' \in Entry /\ eptr'.chain1 = <<>> /\ eptr'.chain2 = eptr.chain2
      BY ZenonT(30), <1>1, <2>1, <2>4 DEF Entry
    <3> QED
      BY ZenonT(30), <1>1, <3>1
  <2>5. CASE eptr' = [eptr EXCEPT !.chain2 = <<>>]
    <3>1. eptr' \in Entry /\ eptr'.chain1 = eptr.chain1 /\ eptr'.chain2 = <<>>
      BY ZenonT(30), <1>1, <2>1, <2>5 DEF Entry
    <3> QED
      BY ZenonT(30), <1>1, <3>1
  <2>6. CASE eptr' = [eptr EXCEPT !.chain1 = <<>>, !.chain2 = <<>>, !.live = FALSE]
    <3>1. eptr' \in Entry /\ eptr'.chain1 = <<>> /\ eptr'.chain2 = <<>>
      BY ZenonT(30), <1>1, <2>1, <2>6 DEF Entry
    <3> QED
      BY ZenonT(30), <1>1, <3>1
  <2> QED
    BY ZenonT(30), <2>2, <2>3, <2>4, <2>5, <2>6
<1>9. CASE ChangelogApplyErrorRequest
  <2> DEFINE e == [eptr EXCEPT !.queued = TRUE]
  <2>1. e \in Entry /\ e.chain1 = eptr.chain1 /\ e.chain2 = eptr.chain2
    BY ZenonT(60), <1>1, <1>EntrySteps
  <2>2. eptr' = eptr \/ eptr' = e \/ eptr' = [e EXCEPT !.live = FALSE]
    BY ZenonT(30), <1>9 DEF ChangelogApplyErrorRequest, StartDump
  <2> HIDE DEF e
  <2>3. CASE eptr' = e
    BY ZenonT(30), <1>1, <2>1, <2>3
  <2>4. CASE eptr' = [e EXCEPT !.live = FALSE]
    <3>1. FileOf(e.chain1, log') /\ FileOf(e.chain2, log')
      BY ZenonT(30), <1>1, <2>1
    <3>2. eptr' \in Entry /\ eptr'.chain1 = e.chain1 /\ eptr'.chain2 = e.chain2
      BY <1>1, <2>1, <2>4, <3>1, <1>EntrySteps, ZenonT(30)
    <3> QED
      BY ZenonT(30), <3>1, <3>2
  <2> QED
    BY ZenonT(30), <1>2, <2>2, <2>3, <2>4
<1>10. CASE OnRegistered \/ MetachangesLog \/ DownloadNext \/ ChangelogApplyError
  BY ZenonT(30), <1>2, <1>3, <1>10 DEF OnRegistered, MetachangesLog, DownloadNext, ChangelogApplyError,
                           ForceMetadataDownload, Close, RequestMetadataDump
<1>11. CASE Connect \/ OpenChangelog \/ LoadLine \/ FinishLoad \/ RetryDumpRequest
  BY ZenonT(30), <1>2, <1>11 DEF Connect, OpenChangelog, LoadLine, FinishLoad, RetryDumpRequest,
                     RequestMetadataDump
<1>12. CASE SessionsDownload \/ ShadowDump \/ Disconnect \/ DownloadFails \/ ShadowRestart
  BY ZenonT(60), <1>2, <1>3, <1>12 DEF SessionsDownload, ShadowDump, Disconnect, DownloadFails, ShadowRestart,
                           FreshShadow, Close
<1>13. CASE MasterRestart \/ Promote \/ PeriodPasses \/ UNCHANGED vars
  BY ZenonT(30), <1>2, <1>3, <1>13 DEF MasterRestart, Promote, PeriodPasses, FreshShadow, Close, vars
<1> QED
  BY ZenonT(30), <1>4, <1>5, <1>6, <1>7, <1>8, <1>9, <1>10, <1>11, <1>12, <1>13 DEF Next

\* The shadow's data directory.
LEMMA ShadowDiskStep ==
  ASSUME RInv, ~LostChanges, [Next]_vars
  PROVE  sdisk' \in Disk /\ DiskOf(sdisk', log')
<1> USE DEF master, link, loader, shadow, ghosts
<1>1. /\ mdisk \in Disk /\ sdisk \in Disk /\ log' \in Seq(Nat)
      /\ DiskOf(mdisk, log') /\ DiskOf(sdisk, log')
      /\ mem \in Seq(Nat) \cup {None}
  BY ZenonT(30), StillOf DEF RInv, Types, MasterFiles, ShadowFiles
<1>2. CASE UNCHANGED sdisk
  BY ZenonT(30), <1>1, <1>2
<1>3. CASE MetachangesLog
  <2> DEFINE r == [id |-> Head(toShadow).id, change |-> Head(toShadow).change]
  <2>1. LineOf(r, log') /\ r \in Line
    BY ZenonT(30), <1>3, AtHand, StillOf DEF MetachangesLog, FromMaster, LineOf
  <2>2. UNCHANGED sdisk \/ sdisk' = [sdisk EXCEPT !.cur = Append(sdisk.cur, r)]
    BY ZenonT(30), <1>3 DEF MetachangesLog
  <2> HIDE DEF r
  <2> QED
    BY SMTT(30), <1>1, <2>1, <2>2, DiskSteps
<1>4. CASE DownloadNext
  <2> DEFINE p == Head(toShadow)
  <2>1. toShadow # <<>> /\ p.op = "file" /\ p \in ToShadowPacket /\ Honest(p, log)
    BY ZenonT(30), <1>4, AtHand DEF DownloadNext, FromMaster
  <2>2. p.file = downloading
    BY ZenonT(30), <1>4, <2>1, Taken DEF RInv, Types, Traffic
  <2>3. CASE downloading = "metadata"
    <3>1. sdisk' = [sdisk EXCEPT !.meta = p.data] /\ p.data \in Seq(Nat)
      BY ZenonT(30), <1>4, <2>1, <2>2, <2>3 DEF DownloadNext, Honest, Part
    <3> QED
      BY ZenonT(30), <1>1, <3>1, DiskSteps
  <2>4. CASE downloading \in {"changelog", "changelog1"}
    <3>1. FileOf(p.data, log') /\ p.data \in Seq(Line)
      BY ZenonT(30), <2>1, <2>2, <2>4, StillOf DEF Honest, FileOf
    <3>2. \/ sdisk' = [sdisk EXCEPT !.log1 = p.data]
          \/ sdisk' = [sdisk EXCEPT !.log2 = p.data]
      BY ZenonT(30), <1>4, <2>4 DEF DownloadNext
    <3> HIDE DEF p
    <3> QED
      BY SMTT(30), <1>1, <3>1, <3>2, DiskSteps
  <2>5. CASE downloading = "sessions"
    BY ZenonT(30), <1>2, <1>4, <2>5 DEF DownloadNext
  <2> QED
    BY ZenonT(30), <1>4, <2>3, <2>4, <2>5 DEF DownloadNext
<1>5. CASE FinishLoad
  <2>1. sdisk' = Dumped(sdisk, mem) /\ mem \in Seq(Nat)
    BY ZenonT(30), <1>5 DEF FinishLoad, RInv, Service
  <2> QED
    BY ZenonT(30), <1>1, <2>1, DiskSteps
<1>6. CASE ShadowDump
  <2>1. sdisk' = Dumped(sdisk, mem) /\ mem \in Seq(Nat)
    BY ZenonT(30), <1>1, <1>6 DEF ShadowDump
  <2> QED
    BY ZenonT(30), <1>1, <2>1, DiskSteps
<1>7. CASE ShadowRestart \/ Promote
  BY ZenonT(30), <1>1, <1>7 DEF ShadowRestart, Promote, FreshShadow
<1>8. CASE MasterChange \/ PeriodicDump \/ FinishDump \/ FailDump \/ PeriodPasses \/ MasterRestart
  BY ZenonT(30), <1>2, <1>8 DEF MasterChange, PeriodicDump, FinishDump, FailDump, PeriodPasses, MasterRestart
<1>9. CASE RegisterShadow \/ DownloadStart \/ ChangelogApplyErrorRequest
  BY ZenonT(30), <1>2, <1>9 DEF RegisterShadow, DownloadStart, ChangelogApplyErrorRequest, FromShadow
<1>10. CASE OnRegistered \/ ChangelogApplyError
  BY ZenonT(30), <1>2, <1>10 DEF OnRegistered, ChangelogApplyError, ForceMetadataDownload
<1>11. CASE Connect \/ OpenChangelog \/ LoadLine \/ RetryDumpRequest
  BY ZenonT(30), <1>2, <1>11 DEF Connect, OpenChangelog, LoadLine, RetryDumpRequest
<1>12. CASE SessionsDownload \/ Disconnect \/ DownloadFails \/ UNCHANGED vars
  BY ZenonT(30), <1>2, <1>12 DEF SessionsDownload, Disconnect, DownloadFails, vars
<1> QED
  BY ZenonT(30), <1>3, <1>4, <1>5, <1>6, <1>7, <1>8, <1>9, <1>10, <1>11, <1>12 DEF Next

\* The replay in progress.
LEMMA LoaderStep ==
  ASSUME RInv, ~LostChanges, [Next]_vars
  PROVE  /\ todo' \in Seq(Seq(Line)) /\ lines' \in Seq(Line) /\ FileOf(lines', log')
         /\ \A i \in 1..Len(todo') : FileOf(todo'[i], log')
<1> USE DEF master, link, loader, shadow, ghosts
<1>1. /\ todo \in Seq(Seq(Line)) /\ log' \in Seq(Nat)
      /\ FileOf(lines, log') /\ FileOf(<<>>, log') /\ DiskOf(sdisk, log')
      /\ \A i \in 1..Len(todo) : FileOf(todo[i], log')
  BY ZenonT(30), StillOf, FileSteps DEF RInv, Types, ShadowFiles
<1>2. SUFFICES /\ todo' \in Seq(Seq(Line)) /\ FileOf(lines', log')
               /\ \A i \in 1..Len(todo') : FileOf(todo'[i], log')
  BY ZenonT(30) DEF FileOf
<1>3. CASE UNCHANGED <<todo, lines>>
  BY ZenonT(30), <1>1, <1>3
<1>4. CASE todo' = <<>> /\ lines' = <<>>
  BY SMTT(30), <1>1, <1>4
<1>5. CASE DownloadNext
  <2>1. lines' = lines /\ (todo' = todo \/ todo' = <<sdisk.log2, sdisk.log1, sdisk.cur>>)
    BY ZenonT(30), <1>5 DEF DownloadNext
  <2>2. CASE todo' = <<sdisk.log2, sdisk.log1, sdisk.cur>>
    BY SMTT(20), SMTT(40), <1>1, <2>1, <2>2 DEF DiskOf, FileOf
  <2> QED
    BY ZenonT(30), <1>3, <2>1, <2>2
<1>6. CASE OpenChangelog
  <2>1. CASE todo' = Tail(todo) /\ lines' \in {Head(todo), <<>>}
    <3>1. todo # <<>>
      BY ZenonT(30), <1>6 DEF OpenChangelog
    <3>2. todo \in Seq(Seq(Line))
      BY ZenonT(30), <1>1
    <3>3. /\ Tail(todo) \in Seq(Seq(Line)) /\ 1 \in 1..Len(todo) /\ Head(todo) = todo[1]
          /\ \A i \in 1..Len(Tail(todo)) : i + 1 \in 1..Len(todo) /\ Tail(todo)[i] = todo[i + 1]
      BY <3>1, <3>2
    <3>4. /\ FileOf(Head(todo), log')
          /\ \A i \in 1..Len(Tail(todo)) : FileOf(Tail(todo)[i], log')
      BY ZenonT(30), <1>1, <3>3
    <3> QED
      BY ZenonT(30), <1>1, <2>1, <3>3, <3>4
  <2> QED
    BY ZenonT(30), <1>4, <1>6, <2>1 DEF OpenChangelog
<1>7. CASE LoadLine
  <2>1. FileOf(Tail(lines), log')
    BY ZenonT(30), <1>7, AtHand, StillOf DEF LoadLine
  <2>2. CASE lines' = Tail(lines) /\ todo' = todo
    BY ZenonT(30), <1>1, <2>1, <2>2
  <2> QED
    BY ZenonT(30), <1>4, <1>7, <2>2 DEF LoadLine
<1>8. CASE OnRegistered \/ MetachangesLog \/ ChangelogApplyError
  BY ZenonT(30), <1>3, <1>8 DEF OnRegistered, MetachangesLog, ChangelogApplyError, ForceMetadataDownload
<1>9. CASE MasterChange \/ PeriodicDump \/ FinishDump \/ FailDump \/ PeriodPasses \/ MasterRestart
  BY ZenonT(30), <1>3, <1>9 DEF MasterChange, PeriodicDump, FinishDump, FailDump, PeriodPasses, MasterRestart
<1>10. CASE RegisterShadow \/ DownloadStart \/ ChangelogApplyErrorRequest
  BY ZenonT(30), <1>3, <1>10 DEF RegisterShadow, DownloadStart, ChangelogApplyErrorRequest, FromShadow
<1>11. CASE Connect \/ FinishLoad \/ RetryDumpRequest \/ SessionsDownload \/ ShadowDump
  BY ZenonT(30), <1>3, <1>11 DEF Connect, FinishLoad, RetryDumpRequest, SessionsDownload, ShadowDump
<1>12. CASE ShadowRestart \/ Promote
  BY ZenonT(30), <1>4, <1>12 DEF ShadowRestart, Promote, FreshShadow
<1>13. CASE Disconnect \/ DownloadFails \/ UNCHANGED vars
  BY ZenonT(30), <1>3, <1>13 DEF Disconnect, DownloadFails, vars
<1> QED
  BY ZenonT(30), <1>5, <1>6, <1>7, <1>8, <1>9, <1>10, <1>11, <1>12, <1>13 DEF Next

-----------------------------------------------------------------------------
(* The queues *)

\* The old changes that follow a registration are lines of the history.
LEMMA OldChangesFacts ==
  ASSUME RInv, NEW v \in Nat
  PROVE  /\ OldChanges(v) \in Seq(ToShadowPacket) /\ Absent(OldChanges(v), "file")
         /\ \A i \in 1..Len(OldChanges(v)) : Honest(OldChanges(v)[i], log)
<1>1. CASE oldest = 0
  BY SMTT(30), <1>1 DEF OldChanges, Absent
<1>2. CASE oldest # 0
  <2> DEFINE from == IF v > oldest THEN v ELSE oldest
             n == Version(log) - from
             P(i) == [op |-> "change", id |-> from + i - 1, change |-> log[from + i - 1]]
             s == [i \in 1..n |-> P(i)]
  <2>1. log \in Seq(Nat) /\ from \in Nat \ {0} /\ oldest \in Nat /\ n \in Int
        /\ Version(log) = Len(log) + 1 /\ Len(log) \in Nat
    BY SMTT(30), <1>2 DEF RInv, Types, Version
  <2>2. OldChanges(v) = s
    BY ZenonT(30), <1>2 DEF OldChanges
  <2> HIDE DEF from
  <2>3. ASSUME NEW i \in 1..n
        PROVE  /\ P(i) \in ToShadowPacket /\ P(i).op = "change"
               /\ LineOf([id |-> P(i).id, change |-> P(i).change], log)
    <3>1. from + i - 1 \in 1..Len(log) /\ from + i - 1 \in Nat
      BY SMTT(30), <2>1
    <3>2. log[from + i - 1] \in Nat
      BY SMTT(30), <2>1, <3>1
    <3>3. P(i) \in ToShadowPacket
      BY ZenonT(30), <3>1, <3>2, PacketTypes
    <3> QED
      BY ZenonT(30), <3>1, <3>2, <3>3 DEF LineOf, Line
  <2> HIDE DEF n
  <2>4. /\ s \in [1..n -> ToShadowPacket]
        /\ \A i \in 1..n : s[i].op = "change" /\ LineOf([id |-> s[i].id, change |-> s[i].change], log)
    <3> HIDE DEF P
    <3>1. s \in [1..n -> ToShadowPacket] /\ \A i \in 1..n : s[i] = P(i)
      BY <2>3, ZenonT(30)
    <3> QED
      BY <2>3, <3>1, ZenonT(30)
  <2> HIDE DEF s
  <2>5. s \in Seq(ToShadowPacket) /\ 1..Len(s) = 1..n
    <3>1. CASE n \in Nat
      BY <2>4, <3>1
    <3>2. CASE n \notin Nat
      <4>1. 1..n = {} /\ 1..0 = {}
        BY <2>1, <3>2
      <4>2. 1..n = 1..0 /\ s \in [1..0 -> ToShadowPacket]
        BY <2>4, <4>1, ZenonT(30)
      <4>3. s \in Seq(ToShadowPacket) /\ Len(s) = 0
        BY <4>2
      <4> QED
        BY ZenonT(30), <4>2, <4>3
    <3> QED
      BY ZenonT(30), <3>1, <3>2
  <2> QED
    BY ZenonT(30), <2>2, <2>4, <2>5 DEF Honest, Absent
<1> QED
  BY ZenonT(30), <1>1, <1>2

\* The packets to the master.
LEMMA ToMasterStep ==
  ASSUME RInv, ~LostChanges, [Next]_vars
  PROVE  toMaster' \in Seq(ToMasterPacket)
<1> USE DEF master, link, loader, shadow, ghosts
<1>1. toMaster \in Seq(ToMasterPacket)
  BY ZenonT(30) DEF RInv, Types
<1>2. CASE \/ toMaster' = toMaster \/ toMaster' = <<>>
           \/ \E p \in ToMasterPacket : toMaster' = Append(toMaster, p)
  <2>1. /\ <<>> \in Seq(ToMasterPacket)
        /\ \A p \in ToMasterPacket : Append(toMaster, p) \in Seq(ToMasterPacket)
    BY SMTT(30), <1>1
  <2> QED
    BY <1>1, <1>2, <2>1, ZenonT(30)
<1>3. /\ Request("applyError") \in ToMasterPacket
      /\ \A f \in Files : RequestFile(f) \in ToMasterPacket
  BY ZenonT(30), PacketTypes
<1>4. CASE MasterChange \/ PeriodicDump \/ FinishDump \/ FailDump \/ PeriodPasses
  BY ZenonT(30), <1>2, <1>4 DEF MasterChange, PeriodicDump, FinishDump, FailDump, PeriodPasses
<1>5. CASE RegisterShadow \/ DownloadStart \/ ChangelogApplyErrorRequest
  <2>1. toMaster # <<>> /\ toMaster' = Tail(toMaster)
    BY ZenonT(30), <1>5 DEF RegisterShadow, DownloadStart, ChangelogApplyErrorRequest, FromShadow
  <2> QED
    BY ZenonT(30), <2>1, AtHand
<1>6. CASE Connect
  <2> DEFINE v == IF state = "sync" THEN Version(mem) ELSE 0
             register == [op |-> "register", version |-> v]
  <2>1. v \in Nat
    BY SMTT(30) DEF RInv, Service, Version
  <2> HIDE DEF v
  <2>2. register \in ToMasterPacket
    BY ZenonT(30), <2>1, PacketTypes
  <2>3. RequestFile("metadata") \in ToMasterPacket
    BY ZenonT(30), <1>3 DEF Files
  <2>4. \/ toMaster' = <<register, RequestFile("metadata")>>
        \/ toMaster' = <<register, Request("applyError")>>
        \/ toMaster' = <<register>>
    BY ZenonT(30), <1>6 DEF Connect, v
  <2>5. \A a, b \in ToMasterPacket :
          <<a, b>> \in Seq(ToMasterPacket) /\ <<a>> \in Seq(ToMasterPacket)
    BY SMTT(30)
  <2> HIDE DEF register
  <2> QED
    BY <1>3, <2>2, <2>3, <2>4, <2>5, ZenonT(30)
<1>7. CASE OnRegistered \/ ChangelogApplyError
  BY ZenonT(30), <1>2, <1>7 DEF OnRegistered, ChangelogApplyError, ForceMetadataDownload, Close
<1>8. CASE MetachangesLog \/ OpenChangelog \/ LoadLine \/ RetryDumpRequest
  <2>1. toMaster' = toMaster \/ toMaster' = Append(toMaster, Request("applyError"))
    BY ZenonT(30), <1>8 DEF MetachangesLog, OpenChangelog, LoadLine, RetryDumpRequest, RequestMetadataDump,
                ToMaster
  <2> QED
    BY ZenonT(30), <1>2, <1>3, <2>1
<1>9. CASE DownloadNext \/ SessionsDownload
  <2>1. toMaster' = toMaster \/ \E f \in Files : toMaster' = Append(toMaster, RequestFile(f))
    BY ZenonT(30), <1>9 DEF DownloadNext, SessionsDownload, ToMaster, Files
  <2> QED
    BY ZenonT(30), <1>2, <1>3, <2>1
<1>10. CASE FinishLoad \/ ShadowDump \/ DownloadFails \/ UNCHANGED vars
  BY ZenonT(30), <1>2, <1>10 DEF FinishLoad, ShadowDump, DownloadFails, vars
<1>11. CASE Disconnect \/ ShadowRestart \/ MasterRestart \/ Promote
  BY ZenonT(30), <1>2, <1>11 DEF Disconnect, ShadowRestart, MasterRestart, Promote, FreshShadow, Close
<1> QED
  BY ZenonT(30), <1>4, <1>5, <1>6, <1>7, <1>8, <1>9, <1>10, <1>11 DEF Next

\* The packets to the shadow.
LEMMA ToShadowStep ==
  ASSUME RInv, ~LostChanges, [Next]_vars
  PROVE  toShadow' \in Seq(ToShadowPacket) /\ Packets'
\* A queue of honest packets with another one, or a part of it.
<1>HonestSteps.
  ASSUME NEW s \in Seq(ToShadowPacket), NEW l, \A i \in 1..Len(s) : Honest(s[i], l)
  PROVE  /\ \A p \in ToShadowPacket : Honest(p, l) =>
              /\ Append(s, p) \in Seq(ToShadowPacket)
              /\ \A i \in 1..Len(Append(s, p)) : Honest(Append(s, p)[i], l)
         /\ s # <<>> => /\ Tail(s) \in Seq(ToShadowPacket)
                        /\ \A i \in 1..Len(Tail(s)) : Honest(Tail(s)[i], l)
         /\ \A t \in Seq(ToShadowPacket) : (\A i \in 1..Len(t) : Honest(t[i], l)) =>
              /\ s \o t \in Seq(ToShadowPacket)
              /\ \A i \in 1..Len(s \o t) : Honest((s \o t)[i], l)
  <2> USE <1>HonestSteps
  <2>1. ASSUME NEW p \in ToShadowPacket, Honest(p, l)
        PROVE  /\ Append(s, p) \in Seq(ToShadowPacket)
               /\ \A i \in 1..Len(Append(s, p)) : Honest(Append(s, p)[i], l)
    BY <2>1
  <2>2. ASSUME s # <<>>
        PROVE  /\ Tail(s) \in Seq(ToShadowPacket)
               /\ \A i \in 1..Len(Tail(s)) : Honest(Tail(s)[i], l)
    BY SMTT(30), <2>2
  <2>3. ASSUME NEW t \in Seq(ToShadowPacket), \A i \in 1..Len(t) : Honest(t[i], l)
        PROVE  /\ s \o t \in Seq(ToShadowPacket)
               /\ \A i \in 1..Len(s \o t) : Honest((s \o t)[i], l)
    <3>1. s \o t \in Seq(ToShadowPacket) /\ Len(s \o t) = Len(s) + Len(t)
      BY SMTT(30)
    <3>2. ASSUME NEW i \in 1..Len(s \o t) PROVE Honest((s \o t)[i], l)
      <4>1. CASE i <= Len(s)
        <5>1. i \in 1..Len(s) /\ (s \o t)[i] = s[i]
          BY SMTT(30), <4>1
        <5> QED
          BY ZenonT(30), <5>1
      <4>2. CASE i > Len(s)
        <5>1. i - Len(s) \in 1..Len(t) /\ (s \o t)[i] = t[i - Len(s)]
          BY SMTT(30), <3>1, <4>2
        <5> QED
          BY ZenonT(30), <2>3, <5>1
      <4> QED
        BY SMTT(30), <3>1, <4>1, <4>2
    <3> QED
      BY ZenonT(30), <3>1, <3>2
  <2> QED
    BY ZenonT(30), <2>1, <2>2, <2>3
<1> USE DEF master, link, loader, shadow, ghosts
<1>1. /\ toShadow \in Seq(ToShadowPacket) /\ log \in Seq(Nat) /\ log' \in Seq(Nat)
      /\ \A i \in 1..Len(toShadow) : Honest(toShadow[i], log')
  BY ZenonT(30), StillOf DEF RInv, Types, Packets, Honest
<1>2. SUFFICES /\ toShadow' \in Seq(ToShadowPacket)
               /\ \A i \in 1..Len(toShadow') : Honest(toShadow'[i], log')
  BY ZenonT(30) DEF Packets
<1>3. CASE toShadow' = toShadow
  BY ZenonT(30), <1>1, <1>3
<1>4. CASE toShadow' = <<>>
  BY SMTT(30), <1>4
<1>5. CASE toShadow # <<>> /\ toShadow' = Tail(toShadow)
  BY ZenonT(30), <1>1, <1>5, <1>HonestSteps
<1>6. CASE \E p \in ToShadowPacket : Honest(p, log') /\ toShadow' = Append(toShadow, p)
  BY ZenonT(30), <1>1, <1>6, <1>HonestSteps
<1>7. \A v \in {"ok", "error", "delayed"} :
         [op |-> "applyError", status |-> v] \in ToShadowPacket
         /\ Honest([op |-> "applyError", status |-> v], log')
  BY ZenonT(30), PacketTypes DEF Honest
<1>8. CASE MasterChange
  <2> DEFINE r == [id |-> Version(log), change |-> term * MaxVersion + Version(log)]
             p == [op |-> "change", id |-> r.id, change |-> r.change]
  <2>1. r \in Line /\ LineOf(r, log')
    BY ZenonT(30), <1>8, NewLine
  <2>2. p \in ToShadowPacket /\ Honest(p, log')
    <3>1. r.id \in Nat /\ r.change \in Nat /\ [id |-> r.id, change |-> r.change] = r
      BY ZenonT(30), <2>1 DEF Line
    <3>2. p \in ToShadowPacket
      BY ZenonT(60), <3>1, PacketTypes
    <3>3. [id |-> p.id, change |-> p.change] = r /\ p.op = "change"
      BY ZenonT(30), <3>1
    <3> HIDE DEF p, r
    <3> QED
      BY ZenonT(30), <2>1, <3>2, <3>3 DEF Honest
  <2>3. toShadow' = toShadow \/ toShadow' = Append(toShadow, p)
    BY ZenonT(30), <1>8 DEF MasterChange, ToShadow
  <2> HIDE DEF p
  <2> QED
    BY ZenonT(30), <1>3, <1>6, <2>2, <2>3
<1>9. CASE FinishDump \/ FailDump
  <2>1. \/ toShadow' = toShadow
        \/ \E v \in {"ok", "error", "delayed"} :
              toShadow' = Append(toShadow, [op |-> "applyError", status |-> v])
    BY ZenonT(30), <1>9 DEF FinishDump, FailDump, AnswerQueue, ToShadow
  <2> QED
    BY ZenonT(30), <1>3, <1>6, <1>7, <2>1
<1>10. CASE RegisterShadow
  <2> DEFINE v == Head(toMaster).version
             reply == IF Version(log) > v /\ oldest # 0 /\ oldest <= v THEN v ELSE Version(log)
             p == [op |-> "registered", version |-> reply]
  <2>1. v \in Nat /\ Version(log) \in Nat
    BY SMTT(30), <1>1, <1>10, AtHand, PacketFields DEF RegisterShadow, FromShadow, Version
  <2>2. reply \in Nat
    BY ZenonT(30), <2>1
  <2>3. toShadow' = Append(toShadow, p) \o OldChanges(reply) /\ log' = log
    BY ZenonT(30), <1>10 DEF RegisterShadow, FromShadow
  <2> HIDE DEF reply
  <2>4. p \in ToShadowPacket /\ Honest(p, log')
    BY ZenonT(30), <2>2, PacketTypes DEF Honest
  <2>5. /\ OldChanges(reply) \in Seq(ToShadowPacket)
        /\ \A i \in 1..Len(OldChanges(reply)) : Honest(OldChanges(reply)[i], log')
    BY ZenonT(30), <2>2, <2>3, OldChangesFacts
  <2> HIDE DEF p
  <2>6. /\ Append(toShadow, p) \in Seq(ToShadowPacket)
        /\ \A i \in 1..Len(Append(toShadow, p)) : Honest(Append(toShadow, p)[i], log')
    BY ZenonT(30), <1>1, <2>4, <1>HonestSteps
  <2> QED
    BY ZenonT(30), <2>3, <2>5, <2>6, <1>HonestSteps
<1>11. CASE DownloadStart
  <2> DEFINE f == Head(toMaster).file
             P(d) == [op |-> "file", file |-> f, data |-> d]
  <2>1. /\ log' = log /\ Part(mdisk.meta, log) /\ FileOf(eptr.chain1, log)
        /\ FileOf(eptr.chain2, log) /\ <<>> \in Seq(Nat)
    BY SMTT(30), <1>11 DEF DownloadStart, FromShadow, RInv, MasterFiles
  <2>2. CASE f = "metadata" /\ toShadow' = Append(toShadow, P(mdisk.meta))
    <3>1. P(mdisk.meta) \in ToShadowPacket
      BY ZenonT(60), <2>1, <2>2, PacketTypes DEF Part
    <3>2. Honest(P(mdisk.meta), log')
      BY ZenonT(60), <2>1, <2>2 DEF Honest
    <3> QED
      BY ZenonT(30), <1>6, <2>2, <3>1, <3>2
  <2>3. CASE f = "changelog" /\ toShadow' = Append(toShadow, P(eptr.chain1))
    <3>1. P(eptr.chain1) \in ToShadowPacket
      BY ZenonT(60), <2>1, <2>3, PacketTypes DEF FileOf
    <3>2. Honest(P(eptr.chain1), log')
      BY ZenonT(60), <2>1, <2>3 DEF Honest
    <3> QED
      BY ZenonT(60), <1>6, <2>3, <3>1, <3>2
  <2>4. CASE f = "changelog1" /\ toShadow' = Append(toShadow, P(eptr.chain2))
    <3>1. P(eptr.chain2) \in ToShadowPacket
      BY ZenonT(30), <2>1, <2>4, PacketTypes DEF FileOf
    <3>2. Honest(P(eptr.chain2), log')
      BY ZenonT(60), <2>1, <2>4 DEF Honest
    <3> QED
      BY ZenonT(60), <1>6, <2>4, <3>1, <3>2
  <2>5. CASE f = "sessions" /\ toShadow' = Append(toShadow, P(<<>>))
    <3>1. P(<<>>) \in ToShadowPacket
      BY ZenonT(60), <2>1, <2>5, PacketTypes
    <3>2. Honest(P(<<>>), log')
      BY ZenonT(30), <2>1, <2>5 DEF Honest
    <3> QED
      BY ZenonT(30), <1>6, <2>5, <3>1, <3>2
  <2> QED
    BY ZenonT(30), <1>11, <2>2, <2>3, <2>4, <2>5 DEF DownloadStart, ToShadow
<1>12. CASE ChangelogApplyErrorRequest
  <2>1. \/ toShadow' = toShadow
        \/ toShadow' = Append(toShadow, [op |-> "applyError", status |-> "delayed"])
    BY ZenonT(30), <1>12 DEF ChangelogApplyErrorRequest, ToShadow
  <2> QED
    BY ZenonT(30), <1>3, <1>6, <1>7, <2>1
<1>13. CASE OnRegistered \/ ChangelogApplyError
  BY ZenonT(30), <1>4, <1>5, <1>13 DEF OnRegistered, ChangelogApplyError, FromMaster, Consumed,
                           ForceMetadataDownload, Close
<1>14. CASE MetachangesLog \/ DownloadNext \/ DownloadFails
  BY ZenonT(30), <1>5, <1>14 DEF MetachangesLog, DownloadNext, DownloadFails, FromMaster, Consumed
<1>15. CASE Connect \/ OpenChangelog \/ LoadLine \/ FinishLoad \/ RetryDumpRequest
  BY ZenonT(30), <1>3, <1>15 DEF Connect, OpenChangelog, LoadLine, FinishLoad, RetryDumpRequest
<1>16. CASE SessionsDownload \/ ShadowDump \/ PeriodicDump \/ PeriodPasses \/ UNCHANGED vars
  BY ZenonT(30), <1>3, <1>16 DEF SessionsDownload, ShadowDump, PeriodicDump, PeriodPasses, vars
<1>17. CASE Disconnect \/ ShadowRestart \/ MasterRestart \/ Promote
  BY ZenonT(30), <1>4, <1>17 DEF Disconnect, ShadowRestart, MasterRestart, Promote, FreshShadow, Close
<1> QED
  BY ZenonT(30), <1>8, <1>9, <1>10, <1>11, <1>12, <1>13, <1>14, <1>15, <1>16, <1>17 DEF Next

\* t has no packets of kind op that were not in s.
Keeps(s, t, op) ==
  /\ Absent(s, op) => Absent(t, op)
  /\ AtMostOne(s, op) => AtMostOne(t, op)
  /\ \A f : Matching(s, op, f) => Matching(t, op, f)

\* The ways in which a queue gets no packet of kind op.
LEMMA KeepsSteps ==
  ASSUME NEW S, NEW s \in Seq(S), NEW op
  PROVE  /\ Keeps(s, s, op) /\ Keeps(s, <<>>, op)
         /\ s # <<>> => Keeps(s, Tail(s), op)
         /\ \A p \in S : p.op # op => Append(s, p) \in Seq(S) /\ Keeps(s, Append(s, p), op)
         /\ \A t \in Seq(S) : Absent(t, op) => Keeps(s, s \o t, op)
<1>1. Keeps(s, s, op) /\ Keeps(s, <<>>, op)
  BY ZenonT(60), Cleared DEF Keeps
<1>2. ASSUME s # <<>> PROVE Keeps(s, Tail(s), op)
  BY ZenonT(30), <1>2, Taken DEF Keeps
<1>3. ASSUME NEW p \in S, p.op # op PROVE Append(s, p) \in Seq(S) /\ Keeps(s, Append(s, p), op)
  BY ZenonT(30), <1>3, Added DEF Keeps
<1>4. ASSUME NEW t \in Seq(S), Absent(t, op) PROVE Keeps(s, s \o t, op)
  <2>1. /\ Len(s) \in Nat /\ Len(t) \in Nat /\ Len(s \o t) = Len(s) + Len(t)
        /\ \A i \in 1..Len(s \o t) :
             \/ i \in 1..Len(s) /\ (s \o t)[i] = s[i]
             \/ i - Len(s) \in 1..Len(t) /\ (s \o t)[i] = t[i - Len(s)]
    OBVIOUS
  <2>2. \A i \in 1..Len(s \o t) : (s \o t)[i].op = op => i \in 1..Len(s) /\ (s \o t)[i] = s[i]
    BY ZenonT(30), <1>4, <2>1 DEF Absent
  <2> QED
    BY ZenonT(30), <2>2 DEF Keeps, Absent, AtMostOne, Matching
<1> QED
  BY ZenonT(30), <1>1, <1>2, <1>3, <1>4

\* One file request or reply at most is under way, for the file awaited.
LEMMA TrafficStep ==
  ASSUME RInv, [Next]_vars
  PROVE  Traffic'
\* A queue without such packets.
<1>AbsentFacts.
  ASSUME NEW s, NEW op, Absent(s, op)
  PROVE  AtMostOne(s, op) /\ \A f : Matching(s, op, f)
  BY <1>AbsentFacts, ZenonT(30) DEF Absent, AtMostOne, Matching
\* A closed connection has no traffic.
<1>UpStep.
  ASSUME RInv, [Next]_vars
  PROVE  ~up' => toMaster' = <<>> /\ toShadow' = <<>> /\ ~eptr'.queued /\ ~eptr'.registered
  <2> USE <1>UpStep
  <2> USE DEF master, link, loader, shadow, ghosts
  <2>1. /\ ~up => toMaster = <<>> /\ toShadow = <<>> /\ ~eptr.queued /\ ~eptr.registered
        /\ eptr \in Entry
    BY ZenonT(30) DEF RInv, Types, Traffic
  <2>2. CASE Close
    BY ZenonT(30), <2>2 DEF Close, Closed
  <2>3. CASE UNCHANGED link
    BY ZenonT(30), <2>1, <2>3
  <2>4. CASE up /\ up' = up
    BY ZenonT(30), <2>4
  <2>5. CASE MasterChange
    <3>1. /\ up' = up /\ toMaster' = toMaster /\ (~eptr.registered => toShadow' = toShadow)
          /\ eptr' = eptr \/ \E f : eptr' = [eptr EXCEPT !.chain1 = f]
      BY ZenonT(60), <2>5 DEF MasterChange
    <3>2. ~eptr.queued /\ ~eptr.registered => ~eptr'.queued /\ ~eptr'.registered
      BY ZenonT(30), <2>1, <3>1 DEF Entry
    <3> QED
      BY ZenonT(30), <2>1, <3>1, <3>2
  <2>6. CASE PeriodicDump
    <3>1. /\ up' = up /\ toMaster' = toMaster /\ toShadow' = toShadow
          /\ eptr' = [eptr EXCEPT !.live = FALSE]
      BY ZenonT(30), <2>6 DEF PeriodicDump, StartDump
    <3>2. ~eptr.queued /\ ~eptr.registered => ~eptr'.queued /\ ~eptr'.registered
      BY ZenonT(30), <2>1, <3>1 DEF Entry
    <3> QED
      BY ZenonT(30), <2>1, <3>1, <3>2
  <2>7. CASE FinishDump \/ FailDump
    <3>1. /\ up' = up /\ toMaster' = toMaster /\ (~eptr.queued => toShadow' = toShadow)
          /\ eptr' = [eptr EXCEPT !.queued = FALSE]
      BY ZenonT(30), <2>7 DEF FinishDump, FailDump, AnswerQueue
    <3>2. ~eptr.queued /\ ~eptr.registered => ~eptr'.queued /\ ~eptr'.registered
      BY ZenonT(30), <2>1, <3>1 DEF Entry
    <3> QED
      BY ZenonT(30), <2>1, <3>1, <3>2
  <2>8. CASE RegisterShadow \/ DownloadStart \/ ChangelogApplyErrorRequest
    BY ZenonT(30), <2>1, <2>4, <2>8 DEF RegisterShadow, DownloadStart, ChangelogApplyErrorRequest, FromShadow
  <2>9. CASE Connect
    BY ZenonT(30), <2>9 DEF Connect
  <2>10. CASE OnRegistered \/ ChangelogApplyError
    BY ZenonT(30), <2>1, <2>2, <2>4, <2>10 DEF OnRegistered, ChangelogApplyError, FromMaster,
                                   ForceMetadataDownload
  <2>11. CASE MetachangesLog \/ DownloadNext \/ DownloadFails
    BY ZenonT(30), <2>1, <2>4, <2>11 DEF MetachangesLog, DownloadNext, DownloadFails, FromMaster,
                             RequestMetadataDump
  <2>12. CASE OpenChangelog \/ LoadLine \/ RetryDumpRequest \/ SessionsDownload
    BY ZenonT(30), <2>1, <2>12 DEF OpenChangelog, LoadLine, RetryDumpRequest, SessionsDownload,
                       RequestMetadataDump, ToMaster
  <2>13. CASE PeriodPasses \/ FinishLoad \/ ShadowDump \/ UNCHANGED vars
    BY ZenonT(30), <2>3, <2>13 DEF PeriodPasses, FinishLoad, ShadowDump, vars
  <2>14. CASE Disconnect \/ ShadowRestart \/ MasterRestart \/ Promote
    BY ZenonT(30), <2>2, <2>14 DEF Disconnect, ShadowRestart, MasterRestart, Promote, FreshShadow
  <2> QED
    BY ZenonT(30), <2>5, <2>6, <2>7, <2>8, <2>9, <2>10, <2>11, <2>12, <2>13, <2>14 DEF Next
<1> USE DEF master, link, loader, shadow, ghosts
<1>1. /\ toMaster \in Seq(ToMasterPacket) /\ toShadow \in Seq(ToShadowPacket)
      /\ Traffic
  BY ZenonT(30) DEF RInv, Types
<1>2. CASE /\ downloading' = downloading
           /\ Keeps(toMaster, toMaster', "start") /\ Keeps(toShadow, toShadow', "file")
  BY ZenonT(30), <1>1, <1>2, <1>UpStep DEF Traffic, Keeps
<1>3. CASE Close
  BY ZenonT(30), <1>3, <1>UpStep, Cleared DEF Traffic, Close
<1>4. /\ Keeps(toMaster, toMaster, "start") /\ Keeps(toShadow, toShadow, "file")
      /\ toMaster # <<>> => Keeps(toMaster, Tail(toMaster), "start")
      /\ toShadow # <<>> => Keeps(toShadow, Tail(toShadow), "file")
      /\ Keeps(toMaster, Append(toMaster, Request("applyError")), "start")
      /\ \A v \in {"ok", "error", "delayed"} :
           Keeps(toShadow, Append(toShadow, [op |-> "applyError", status |-> v]), "file")
      /\ \A v, c \in Nat :
           Keeps(toShadow, Append(toShadow, [op |-> "change", id |-> v, change |-> c]), "file")
  <2>1. Request("applyError").op # "start"
    BY ZenonT(30) DEF Request
  <2>2. Keeps(toMaster, Append(toMaster, Request("applyError")), "start")
    BY ZenonT(30), <1>1, <2>1, KeepsSteps, PacketTypes
  <2>3. ASSUME NEW v \in {"ok", "error", "delayed"}
        PROVE  Keeps(toShadow, Append(toShadow, [op |-> "applyError", status |-> v]), "file")
    <3> DEFINE p == [op |-> "applyError", status |-> v]
    <3>1. p \in ToShadowPacket /\ p.op # "file"
      BY ZenonT(30), PacketTypes
    <3> HIDE DEF p
    <3>2. Keeps(toShadow, Append(toShadow, p), "file")
      BY ZenonT(30), <1>1, <3>1, KeepsSteps
    <3> QED
      BY ZenonT(30), <3>2 DEF p
  <2>4. ASSUME NEW v \in Nat, NEW c \in Nat
        PROVE  Keeps(toShadow, Append(toShadow, [op |-> "change", id |-> v, change |-> c]), "file")
    <3> DEFINE p == [op |-> "change", id |-> v, change |-> c]
    <3>1. p \in ToShadowPacket /\ p.op # "file"
      BY ZenonT(30), PacketTypes
    <3> HIDE DEF p
    <3>2. Keeps(toShadow, Append(toShadow, p), "file")
      BY ZenonT(30), <1>1, <3>1, KeepsSteps
    <3> QED
      BY ZenonT(30), <3>2 DEF p
  <2> QED
    BY ZenonT(30), <1>1, <2>2, <2>3, <2>4, KeepsSteps
<1>5. CASE MasterChange
  <2> DEFINE c == term * MaxVersion + Version(log)
  <2>1. /\ downloading' = downloading /\ toMaster' = toMaster
        /\ \/ toShadow' = toShadow
           \/ toShadow' = Append(toShadow, [op |-> "change", id |-> Version(log), change |-> c])
    BY ZenonT(30), <1>5 DEF MasterChange, ToShadow
  <2>2. Version(log) \in Nat /\ c \in Nat
    BY ZenonT(30), NewChange
  <2> HIDE DEF c
  <2> QED
    BY ZenonT(30), <1>2, <1>4, <2>1, <2>2
<1>6. CASE FinishDump \/ FailDump
  BY ZenonT(30), <1>2, <1>4, <1>6 DEF FinishDump, FailDump, AnswerQueue, ToShadow
<1>7. CASE RegisterShadow
  <2> DEFINE v == Head(toMaster).version
             reply == IF Version(log) > v /\ oldest # 0 /\ oldest <= v THEN v ELSE Version(log)
             p == [op |-> "registered", version |-> reply]
  <2>1. v \in Nat /\ Version(log) \in Nat
    BY ZenonT(30), <1>7, AtHand, PacketFields, NewChange DEF RegisterShadow, FromShadow
  <2>2. reply \in Nat
    BY ZenonT(30), <2>1
  <2>3. /\ toShadow' = Append(toShadow, p) \o OldChanges(reply)
        /\ toMaster # <<>> /\ toMaster' = Tail(toMaster) /\ downloading' = downloading
    BY ZenonT(30), <1>7 DEF RegisterShadow, FromShadow
  <2> HIDE DEF reply
  <2>4. p \in ToShadowPacket /\ p.op # "file"
    BY ZenonT(30), <2>2, PacketTypes
  <2>5. OldChanges(reply) \in Seq(ToShadowPacket) /\ Absent(OldChanges(reply), "file")
    BY ZenonT(30), <2>2, OldChangesFacts
  <2> HIDE DEF p
  <2>6. Append(toShadow, p) \in Seq(ToShadowPacket) /\ Keeps(toShadow, Append(toShadow, p), "file")
    BY ZenonT(30), <1>1, <2>4, KeepsSteps
  <2>7. Keeps(Append(toShadow, p), toShadow', "file")
    BY ZenonT(30), <2>3, <2>5, <2>6, KeepsSteps
  <2>8. Keeps(toShadow, toShadow', "file")
    BY ZenonT(30), <2>6, <2>7 DEF Keeps
  <2> QED
    BY ZenonT(30), <1>2, <1>4, <2>3, <2>8
<1>8. CASE ChangelogApplyErrorRequest
  BY ZenonT(30), <1>2, <1>4, <1>8 DEF ChangelogApplyErrorRequest, FromShadow, ToShadow
<1>9. CASE OnRegistered \/ ChangelogApplyError
  BY ZenonT(30), <1>2, <1>3, <1>4, <1>9 DEF OnRegistered, ChangelogApplyError, FromMaster, Consumed,
                                ForceMetadataDownload
<1>10. CASE MetachangesLog
  BY ZenonT(30), <1>2, <1>4, <1>10 DEF MetachangesLog, FromMaster, Consumed, RequestMetadataDump, ToMaster
<1>11. CASE OpenChangelog \/ LoadLine \/ RetryDumpRequest
  BY ZenonT(60), <1>2, <1>4, <1>11 DEF OpenChangelog, LoadLine, RetryDumpRequest, RequestMetadataDump, ToMaster
<1>12. CASE PeriodicDump \/ PeriodPasses \/ FinishLoad \/ ShadowDump \/ UNCHANGED vars
  BY ZenonT(60), <1>2, <1>4, <1>12 DEF PeriodicDump, PeriodPasses, FinishLoad, ShadowDump, vars
<1>13. CASE Disconnect \/ ShadowRestart \/ MasterRestart \/ Promote
  BY ZenonT(30), <1>3, <1>13 DEF Disconnect, ShadowRestart, MasterRestart, Promote, FreshShadow
<1>14. CASE DownloadStart
  <2> DEFINE f == Head(toMaster).file
  <2>1. /\ toMaster # <<>> /\ Head(toMaster).op = "start" /\ toMaster' = Tail(toMaster)
        /\ downloading' = downloading
    BY ZenonT(30), <1>14 DEF DownloadStart, FromShadow
  <2>2. f = downloading /\ Absent(toMaster', "start") /\ Absent(toShadow, "file")
    BY ZenonT(30), <1>1, <2>1, Taken DEF Traffic
  <2>3. PICK d : toShadow' = Append(toShadow, [op |-> "file", file |-> f, data |-> d])
    BY ZenonT(30), <1>14 DEF DownloadStart, ToShadow
  <2> DEFINE p == [op |-> "file", file |-> f, data |-> d]
  <2>4. p.op = "file" /\ p.file = downloading
    BY ZenonT(30), <2>2
  <2>5. Head(toMaster) \in ToMasterPacket
    BY ZenonT(30), <2>1, AtHand
  <2>6. AtMostOne(toShadow', "file") /\ Matching(toShadow', "file", downloading)
    <3>1. \E S : toShadow \in Seq(S) /\ p \in S
      <4>1. toShadow \in Seq(ToShadowPacket \cup {p})
        BY SMTT(30), <1>1
      <4> QED
        BY ZenonT(30), <4>1
    <3>2. PICK S : toShadow \in Seq(S) /\ p \in S
      BY ZenonT(30), <3>1
    <3> HIDE DEF p
    <3> QED
      BY ZenonT(30), <2>2, <2>3, <2>4, <3>2, Added DEF p
  <2>7. downloading # "nothing"
    BY ZenonT(30), <1>1, <2>1, Taken DEF Traffic
  <2> QED
    BY ZenonT(30), <2>1, <2>2, <2>6, <2>7, <1>AbsentFacts, <1>UpStep DEF Traffic
<1>15. CASE DownloadNext \/ DownloadFails
  <2>1. toShadow # <<>> /\ Head(toShadow).op = "file" /\ toShadow' = Tail(toShadow)
    BY ZenonT(30), <1>15 DEF DownloadNext, DownloadFails, FromMaster, Consumed
  <2>2. Absent(toShadow', "file") /\ Absent(toMaster, "start")
    BY ZenonT(30), <1>1, <2>1, Taken DEF Traffic
  <2>3. CASE toMaster' = toMaster
    BY ZenonT(30), <2>2, <2>3, <1>AbsentFacts, <1>UpStep DEF Traffic
  <2>4. CASE /\ toMaster' = Append(toMaster, RequestFile(downloading'))
             /\ downloading' \in Files
    <3>1. /\ RequestFile(downloading') \in ToMasterPacket
          /\ RequestFile(downloading').op = "start" /\ RequestFile(downloading').file = downloading'
      BY ZenonT(30), <2>4, PacketTypes DEF RequestFile
    <3>2. AtMostOne(toMaster', "start") /\ Matching(toMaster', "start", downloading')
      BY ZenonT(30), <1>1, <2>2, <2>4, <3>1, Added
    <3> QED
      BY ZenonT(30), <2>2, <2>4, <3>2, <1>AbsentFacts, <1>UpStep DEF Traffic, Files
  <2> QED
    BY ZenonT(30), <1>15, <2>3, <2>4 DEF DownloadNext, DownloadFails, ToMaster, Files
<1>16. CASE SessionsDownload
  <2>1. /\ toMaster' = Append(toMaster, RequestFile("sessions")) /\ downloading' = "sessions"
        /\ toShadow' = toShadow /\ downloading = "nothing"
    BY ZenonT(30), <1>16 DEF SessionsDownload, ToMaster
  <2>2. Absent(toMaster, "start") /\ Absent(toShadow, "file")
    BY ZenonT(30), <1>1, <2>1 DEF Traffic
  <2>3. /\ RequestFile("sessions") \in ToMasterPacket
        /\ RequestFile("sessions").op = "start" /\ RequestFile("sessions").file = "sessions"
    BY ZenonT(30), PacketTypes DEF RequestFile, Files
  <2>4. AtMostOne(toMaster', "start") /\ Matching(toMaster', "start", "sessions")
    BY ZenonT(30), <1>1, <2>1, <2>2, <2>3, Added
  <2> QED
    BY ZenonT(30), <2>1, <2>2, <2>4, <1>AbsentFacts, <1>UpStep DEF Traffic
<1>17. CASE Connect
  <2> DEFINE r == [op |-> "register", version |-> IF state = "sync" THEN Version(mem) ELSE 0]
  <2>1. toShadow' = <<>>
    BY ZenonT(30), <1>1, <1>17 DEF Connect, Traffic
  <2>2. Absent(toShadow', "file") /\ r.op # "start" /\ Request("applyError").op # "start"
    BY ZenonT(30), <2>1, Cleared DEF Request
  <2>3. CASE /\ toMaster' = <<r>> \/ toMaster' = <<r, Request("applyError")>>
             /\ downloading' = "nothing"
    <3>1. Absent(toMaster', "start")
      BY SMTT(30), <2>2, <2>3 DEF Absent
    <3> QED
      BY ZenonT(30), <2>2, <2>3, <3>1, <1>AbsentFacts, <1>UpStep DEF Traffic
  <2>4. CASE toMaster' = <<r, RequestFile("metadata")>> /\ downloading' = "metadata"
    <3>1. AtMostOne(toMaster', "start") /\ Matching(toMaster', "start", "metadata")
      BY SMTT(30), <2>2, <2>4 DEF AtMostOne, Matching, RequestFile
    <3> QED
      BY ZenonT(30), <2>2, <2>4, <3>1, <1>AbsentFacts, <1>UpStep DEF Traffic
  <2> QED
    BY ZenonT(30), <1>17, <2>3, <2>4 DEF Connect
<1> QED
  BY ZenonT(30), <1>5, <1>6, <1>7, <1>8, <1>9, <1>10, <1>11, <1>12, <1>13, <1>14, <1>15, <1>16, <1>17 DEF Next

-----------------------------------------------------------------------------
(* The metadata in service *)

\* What is in service, being loaded or about to be loaded is an initial part of the history.
LEMMA ServiceStep ==
  ASSUME RInv, ~LostChanges, [Next]_vars
  PROVE  Service'
<1> USE DEF master, link, loader, shadow, ghosts
<1>1. /\ Service /\ log \in Seq(Nat) /\ mem \in Seq(Nat) \cup {None} /\ sdisk \in Disk
      /\ (loading \/ state = "sync") /\ ~overwritten => Part(mem, log')
      /\ (state = "downloading" /\ downloading \in {"changelog", "changelog1", "sessions"})
           => (~overwritten => Part(sdisk.meta, log'))
  BY ZenonT(30), StillOf DEF RInv, Types, Service
<1>2. CASE UNCHANGED <<mem, sdisk, state, downloading, loading, overwritten>>
  BY ZenonT(30), <1>1, <1>2 DEF Service
<1>3. CASE state' = "none" /\ loading' = FALSE
  BY ZenonT(30), <1>3 DEF Service
<1>4. CASE MasterChange \/ PeriodicDump \/ FinishDump \/ FailDump \/ PeriodPasses
  BY ZenonT(30), <1>2, <1>4 DEF MasterChange, PeriodicDump, FinishDump, FailDump, PeriodPasses
<1>5. CASE RegisterShadow \/ DownloadStart \/ ChangelogApplyErrorRequest
  BY ZenonT(30), <1>2, <1>5 DEF RegisterShadow, DownloadStart, ChangelogApplyErrorRequest, FromShadow
<1>6. CASE Connect
  <2>1. /\ UNCHANGED <<mem, sdisk, loading, overwritten>> /\ ~loading
        /\ \/ state' = "downloading" /\ downloading' = "metadata"
           \/ state' = state /\ downloading' = "nothing"
    BY ZenonT(30), <1>6 DEF Connect
  <2> QED
    BY ZenonT(30), <1>1, <2>1 DEF Service
<1>7. CASE OnRegistered \/ ChangelogApplyError
  <2>1. CASE ForceMetadataDownload /\ ~loading
    BY ZenonT(30), <2>1 DEF ForceMetadataDownload, Service
  <2>2. CASE state' = "limbo" /\ UNCHANGED <<mem, sdisk, downloading, loading, overwritten>> /\ ~loading
    BY ZenonT(30), <1>1, <2>2 DEF Service
  <2> QED
    BY ZenonT(30), <1>2, <1>7, <2>1, <2>2 DEF OnRegistered, ChangelogApplyError, FromMaster
<1>8. CASE MetachangesLog
  <2> DEFINE r == [id |-> Head(toShadow).id, change |-> Head(toShadow).change]
             x == Restore(mem, cursor, r)
  <2>1. /\ ~loading /\ toShadow # <<>> /\ Head(toShadow).op = "change" /\ log' = log
        /\ UNCHANGED <<downloading, loading, overwritten>>
    BY ZenonT(30), <1>8 DEF MetachangesLog, FromMaster, RequestMetadataDump
  <2>2. CASE state' = "dumpPending"
    BY ZenonT(30), <2>1, <2>2 DEF Service
  <2>3. sdisk'.meta = sdisk.meta
    BY ZenonT(30), <1>1, <1>8 DEF MetachangesLog, Disk
  <2>4. CASE state # "sync" /\ state' = state /\ mem' = mem
    BY ZenonT(30), <1>1, <2>1, <2>3, <2>4 DEF Service
  <2>5. CASE state = "sync" /\ state' = "sync" /\ mem' = x.mem /\ x.ok
    <3>1. /\ mem' \in Seq(Nat) /\ mem \in Seq(Nat)
          /\ mem' = mem \/ \E c \in Nat : mem' = Append(mem, c)
          /\ Part(mem, log) => Part(mem', log)
      BY ZenonT(60), <2>1, <2>5, ReceiveFacts DEF RInv, Service
    <3>2. Replica!Prefix(sdisk.meta, mem) /\ sdisk.meta \in Seq(Nat)
      BY ZenonT(30), <1>1, <2>5 DEF Service, Disk
    <3>3. Replica!Prefix(sdisk.meta, mem')
      <4>1. ASSUME NEW c \in Nat, mem' = Append(mem, c) PROVE Replica!Prefix(sdisk.meta, mem')
        <5>1. Len(mem') = Len(mem) + 1 /\ \A i \in 1..Len(mem) : mem'[i] = mem[i]
          BY SMTT(30), <3>1, <4>1
        <5> QED
          BY SMTT(30), <3>1, <3>2, <5>1 DEF Replica!Prefix
      <4> QED
        BY ZenonT(30), <3>1, <3>2, <4>1
    <3>4. (state = "sync" /\ ~overwritten => Part(mem, log)) /\ downloading \in {"nothing", "sessions"}
      BY ZenonT(30), <1>1, <2>5 DEF Service
    <3> QED
      BY ZenonT(60), <2>1, <2>3, <2>5, <3>1, <3>3, <3>4 DEF Service
  <2>6. \/ state' = "dumpPending"
        \/ state # "sync" /\ state' = state /\ mem' = mem
        \/ state = "sync" /\ state' = "sync" /\ mem' = x.mem /\ x.ok
    BY ZenonT(30), <1>8 DEF MetachangesLog, RequestMetadataDump
  <2> QED
    BY ZenonT(30), <2>2, <2>4, <2>5, <2>6
<1>9. CASE DownloadNext
  <2> DEFINE p == Head(toShadow)
  <2>1. /\ toShadow # <<>> /\ p.op = "file" /\ Honest(p, log) /\ ~loading
        /\ log' = log /\ state' = state
    BY ZenonT(30), <1>9, AtHand DEF DownloadNext, FromMaster
  <2>2. p.file = downloading
    BY ZenonT(30), <1>9, <2>1, Taken DEF RInv, Types, Traffic
  <2>3. CASE downloading = "metadata"
    <3>1. Part(p.data, log) /\ p.data \in Seq(Nat)
      BY ZenonT(30), <2>1, <2>2, <2>3 DEF Honest, Part
    <3>2. /\ sdisk' = [sdisk EXCEPT !.meta = p.data] /\ loading' = loading
          /\ downloading' = "changelog"
      BY ZenonT(30), <1>9, <2>3 DEF DownloadNext
    <3>3. sdisk'.meta = p.data
      BY ZenonT(30), <1>1, <3>2 DEF Disk
    <3>4. state # "sync"
      BY ZenonT(30), <1>1, <2>3 DEF Service
    <3> QED
      BY ZenonT(30), <2>1, <3>1, <3>2, <3>3, <3>4 DEF Service
  <2>4. CASE downloading \in {"changelog", "changelog1"}
    <3>1. /\ loading' = loading /\ downloading' \in {"changelog1", "sessions"}
          /\ overwritten' = overwritten
      BY ZenonT(30), <1>9, <2>4 DEF DownloadNext
    <3>2. sdisk'.meta = sdisk.meta
      BY ZenonT(30), <1>1, <1>9, <2>4 DEF DownloadNext, Disk
    <3>3. state # "sync"
      BY ZenonT(30), <1>1, <2>4 DEF Service
    <3> QED
      BY ZenonT(30), <1>1, <2>1, <2>4, <3>1, <3>2, <3>3 DEF Service
  <2>5. CASE downloading = "sessions" /\ state # "downloading"
    <3>1. UNCHANGED <<mem, sdisk, loading, overwritten>> /\ downloading' = "nothing"
      BY ZenonT(30), <1>9, <2>5 DEF DownloadNext
    <3> QED
      BY ZenonT(30), <1>1, <2>1, <2>5, <3>1 DEF Service
  <2>6. CASE downloading = "sessions" /\ state = "downloading"
    <3>1. UNCHANGED <<sdisk, overwritten>> /\ downloading' = "nothing" /\ mem' = sdisk.meta
      BY ZenonT(30), <1>9, <2>6 DEF DownloadNext
    <3>2. sdisk.meta \in Seq(Nat) /\ (~overwritten => Part(sdisk.meta, log'))
      BY ZenonT(30), <1>1, <2>6 DEF Disk
    <3> QED
      BY ZenonT(30), <2>1, <2>6, <3>1, <3>2 DEF Service
  <2> QED
    BY ZenonT(30), <1>9, <2>3, <2>4, <2>5, <2>6 DEF DownloadNext
<1>10. CASE OpenChangelog
  <2>1. UNCHANGED <<mem, sdisk, downloading, overwritten>>
    BY ZenonT(30), <1>10 DEF OpenChangelog
  <2>2. CASE UNCHANGED <<state, loading>>
    BY ZenonT(30), <1>2, <2>1, <2>2
  <2>3. CASE state' = "dumpPending" /\ loading' = FALSE
    BY ZenonT(30), <2>3 DEF Service
  <2> QED
    BY ZenonT(30), <1>10, <2>2, <2>3 DEF OpenChangelog, RequestMetadataDump
<1>11. CASE LoadLine
  <2> DEFINE x == ReplayLine([ok |-> TRUE, mem |-> mem, cursor |-> cursor], Head(lines))
  <2>1. /\ UNCHANGED <<sdisk, downloading, overwritten, log>> /\ loading /\ lines # <<>>
        /\ mem' = x.mem
    BY ZenonT(30), <1>11 DEF LoadLine
  <2>2. mem' \in Seq(Nat) /\ (x.ok /\ Part(mem, log) => Part(mem', log))
    BY ZenonT(30), <2>1, ReplayFacts
  <2>3. CASE state' = "dumpPending" /\ loading' = FALSE
    BY ZenonT(30), <2>3 DEF Service
  <2>4. CASE x.ok /\ UNCHANGED <<state, loading>>
    <3>1. /\ state = "downloading" /\ downloading = "nothing"
          /\ ~overwritten => Part(mem, log)
      BY ZenonT(30), <1>1, <2>1 DEF Service
    <3> QED
      BY ZenonT(30), <2>1, <2>2, <2>4, <3>1 DEF Service
  <2> QED
    BY ZenonT(30), <1>11, <2>3, <2>4 DEF LoadLine, RequestMetadataDump
<1>12. CASE FinishLoad
  <2>1. /\ loading /\ loading' = FALSE /\ sdisk' = Dumped(sdisk, mem) /\ state' = "sync"
        /\ UNCHANGED <<mem, downloading, overwritten, log>>
    BY ZenonT(30), <1>12 DEF FinishLoad
  <2>2. mem \in Seq(Nat) /\ downloading = "nothing" /\ (~overwritten => Part(mem, log))
    BY ZenonT(30), <1>1, <2>1 DEF Service
  <2>3. sdisk'.meta = mem
    BY ZenonT(30), <1>1, <2>1, <2>2 DEF Dumped, Rotate, Disk
  <2>4. Replica!Prefix(sdisk'.meta, mem')
    BY SMTT(30), <2>1, <2>2, <2>3 DEF Replica!Prefix
  <2> QED
    BY ZenonT(30), <2>1, <2>2, <2>4 DEF Service
<1>13. CASE RetryDumpRequest
  <2>1. state' = "dumpPending" /\ loading' = loading /\ ~loading
    BY ZenonT(30), <1>13 DEF RetryDumpRequest, RequestMetadataDump
  <2> QED
    BY ZenonT(30), <2>1 DEF Service
<1>14. CASE SessionsDownload
  <2>1. /\ state = "sync" /\ ~loading /\ downloading' = "sessions"
        /\ UNCHANGED <<mem, sdisk, state, loading, overwritten>>
    BY ZenonT(30), <1>14 DEF SessionsDownload
  <2> QED
    BY ZenonT(30), <1>1, <2>1 DEF Service
<1>15. CASE ShadowDump
  <2>1. /\ mem # None /\ ~loading /\ sdisk' = Dumped(sdisk, mem)
        /\ UNCHANGED <<mem, state, downloading, loading, log>>
        /\ ~overwritten' => ~overwritten /\ (state = "downloading" => downloading = "metadata")
    BY ZenonT(30), <1>15 DEF ShadowDump
  <2>2. mem \in Seq(Nat)
    BY ZenonT(30), <1>1, <2>1
  <2>3. sdisk'.meta = mem
    BY ZenonT(30), <1>1, <2>1, <2>2 DEF Dumped, Rotate, Disk
  <2>4. Replica!Prefix(sdisk'.meta, mem')
    BY SMTT(30), <2>1, <2>2, <2>3 DEF Replica!Prefix
  <2> QED
    BY ZenonT(30), <1>1, <2>1, <2>2, <2>4 DEF Service
<1>16. CASE Disconnect \/ MasterRestart \/ DownloadFails
  <2>1. UNCHANGED <<mem, sdisk, state, loading, overwritten>> /\ downloading' = "nothing"
    BY ZenonT(30), <1>16 DEF Disconnect, MasterRestart, DownloadFails
  <2> QED
    BY ZenonT(30), <1>1, <2>1 DEF Service
<1>17. CASE ShadowRestart \/ Promote
  BY ZenonT(30), <1>3, <1>17 DEF ShadowRestart, Promote, FreshShadow
<1>18. CASE UNCHANGED vars
  BY ZenonT(30), <1>2, <1>18 DEF vars
<1> QED
  BY ZenonT(30), <1>4, <1>5, <1>6, <1>7, <1>8, <1>9, <1>10, <1>11, <1>12, <1>13, <1>14, <1>15, <1>16,
     <1>17, <1>18 DEF Next

-----------------------------------------------------------------------------
(* The results *)

\* The empty servers satisfy the invariant.
LEMMA InitInv == Init => RInv
<1> SUFFICES ASSUME Init PROVE RInv
  BY ZenonT(30)
<1> USE DEF Init
<1>1. <<>> \in Seq(Nat) /\ <<>> \in Seq(Line) /\ Part(<<>>, <<>>) /\ FileOf(<<>>, <<>>)
  <2>1. <<>> \in Seq(Nat) /\ <<>> \in Seq(Line)
    BY SMTT(30)
  <2> QED
    BY <2>1, PartSelf, FileSteps, ZenonT(30)
<1>2. EmptyDisk \in Disk /\ EmptyDisk.meta = <<>> /\ DiskOf(EmptyDisk, <<>>)
  BY ZenonT(30), <1>1 DEF EmptyDisk, Disk, DiskOf
<1>3. Closed \in Entry /\ Closed.chain1 = <<>> /\ Closed.chain2 = <<>>
  <2>1. Closed.chain1 = <<>> /\ Closed.chain2 = <<>>
    BY ZenonT(30) DEF Closed
  <2> QED
    BY <1>1, <2>1, ZenonT(30) DEF Closed, Entry
<1>4. ~Closed.queued /\ ~Closed.registered
  BY ZenonT(30) DEF Closed
<1>5. Types
  <2>1. /\ <<>> \in Seq(Seq(Line)) /\ <<>> \in Seq(ToMasterPacket) /\ <<>> \in Seq(ToShadowPacket)
        /\ 0 \in Nat /\ NoCursor \in [current : Nat, next : Nat]
    BY SMTT(30) DEF NoCursor
  <2> QED
    BY ZenonT(30), <1>1, <1>2, <1>3, <2>1 DEF Types
<1>6. MasterFiles /\ ShadowFiles /\ Packets
  BY SMTT(30), <1>1, <1>2, <1>3 DEF MasterFiles, ShadowFiles, Packets
<1>7. Traffic
  BY ZenonT(30), <1>4, Cleared DEF Traffic
<1>8. Service
  BY ZenonT(30) DEF Service
<1> QED
  BY ZenonT(30), <1>5, <1>6, <1>7, <1>8 DEF RInv

\* Every step keeps the invariant.
LEMMA InvStep ==
  ASSUME RInv, ~LostChanges, [Next]_vars
  PROVE  RInv'
<1>1. Types'
  BY ZenonT(60), StillOf, ScalarTypes, MasterDiskStep, ShadowDiskStep, EntryStep, LoaderStep, ToMasterStep,
     ToShadowStep DEF Types
<1>2. MasterFiles'
  BY ZenonT(30), MasterDiskStep, DumpStep, EntryStep DEF MasterFiles
<1>3. ShadowFiles'
  BY ZenonT(30), ShadowDiskStep, LoaderStep DEF ShadowFiles
<1> QED
  BY ZenonT(30), <1>1, <1>2, <1>3, ToShadowStep, TrafficStep, ServiceStep DEF RInv

\* In every reachable state of master, shadow and their connection, all files, packets
\* and the replay hold the master's history (changelog.cc, matomlserv.cc, masterconn.cc).
THEOREM HistoryEverywhere ==
  ASSUME ~LostChanges
  PROVE  Spec => []RInv
<1>1. RInv /\ [Next]_vars => RInv'
  BY ZenonT(30), InvStep
<1> QED
  BY <1>1, InitInv, PTL DEF Spec

\* The master and the shadow implement the replicated log: a shadow that is synchronized
\* (masterconn.cc, kSynchronized) holds an initial part of the master's history and moves
\* along it one change at a time.
THEOREM Refinement ==
  ASSUME ~LostChanges
  PROVE  Spec => Implements
\* A step of the two servers is a step of the replicated log or leaves it alone.
<1>LogStep.
  ASSUME RInv, ~LostChanges, [Next]_vars
  PROVE  [Replica!Next]_(Replica!vars)
  <2> USE <1>LogStep
  <2> USE DEF master, link, loader, shadow, ghosts
  <2> DEFINE rep == IF state = "sync" /\ ~overwritten THEN mem ELSE None
  <2>1. /\ Service /\ log \in Seq(Nat) /\ None \notin Seq(Nat)
    BY ZenonT(30), ReplicationAssumption DEF RInv, Types
  <2>2. rep # None => state = "sync" /\ ~overwritten /\ rep = mem /\ mem \in Seq(Nat)
    BY ZenonT(30), <2>1 DEF Service
  <2>3. CASE log' = log /\ rep' = rep
    BY ZenonT(30), <2>3 DEF Replica!vars
  <2>4. CASE log' = log /\ rep' = None
    BY ZenonT(30), <2>4 DEF Replica!vars, Replica!Next, Replica!Leave
  <2>5. CASE log' = log /\ state' # "sync"
    BY ZenonT(30), <2>4, <2>5
  <2>6. CASE UNCHANGED <<log, mem, state, overwritten>>
    BY ZenonT(30), <2>3, <2>6
  <2>7. CASE MasterChange
    <3> DEFINE c == term * MaxVersion + Version(log)
    <3>1. rep' = rep /\ log' = Append(log, c) /\ c \in Nat
      BY ZenonT(30), <2>7, NewChange DEF MasterChange
    <3> HIDE DEF c
    <3>2. log' \in Seq(Nat) /\ Len(log') = Len(log) + 1 /\ \A i \in 1..Len(log) : log'[i] = log[i]
      BY SMTT(30), <2>1, <3>1
    <3>3. Len(log) <= Len(log')
      BY SMTT(30), <2>1, <3>2
    <3> HIDE DEF rep
    <3> QED
      BY ZenonT(30), <3>1, <3>2, <3>3 DEF rep, Replica!Next, Replica!Change, Replica!Prefix
  <2>8. CASE MetachangesLog
    <3> DEFINE x == Restore(mem, cursor, [id |-> Head(toShadow).id, change |-> Head(toShadow).change])
    <3>1. /\ log' = log /\ toShadow # <<>> /\ Head(toShadow).op = "change"
          /\ overwritten' = overwritten
          /\ \/ state' # "sync"
             \/ state = "sync" /\ state' = "sync" /\ mem' = x.mem /\ x.ok
      BY ZenonT(30), <2>8 DEF MetachangesLog, FromMaster, RequestMetadataDump
    <3>2. CASE state = "sync" /\ state' = "sync" /\ mem' = x.mem /\ x.ok
      <4>1. mem' = mem \/ (Len(mem) < Len(log) /\ mem' = Append(mem, log[Len(mem) + 1]))
        BY ZenonT(60), <3>1, <3>2, ReceiveFacts
      <4>2. CASE mem' = mem
        BY ZenonT(60), <2>6, <3>1, <3>2, <4>2
      <4>3. CASE overwritten
        BY ZenonT(60), <2>4, <3>1, <4>3
      <4>4. CASE /\ ~overwritten /\ Len(mem) < Len(log)
                 /\ mem' = Append(mem, log[Len(mem) + 1])
        <5>1. rep = mem /\ rep' = mem' /\ mem # None
          BY ZenonT(30), <2>1, <3>1, <3>2, <4>4 DEF Service
        <5> QED
          BY ZenonT(60), <3>1, <4>4, <5>1 DEF Replica!Next, Replica!Apply
      <4> QED
        BY ZenonT(30), <4>1, <4>2, <4>3, <4>4
    <3> QED
      BY ZenonT(30), <2>5, <3>1, <3>2
  <2>9. CASE DownloadNext
    <3>1. log' = log /\ state' = state /\ (state = "sync" => downloading \in {"nothing", "sessions"})
      BY ZenonT(30), <2>1, <2>9 DEF DownloadNext, FromMaster, Service
    <3>2. state = "sync" => mem' = mem /\ overwritten' = overwritten
      BY ZenonT(30), <2>9, <3>1 DEF DownloadNext
    <3> QED
      BY ZenonT(30), <2>5, <2>6, <3>1, <3>2
  <2>10. CASE FinishLoad
    <3>1. loading /\ state' = "sync" /\ UNCHANGED <<log, mem, overwritten>>
      BY ZenonT(30), <2>10 DEF FinishLoad
    <3>2. state # "sync" /\ (~overwritten => Part(mem, log))
      BY ZenonT(30), <2>1, <3>1 DEF Service
    <3>3. CASE overwritten
      BY ZenonT(30), <2>4, <3>1, <3>3
    <3>4. CASE ~overwritten
      <4>1. rep = None /\ rep' = mem' /\ mem' = mem /\ Part(mem, log)
        BY ZenonT(30), <3>1, <3>2, <3>4
      <4> QED
        BY ZenonT(30), <3>1, <4>1 DEF Part, Replica!Next, Replica!Join
    <3> QED
      BY ZenonT(30), <3>3, <3>4
  <2>11. CASE ShadowDump
    <3>1. /\ UNCHANGED <<log, mem, state>>
          /\ state = "sync" => (overwritten' <=> overwritten)
      BY ZenonT(30), <2>11 DEF ShadowDump
    <3> QED
      BY ZenonT(30), <2>3, <3>1
  <2>12. CASE OpenChangelog \/ LoadLine
    <3>1. loading /\ log' = log /\ state' \in {state, "dumpPending"}
      BY ZenonT(30), <2>12 DEF OpenChangelog, LoadLine, RequestMetadataDump
    <3> QED
      BY ZenonT(30), <2>1, <2>5, <3>1 DEF Service
  <2>13. CASE OnRegistered \/ ChangelogApplyError \/ RetryDumpRequest \/ Connect
    <3>1. log' = log /\ (state' # "sync" \/ UNCHANGED <<mem, state, overwritten>>)
      BY ZenonT(60), <2>13 DEF OnRegistered, ChangelogApplyError, RetryDumpRequest, Connect, FromMaster,
                   ForceMetadataDownload, RequestMetadataDump
    <3> QED
      BY ZenonT(30), <2>5, <2>6, <3>1
  <2>14. CASE ShadowRestart \/ Promote
    BY ZenonT(30), <2>5, <2>14 DEF ShadowRestart, Promote, FreshShadow
  <2>15. CASE PeriodicDump \/ FinishDump \/ FailDump \/ PeriodPasses
    BY ZenonT(30), <2>6, <2>15 DEF PeriodicDump, FinishDump, FailDump, PeriodPasses
  <2>16. CASE RegisterShadow \/ DownloadStart \/ ChangelogApplyErrorRequest
    BY ZenonT(30), <2>6, <2>16 DEF RegisterShadow, DownloadStart, ChangelogApplyErrorRequest, FromShadow
  <2>17. CASE SessionsDownload \/ Disconnect \/ MasterRestart \/ DownloadFails \/ UNCHANGED vars
    BY ZenonT(30), <2>6, <2>17 DEF SessionsDownload, Disconnect, MasterRestart, DownloadFails, vars
  <2> QED
    BY ZenonT(30), <2>7, <2>8, <2>9, <2>10, <2>11, <2>12, <2>13, <2>14, <2>15, <2>16, <2>17 DEF Next
<1>1. Init => Replica!Init
  BY ZenonT(30) DEF Init, Replica!Init
<1>2. RInv /\ [Next]_vars => [Replica!Next]_(Replica!vars)
  BY ZenonT(30), <1>LogStep
<1> QED
  BY <1>1, <1>2, HistoryEverywhere, PTL DEF Spec, Implements, Replica!Spec

-----------------------------------------------------------------------------
(* Types, and a shadow that is not synchronized is moved on *)

\* The types that RInv leaves out.
FlagTypes ==
  /\ recent \in BOOLEAN /\ up \in BOOLEAN /\ loading \in BOOLEAN
  /\ state \in {"none", "downloading", "sync", "dumpPending", "limbo"}
  /\ downloading \in {"nothing", "metadata", "changelog", "changelog1", "sessions"}
  /\ lastLogVersion \in Nat /\ spent \in Nat /\ failures \in Nat
  /\ cut \in BOOLEAN /\ torn \in BOOLEAN /\ overwritten \in BOOLEAN

\* A request for a dump or its answer is under way, or the shadow waits in the queue.
Asked == ~Absent(toMaster, "applyError") \/ eptr.queued \/ ~Absent(toShadow, "applyError")

\* A request for a file or the file is under way.
Fetching == ~Absent(toMaster, "start") \/ ~Absent(toShadow, "file")

\* A dump that is waited for is in progress; a shadow that asked for a dump will hear of it;
\* a download goes on, or the next connection starts it.
Moving ==
  /\ eptr.queued => dump # None
  /\ up => state # "none"
  /\ state = "none" => lastLogVersion = 0
  /\ up /\ state = "dumpPending" => Asked
  /\ state = "downloading" /\ ~loading /\ ~cut => IF up THEN Fetching ELSE lastLogVersion = 0

\* Every step keeps these types.
LEMMA FlagTypesStep ==
  ASSUME RInv, FlagTypes, [Next]_vars
  PROVE  FlagTypes'
<1> USE DEF master, link, loader, shadow, ghosts
<1>1. CASE UNCHANGED <<recent, up, loading, state, downloading, lastLogVersion, spent, failures,
                       cut, torn, overwritten>>
  BY SMTT(30), <1>1 DEF FlagTypes
<1>2. CASE MasterChange \/ UNCHANGED vars
  BY ZenonT(30), <1>1, <1>2 DEF MasterChange, vars
<1>3. CASE PeriodicDump \/ FinishDump \/ FailDump \/ PeriodPasses
  <2>1. /\ UNCHANGED <<up, loading, state, downloading, lastLogVersion, cut, torn, overwritten>>
        /\ recent' \in {recent, FALSE} /\ spent' \in {spent, spent + 1}
        /\ failures' \in {failures, 0, failures + 1}
    BY ZenonT(30), <1>3 DEF PeriodicDump, FinishDump, FailDump, PeriodPasses, Spend
  <2>2. lastLogVersion' \in Nat /\ spent' \in Nat /\ failures' \in Nat
    BY <2>1 DEF FlagTypes
  <2> QED
    BY ZenonT(30), <2>1, <2>2 DEF FlagTypes
<1>4. CASE RegisterShadow
  BY ZenonT(30), <1>1, <1>4 DEF RegisterShadow, FromShadow
<1>5. CASE DownloadStart
  <2>1. /\ UNCHANGED <<recent, up, loading, state, downloading, lastLogVersion, spent, failures,
                       cut, overwritten>>
        /\ torn' \in {torn, Rotations > 1}
    BY ZenonT(30), <1>5 DEF DownloadStart, FromShadow
  <2>2. (Rotations > 1) \in BOOLEAN
    OBVIOUS
  <2> QED
    BY ZenonT(90), <2>1, <2>2 DEF FlagTypes
<1>6. CASE ChangelogApplyErrorRequest
  <2>1. /\ UNCHANGED <<up, loading, state, downloading, lastLogVersion, spent, failures,
                       cut, torn, overwritten>>
        /\ recent' \in {recent, TRUE}
    BY ZenonT(30), <1>6 DEF ChangelogApplyErrorRequest, FromShadow
  <2> QED
    BY ZenonT(60), <2>1 DEF FlagTypes
<1>7. CASE Connect
  BY ZenonT(30), <1>7 DEF Connect, FlagTypes
<1>8. CASE OnRegistered \/ ChangelogApplyError
  <2>1. CASE /\ UNCHANGED <<recent, loading, spent, failures>> /\ state' = "none"
             /\ downloading' = "nothing" /\ lastLogVersion' = 0 /\ NoGhosts /\ Close
    BY ZenonT(30), <2>1 DEF NoGhosts, Close, FlagTypes
  <2>2. CASE /\ UNCHANGED <<recent, up, loading, downloading, lastLogVersion, spent, failures,
                            cut, torn, overwritten>>
             /\ state' \in {state, "limbo"}
    BY <2>2 DEF FlagTypes
  <2> QED
    BY ZenonT(30), <1>8, <2>1, <2>2 DEF OnRegistered, ChangelogApplyError, FromMaster, ForceMetadataDownload
<1>9. CASE MetachangesLog
  <2>1. /\ UNCHANGED <<recent, up, loading, downloading, spent, failures, cut, torn, overwritten>>
        /\ state' \in {state, "dumpPending"}
        /\ lastLogVersion' \in {lastLogVersion, Head(toShadow).id}
        /\ toShadow # <<>> /\ Head(toShadow).op = "change"
    BY ZenonT(30), <1>9 DEF MetachangesLog, FromMaster, RequestMetadataDump
  <2>2. Head(toShadow).id \in Nat
    BY ZenonT(30), <2>1, AtHand, PacketFields
  <2> QED
    BY <2>1, <2>2 DEF FlagTypes
<1>10. CASE DownloadNext
  <2>1. /\ UNCHANGED <<recent, up, state, lastLogVersion, spent, failures, cut, torn>>
        /\ downloading' \in {"nothing", "changelog", "changelog1", "sessions"}
        /\ loading' \in {loading, TRUE} /\ overwritten' \in {overwritten, FALSE}
    BY ZenonT(30), <1>10 DEF DownloadNext, FromMaster
  <2> QED
    BY <2>1 DEF FlagTypes
<1>11. CASE OpenChangelog \/ LoadLine
  <2>1. /\ UNCHANGED <<recent, up, downloading, lastLogVersion, spent, failures, cut, torn, overwritten>>
        /\ state' \in {state, "dumpPending"} /\ loading' \in {loading, FALSE}
    BY ZenonT(30), <1>11 DEF OpenChangelog, LoadLine, RequestMetadataDump
  <2> QED
    BY ZenonT(60), <2>1 DEF FlagTypes
<1>12. CASE FinishLoad
  <2>1. Len(mem) \in Nat
    BY <1>12 DEF FinishLoad, RInv, Service
  <2> QED
    BY ZenonT(30), <1>12, <2>1 DEF FinishLoad, FlagTypes
<1>13. CASE RetryDumpRequest \/ SessionsDownload
  BY ZenonT(30), <1>13 DEF RetryDumpRequest, SessionsDownload, RequestMetadataDump, FlagTypes
<1>14. CASE ShadowDump \/ Disconnect \/ DownloadFails
  <2>1. /\ UNCHANGED <<recent, loading, state, lastLogVersion, failures, torn>>
        /\ up' \in {up, FALSE} /\ downloading' \in {downloading, "nothing"}
        /\ spent' \in {spent + 1, spent + 3}
        /\ cut' \in {cut, cut \/ CutOff, cut \/ state = "downloading"}
        /\ overwritten' \in {overwritten, overwritten \/ (state = "downloading" /\ downloading # "metadata")}
    BY ZenonT(30), <1>14 DEF ShadowDump, Disconnect, DownloadFails, Spend, Close
  <2>2. lastLogVersion' \in Nat /\ spent' \in Nat /\ failures' \in Nat
    BY <2>1 DEF FlagTypes
  <2> QED
    BY ZenonT(90), <2>1, <2>2 DEF FlagTypes
<1>15. CASE ShadowRestart \/ MasterRestart \/ Promote
  <2>1. /\ up' = FALSE /\ downloading' = "nothing" /\ spent' = spent + 3
        /\ recent' \in {recent, FALSE} /\ loading' \in {loading, FALSE} /\ state' \in {state, "none"}
        /\ lastLogVersion' \in {lastLogVersion, 0} /\ failures' \in {failures, 0}
        /\ cut' \in {FALSE, cut \/ CutOff} /\ torn' \in {torn, FALSE}
        /\ overwritten' \in {overwritten, FALSE}
    BY ZenonT(30), <1>15 DEF ShadowRestart, MasterRestart, Promote, FreshShadow, NoGhosts, Spend, Close
  <2>2. lastLogVersion' \in Nat /\ spent' \in Nat /\ failures' \in Nat
    BY <2>1 DEF FlagTypes
  <2> QED
    BY ZenonT(30), <2>1, <2>2 DEF FlagTypes
<1> QED
  BY ZenonT(30), <1>2, <1>3, <1>4, <1>5, <1>6, <1>7, <1>8, <1>9, <1>10, <1>11, <1>12, <1>13, <1>14, <1>15
     DEF Next

\* A packet stays in a queue until it is received.
LEMMA StillThere ==
  ASSUME NEW S, NEW s \in Seq(S), NEW op
  PROVE  /\ ~Absent(s, op) => s # <<>>
         /\ s # <<>> /\ ~Absent(s, op) /\ Head(s).op # op => ~Absent(Tail(s), op)
         /\ \A p : ~Absent(s, op) \/ p.op = op => ~Absent(Append(s, p), op)
         /\ \A t \in Seq(S) : ~Absent(s, op) => ~Absent(s \o t, op)
<1>1. ~Absent(s, op) => s # <<>>
  BY ZenonT(30), Cleared
<1>2. ASSUME s # <<>>, ~Absent(s, op), Head(s).op # op PROVE ~Absent(Tail(s), op)
  <2>1. PICK i \in 1..Len(s) : s[i].op = op
    BY ZenonT(30), <1>2 DEF Absent
  <2>2. i # 1 /\ i - 1 \in 1..Len(Tail(s)) /\ Tail(s)[i - 1] = s[i]
    BY SMTT(30), <1>2, <2>1
  <2> QED
    BY ZenonT(30), <2>1, <2>2 DEF Absent
<1>3. ASSUME NEW p, ~Absent(s, op) \/ p.op = op PROVE ~Absent(Append(s, p), op)
  <2>1. CASE p.op = op
    <3>1. Len(s) + 1 \in 1..Len(Append(s, p)) /\ Append(s, p)[Len(s) + 1] = p
      BY SMTT(30)
    <3> QED
      BY ZenonT(30), <2>1, <3>1 DEF Absent
  <2>2. CASE ~Absent(s, op)
    <3>1. PICK i \in 1..Len(s) : s[i].op = op
      BY ZenonT(30), <2>2 DEF Absent
    <3>2. i \in 1..Len(Append(s, p)) /\ Append(s, p)[i] = s[i]
      BY SMTT(30), <3>1
    <3> QED
      BY ZenonT(30), <3>1, <3>2 DEF Absent
  <2> QED
    BY ZenonT(30), <1>3, <2>1, <2>2
<1>4. ASSUME NEW t \in Seq(S), ~Absent(s, op) PROVE ~Absent(s \o t, op)
  <2>1. PICK i \in 1..Len(s) : s[i].op = op
    BY ZenonT(30), <1>4 DEF Absent
  <2>2. i \in 1..Len(s \o t) /\ (s \o t)[i] = s[i]
    BY <2>1
  <2> QED
    BY ZenonT(30), <2>1, <2>2 DEF Absent
<1> QED
  BY ZenonT(30), <1>1, <1>2, <1>3, <1>4

\* What the master's own steps send leaves the packets under way where they are.
LEMMA Undisturbed ==
  ASSUME RInv, MasterChange \/ PeriodicDump \/ FinishDump \/ FailDump \/ PeriodPasses
  PROVE  /\ toMaster' = toMaster
         /\ \A op : ~Absent(toShadow, op) => ~Absent(toShadow', op)
         /\ UNCHANGED <<up, state, loading, cut, lastLogVersion>>
<1> USE DEF master, link, loader, shadow, ghosts
<1>1. toShadow \in Seq(ToShadowPacket)
  BY ZenonT(30) DEF RInv, Types
<1>2. \/ toShadow' = toShadow
      \/ \E p : toShadow' = Append(toShadow, p)
  BY ZenonT(30) DEF MasterChange, PeriodicDump, FinishDump, FailDump, PeriodPasses, AnswerQueue, ToShadow
<1>3. \A op : ~Absent(toShadow, op) => ~Absent(toShadow', op)
  BY ZenonT(30), <1>1, <1>2, StillThere
<1> QED
  BY ZenonT(30), <1>3 DEF MasterChange, PeriodicDump, FinishDump, FailDump, PeriodPasses

\* A shadow that waits for a dump waits for one in progress.
LEMMA QueuedStep ==
  ASSUME RInv, Moving, [Next]_vars
  PROVE  eptr'.queued => dump' # None
<1> USE DEF master, link, loader, shadow, ghosts
<1>1. eptr \in Entry /\ log # None /\ (eptr.queued => dump # None)
  BY ZenonT(30), ReplicationAssumption DEF RInv, Types, Moving
<1>2. CASE eptr' = eptr /\ dump' = dump
  BY ZenonT(30), <1>1, <1>2
<1>3. CASE eptr' = Closed
  BY ZenonT(30), <1>3 DEF Closed
<1>4. CASE dump' = log
  BY ZenonT(30), <1>1, <1>4
<1>5. CASE MasterChange
  <2>1. dump' = dump /\ (eptr' = eptr \/ \E f : eptr' = [eptr EXCEPT !.chain1 = f])
    BY ZenonT(30), <1>5 DEF MasterChange
  <2> QED
    BY ZenonT(30), <1>1, <2>1 DEF Entry
<1>6. CASE FinishDump \/ FailDump
  <2>1. eptr' = [eptr EXCEPT !.queued = FALSE]
    BY ZenonT(30), <1>6 DEF FinishDump, FailDump, AnswerQueue
  <2> QED
    BY ZenonT(30), <1>1, <2>1 DEF Entry
<1>7. CASE RegisterShadow
  <2>1. dump' = dump /\ eptr' = [eptr EXCEPT !.registered = TRUE]
    BY ZenonT(30), <1>7 DEF RegisterShadow
  <2> QED
    BY ZenonT(30), <1>1, <2>1 DEF Entry
<1>8. CASE DownloadStart
  <2>1. /\ dump' = dump
        /\ \/ \E f, g, b : eptr' = [eptr EXCEPT !.chain1 = f, !.chain2 = g, !.live = b]
           \/ \E f, b : eptr' = [eptr EXCEPT !.chain1 = f, !.live = b]
           \/ \E g : eptr' = [eptr EXCEPT !.chain2 = g]
    BY ZenonT(30), <1>8 DEF DownloadStart
  <2> QED
    BY ZenonT(30), <1>1, <2>1 DEF Entry
<1>9. CASE ChangelogApplyErrorRequest
  <2>1. \/ dump' = log
        \/ dump # None /\ dump' = dump
        \/ eptr' = eptr /\ dump' = dump
    BY ZenonT(30), <1>9 DEF ChangelogApplyErrorRequest, StartDump
  <2> QED
    BY ZenonT(30), <1>1, <1>2, <1>4, <2>1
<1>10. CASE PeriodicDump
  BY ZenonT(30), <1>4, <1>10 DEF PeriodicDump, StartDump
<1>11. CASE PeriodPasses \/ Connect \/ FinishLoad \/ ShadowDump \/ SessionsDownload \/ DownloadFails
            \/ UNCHANGED vars
  BY ZenonT(30), <1>2, <1>11 DEF PeriodPasses, Connect, FinishLoad, ShadowDump, SessionsDownload,
                                 DownloadFails, vars
<1>12. CASE OnRegistered \/ ChangelogApplyError
  BY ZenonT(30), <1>2, <1>3, <1>12 DEF OnRegistered, ChangelogApplyError, FromMaster,
                                       ForceMetadataDownload, Close
<1>13. CASE MetachangesLog \/ DownloadNext
  BY ZenonT(30), <1>2, <1>13 DEF MetachangesLog, DownloadNext, FromMaster, RequestMetadataDump
<1>14. CASE OpenChangelog \/ LoadLine \/ RetryDumpRequest
  BY ZenonT(30), <1>2, <1>14 DEF OpenChangelog, LoadLine, RetryDumpRequest, RequestMetadataDump
<1>15. CASE Disconnect \/ ShadowRestart \/ MasterRestart \/ Promote
  BY ZenonT(30), <1>3, <1>15 DEF Disconnect, ShadowRestart, MasterRestart, Promote, FreshShadow, Close
<1> QED
  BY ZenonT(30), <1>5, <1>6, <1>7, <1>8, <1>9, <1>10, <1>11, <1>12, <1>13, <1>14, <1>15 DEF Next

\* A connected shadow has begun something, and one that has not begun starts with a download.
LEMMA BegunStep ==
  ASSUME RInv, Moving, [Next]_vars
  PROVE  (up' => state' # "none") /\ (state' = "none" => lastLogVersion' = 0)
<1> USE DEF master, link, loader, shadow, ghosts
<1>1. /\ up => state # "none"
      /\ state = "none" => lastLogVersion = 0
      /\ ~up => toMaster = <<>> /\ toShadow = <<>>
      /\ loading => state = "downloading"
  BY ZenonT(30) DEF RInv, Moving, Traffic, Service
<1>2. CASE UNCHANGED <<up, state, lastLogVersion>>
  BY ZenonT(30), <1>1, <1>2
<1>3. CASE up' = FALSE /\ state' = "none" /\ lastLogVersion' = 0
  BY ZenonT(30), <1>3
<1>4. CASE state' # "none"
  BY ZenonT(30), <1>4
<1>5. CASE MasterChange \/ PeriodicDump \/ FinishDump \/ FailDump \/ PeriodPasses
  BY ZenonT(30), <1>2, <1>5, Undisturbed
<1>6. CASE RegisterShadow \/ DownloadStart \/ ChangelogApplyErrorRequest
  BY ZenonT(30), <1>2, <1>6 DEF RegisterShadow, DownloadStart, ChangelogApplyErrorRequest, FromShadow
<1>7. CASE Connect
  BY ZenonT(30), <1>1, <1>4, <1>7 DEF Connect
<1>8. CASE OnRegistered \/ ChangelogApplyError
  BY ZenonT(30), <1>2, <1>3, <1>4, <1>8 DEF OnRegistered, ChangelogApplyError, FromMaster,
                                       ForceMetadataDownload, Close
<1>9. CASE MetachangesLog
  <2>1. state' \in {state, "dumpPending"} /\ toShadow # <<>>
    BY ZenonT(30), <1>9 DEF MetachangesLog, FromMaster, RequestMetadataDump
  <2> QED
    BY ZenonT(30), <1>1, <1>4, <2>1
<1>10. CASE OpenChangelog \/ LoadLine
  <2>1. state' \in {state, "dumpPending"} /\ loading
    BY ZenonT(30), <1>10 DEF OpenChangelog, LoadLine, RequestMetadataDump
  <2> QED
    BY ZenonT(30), <1>1, <1>4, <2>1
<1>11. CASE FinishLoad \/ RetryDumpRequest
  BY ZenonT(30), <1>4, <1>11 DEF FinishLoad, RetryDumpRequest, RequestMetadataDump
<1>12. CASE DownloadNext \/ SessionsDownload \/ ShadowDump \/ DownloadFails \/ UNCHANGED vars
  BY ZenonT(30), <1>2, <1>12 DEF DownloadNext, SessionsDownload, ShadowDump, DownloadFails, vars
<1>13. CASE Disconnect \/ MasterRestart
  <2>1. up' = FALSE /\ UNCHANGED <<state, lastLogVersion>>
    BY ZenonT(30), <1>13 DEF Disconnect, MasterRestart, Close
  <2> QED
    BY ZenonT(30), <1>1, <2>1
<1>14. CASE ShadowRestart \/ Promote
  BY ZenonT(30), <1>3, <1>14 DEF ShadowRestart, Promote, FreshShadow, Close
<1> QED
  BY ZenonT(30), <1>5, <1>6, <1>7, <1>8, <1>9, <1>10, <1>11, <1>12, <1>13, <1>14 DEF Next

\* Packets of a kind that a step does not receive stay under way.
LEMMA Remaining ==
  ASSUME RInv, NEW op,
         \/ toMaster' = toMaster \/ \E p : toMaster' = Append(toMaster, p)
         \/ toMaster # <<>> /\ Head(toMaster).op # op /\ toMaster' = Tail(toMaster),
         \/ toShadow' = toShadow \/ \E p : toShadow' = Append(toShadow, p)
         \/ toShadow # <<>> /\ Head(toShadow).op # op /\ toShadow' = Tail(toShadow)
  PROVE  /\ ~Absent(toMaster, op) => ~Absent(toMaster', op)
         /\ ~Absent(toShadow, op) => ~Absent(toShadow', op)
<1>1. toMaster \in Seq(ToMasterPacket) /\ toShadow \in Seq(ToShadowPacket)
  BY ZenonT(30) DEF RInv, Types
<1>2. ~Absent(toMaster, op) => ~Absent(toMaster', op)
  BY ZenonT(30), <1>1, StillThere
<1>3. ~Absent(toShadow, op) => ~Absent(toShadow', op)
  BY ZenonT(30), <1>1, StillThere
<1> QED
  BY ZenonT(30), <1>2, <1>3

\* A registration keeps all other packets.
LEMMA RegisterKeeps ==
  ASSUME RInv, RegisterShadow, NEW op, op # "register"
  PROVE  /\ ~Absent(toMaster, op) => ~Absent(toMaster', op)
         /\ ~Absent(toShadow, op) => ~Absent(toShadow', op)
<1>1. toMaster \in Seq(ToMasterPacket) /\ toShadow \in Seq(ToShadowPacket)
  BY ZenonT(30) DEF RInv, Types
<1> DEFINE v == Head(toMaster).version
           reply == IF Version(log) > v /\ oldest # 0 /\ oldest <= v THEN v ELSE Version(log)
           p == [op |-> "registered", version |-> reply]
<1>2. /\ toMaster # <<>> /\ Head(toMaster).op = "register" /\ toMaster' = Tail(toMaster)
      /\ toShadow' = Append(toShadow, p) \o OldChanges(reply)
  BY ZenonT(30) DEF RegisterShadow, FromShadow
<1>3. v \in Nat /\ Version(log) \in Nat
  BY ZenonT(30), <1>2, AtHand, PacketFields, NewChange
<1>4. reply \in Nat
  BY ZenonT(30), <1>3
<1> HIDE DEF reply
<1>5. p \in ToShadowPacket /\ OldChanges(reply) \in Seq(ToShadowPacket)
  BY ZenonT(30), <1>4, PacketTypes, OldChangesFacts
<1> HIDE DEF p
<1>6. Append(toShadow, p) \in Seq(ToShadowPacket)
  BY <1>1, <1>5
<1>7. ~Absent(toMaster, op) => ~Absent(toMaster', op)
  BY ZenonT(30), <1>1, <1>2, StillThere
<1>8. ~Absent(toShadow, op) => ~Absent(toShadow', op)
  BY ZenonT(30), <1>1, <1>2, <1>5, <1>6, StillThere
<1> QED
  BY ZenonT(30), <1>7, <1>8

\* A shadow that asked for a dump will hear of it.
LEMMA AskedStep ==
  ASSUME RInv, Moving, [Next]_vars
  PROVE  up' /\ state' = "dumpPending" => Asked'
<1> USE DEF master, link, loader, shadow, ghosts
<1>1. /\ up /\ state = "dumpPending" => Asked
      /\ ~up => toMaster = <<>> /\ toShadow = <<>>
      /\ loading => state = "downloading"
      /\ eptr \in Entry /\ toMaster \in Seq(ToMasterPacket) /\ toShadow \in Seq(ToShadowPacket)
  BY ZenonT(30) DEF RInv, Moving, Traffic, Service, Types
<1>2. CASE /\ up' = up /\ state' = state /\ (eptr.queued => eptr'.queued)
           /\ ~Absent(toMaster, "applyError") => ~Absent(toMaster', "applyError")
           /\ ~Absent(toShadow, "applyError") => ~Absent(toShadow', "applyError")
  BY ZenonT(30), <1>1, <1>2 DEF Asked
<1>3. CASE ~up'
  BY ZenonT(30), <1>3
<1>4. CASE state' # "dumpPending"
  BY ZenonT(30), <1>4
<1>5. CASE toMaster' = Append(toMaster, Request("applyError"))
  <2>1. Request("applyError").op = "applyError"
    BY ZenonT(30) DEF Request
  <2> QED
    BY ZenonT(30), <1>1, <1>5, <2>1, StillThere DEF Asked
<1>6. CASE MasterChange \/ PeriodicDump \/ PeriodPasses
  <2>1. \/ eptr' = eptr \/ \E f : eptr' = [eptr EXCEPT !.chain1 = f]
        \/ eptr' = [eptr EXCEPT !.live = FALSE]
    BY ZenonT(30), <1>6 DEF MasterChange, PeriodicDump, PeriodPasses, StartDump
  <2>2. eptr.queued => eptr'.queued
    BY ZenonT(30), <1>1, <2>1 DEF Entry
  <2> QED
    BY ZenonT(30), <1>2, <1>6, <2>2, Undisturbed
<1>7. CASE FinishDump \/ FailDump
  <2>1. /\ toMaster' = toMaster /\ up' = up /\ state' = state
        /\ ~Absent(toShadow, "applyError") => ~Absent(toShadow', "applyError")
    BY ZenonT(30), <1>7, Undisturbed
  <2>2. eptr.queued => ~Absent(toShadow', "applyError")
    <3>1. ASSUME eptr.queued
          PROVE  \E v : toShadow' = Append(toShadow, [op |-> "applyError", status |-> v])
      BY ZenonT(30), <1>7, <3>1 DEF FinishDump, FailDump, AnswerQueue, ToShadow
    <3>2. \A v : [op |-> "applyError", status |-> v].op = "applyError"
      BY ZenonT(30)
    <3> QED
      BY ZenonT(30), <1>1, <3>1, <3>2, StillThere
  <2> QED
    BY ZenonT(30), <1>1, <2>1, <2>2 DEF Asked
<1>8. CASE RegisterShadow
  <2>1. up' = up /\ state' = state /\ eptr' = [eptr EXCEPT !.registered = TRUE]
    BY ZenonT(30), <1>8 DEF RegisterShadow, FromShadow
  <2>2. eptr.queued => eptr'.queued
    BY ZenonT(30), <1>1, <2>1 DEF Entry
  <2> QED
    BY ZenonT(30), <1>2, <1>8, <2>1, <2>2, RegisterKeeps
<1>9. CASE DownloadStart
  <2>1. /\ up' = up /\ state' = state
        /\ toMaster # <<>> /\ Head(toMaster).op = "start" /\ toMaster' = Tail(toMaster)
        /\ \E p : toShadow' = Append(toShadow, p)
    BY ZenonT(30), <1>9 DEF DownloadStart, FromShadow, ToShadow
  <2>2. eptr.queued => eptr'.queued
    <3>1. \/ \E f, g, b : eptr' = [eptr EXCEPT !.chain1 = f, !.chain2 = g, !.live = b]
          \/ \E f, b : eptr' = [eptr EXCEPT !.chain1 = f, !.live = b]
          \/ \E g : eptr' = [eptr EXCEPT !.chain2 = g]
      BY ZenonT(30), <1>9 DEF DownloadStart
    <3> QED
      BY ZenonT(30), <1>1, <3>1 DEF Entry
  <2>3. Head(toMaster).op # "applyError"
    BY ZenonT(30), <2>1
  <2>4. /\ ~Absent(toMaster, "applyError") => ~Absent(toMaster', "applyError")
        /\ ~Absent(toShadow, "applyError") => ~Absent(toShadow', "applyError")
    BY ZenonT(30), <2>1, <2>3, Remaining
  <2> QED
    BY ZenonT(30), <1>2, <2>1, <2>2, <2>4
<1>10. CASE ChangelogApplyErrorRequest
  <2>1. \/ toShadow' = Append(toShadow, [op |-> "applyError", status |-> "delayed"])
        \/ eptr' = [[eptr EXCEPT !.queued = TRUE] EXCEPT !.live = FALSE]
        \/ eptr' = [eptr EXCEPT !.queued = TRUE]
    BY ZenonT(30), <1>10 DEF ChangelogApplyErrorRequest, StartDump, ToShadow
  <2>2. [op |-> "applyError", status |-> "delayed"].op = "applyError"
    BY ZenonT(30)
  <2>3. CASE toShadow' = Append(toShadow, [op |-> "applyError", status |-> "delayed"])
    BY ZenonT(30), <1>1, <2>2, <2>3, StillThere DEF Asked
  <2>4. CASE \/ eptr' = [[eptr EXCEPT !.queued = TRUE] EXCEPT !.live = FALSE]
             \/ eptr' = [eptr EXCEPT !.queued = TRUE]
    <3>1. eptr'.queued
      BY ZenonT(30), <1>1, <2>4 DEF Entry
    <3> QED
      BY ZenonT(30), <3>1 DEF Asked
  <2> QED
    BY ZenonT(30), <2>1, <2>3, <2>4
<1>11. CASE Connect
  <2>1. ASSUME state' = "dumpPending"
        PROVE  \E r : toMaster' = <<r, Request("applyError")>>
    BY ZenonT(30), <1>11, <2>1 DEF Connect
  <2>2. \A r : ~Absent(<<r, Request("applyError")>>, "applyError")
    BY DEF Absent, Request
  <2> QED
    BY ZenonT(30), <2>1, <2>2 DEF Asked
<1>12. CASE OnRegistered \/ ChangelogApplyError
  <2>1. \/ state' # "dumpPending"
        \/ /\ toShadow # <<>> /\ Head(toShadow).op = "registered" /\ toShadow' = Tail(toShadow)
           /\ UNCHANGED <<toMaster, eptr, up, state>>
    BY ZenonT(30), <1>12 DEF OnRegistered, ChangelogApplyError, FromMaster, ForceMetadataDownload, Consumed
  <2>2. "registered" # "applyError"
    BY ZenonT(30)
  <2> QED
    BY ZenonT(30), <1>2, <1>4, <2>1, <2>2, Remaining
<1>13. CASE MetachangesLog
  <2>1. /\ toShadow # <<>> /\ Head(toShadow).op = "change" /\ toShadow' = Tail(toShadow)
        /\ UNCHANGED <<eptr, up>>
        /\ \/ toMaster' = toMaster /\ state' = state
           \/ up => toMaster' = Append(toMaster, Request("applyError"))
    BY ZenonT(30), <1>13 DEF MetachangesLog, FromMaster, RequestMetadataDump, ToMaster, Consumed
  <2>2. "change" # "applyError" /\ up
    BY ZenonT(30), <1>1, <2>1
  <2> QED
    BY ZenonT(30), <1>2, <1>5, <2>1, <2>2, Remaining
<1>14. CASE DownloadNext \/ DownloadFails
  <2>1. /\ toShadow # <<>> /\ Head(toShadow).op = "file" /\ toShadow' = Tail(toShadow)
        /\ UNCHANGED <<eptr, up, state>>
        /\ toMaster' = toMaster \/ \E p : toMaster' = Append(toMaster, p)
    BY ZenonT(30), <1>14 DEF DownloadNext, DownloadFails, FromMaster, ToMaster, Consumed
  <2>2. "file" # "applyError"
    BY ZenonT(30)
  <2> QED
    BY ZenonT(30), <1>2, <2>1, <2>2, Remaining
<1>15. CASE OpenChangelog \/ LoadLine \/ RetryDumpRequest
  <2>1. \/ loading /\ state' = state
        \/ up' = up /\ toMaster' = IF up THEN Append(toMaster, Request("applyError")) ELSE toMaster
    BY ZenonT(30), <1>15 DEF OpenChangelog, LoadLine, RetryDumpRequest, RequestMetadataDump, ToMaster
  <2>2. "downloading" # "dumpPending"
    BY ZenonT(30)
  <2> QED
    BY ZenonT(30), <1>1, <1>3, <1>4, <1>5, <2>1, <2>2
<1>16. CASE FinishLoad \/ SessionsDownload
  <2>1. state' = "sync"
    BY ZenonT(30), <1>16 DEF FinishLoad, SessionsDownload
  <2> QED
    BY ZenonT(30), <1>4, <2>1
<1>17. CASE ShadowDump \/ UNCHANGED vars
  BY ZenonT(30), <1>2, <1>17 DEF ShadowDump, vars
<1>18. CASE Disconnect \/ ShadowRestart \/ MasterRestart \/ Promote
  BY ZenonT(30), <1>3, <1>18 DEF Disconnect, ShadowRestart, MasterRestart, Promote, FreshShadow, Close
<1> QED
  BY ZenonT(30), <1>6, <1>7, <1>8, <1>9, <1>10, <1>11, <1>12, <1>13, <1>14, <1>15, <1>16, <1>17, <1>18
     DEF Next

\* A download goes on, or the next connection starts it, unless it was given up.
LEMMA FetchingStep ==
  ASSUME RInv, FlagTypes, Moving, [Next]_vars
  PROVE  state' = "downloading" /\ ~loading' /\ ~cut'
           => IF up' THEN Fetching' ELSE lastLogVersion' = 0
<1> USE DEF master, link, loader, shadow, ghosts
<1>1. /\ state = "downloading" /\ ~loading /\ ~cut => IF up THEN Fetching ELSE lastLogVersion = 0
      /\ ~up => toMaster = <<>> /\ toShadow = <<>>
      /\ toMaster \in Seq(ToMasterPacket) /\ toShadow \in Seq(ToShadowPacket)
  BY ZenonT(30) DEF RInv, Moving, Traffic, Types
<1>2. CASE /\ UNCHANGED <<up, state, loading, cut, lastLogVersion>>
           /\ \A op \in {"start", "file"} :
                /\ ~Absent(toMaster, op) => ~Absent(toMaster', op)
                /\ ~Absent(toShadow, op) => ~Absent(toShadow', op)
  BY ZenonT(30), <1>1, <1>2 DEF Fetching
<1>3. CASE state' # "downloading"
  BY ZenonT(30), <1>3
<1>4. CASE MasterChange \/ PeriodicDump \/ FinishDump \/ FailDump \/ PeriodPasses
  BY ZenonT(30), <1>2, <1>4, Undisturbed
<1>5. CASE RegisterShadow
  <2>1. UNCHANGED <<up, state, loading, cut, lastLogVersion>>
    BY ZenonT(30), <1>5 DEF RegisterShadow, FromShadow
  <2>2. \A op \in {"start", "file"} : op # "register"
    BY ZenonT(30)
  <2> QED
    BY ZenonT(30), <1>2, <1>5, <2>1, <2>2, RegisterKeeps
<1>6. CASE DownloadStart
  <2>1. /\ UNCHANGED <<up, lastLogVersion>> /\ toMaster # <<>>
        /\ \E f, d : toShadow' = Append(toShadow, [op |-> "file", file |-> f, data |-> d])
    BY ZenonT(30), <1>6 DEF DownloadStart, FromShadow, ToShadow
  <2>2. \A f, d : [op |-> "file", file |-> f, data |-> d].op = "file"
    BY ZenonT(30)
  <2> QED
    BY ZenonT(30), <1>1, <2>1, <2>2, StillThere DEF Fetching
<1>7. CASE ChangelogApplyErrorRequest
  <2>1. /\ UNCHANGED <<up, state, loading, cut, lastLogVersion>>
        /\ toMaster # <<>> /\ Head(toMaster).op = "applyError" /\ toMaster' = Tail(toMaster)
        /\ toShadow' = toShadow \/ \E p : toShadow' = Append(toShadow, p)
    BY ZenonT(30), <1>7 DEF ChangelogApplyErrorRequest, FromShadow, ToShadow
  <2>2. \A op \in {"start", "file"} : Head(toMaster).op # op
    BY ZenonT(30), <2>1
  <2> QED
    BY ZenonT(30), <1>2, <2>1, <2>2, Remaining
<1>8. CASE Connect
  <2>1. \/ \E r : up' /\ toMaster' = <<r, RequestFile("metadata")>>
        \/ ~up /\ ~loading /\ lastLogVersion # 0 /\ UNCHANGED <<state, cut>>
    BY ZenonT(30), <1>8 DEF Connect
  <2>2. \A r : ~Absent(<<r, RequestFile("metadata")>>, "start")
    BY DEF Absent, RequestFile
  <2> QED
    BY ZenonT(30), <1>1, <2>1, <2>2 DEF Fetching
<1>9. CASE OnRegistered \/ ChangelogApplyError
  <2>1. \/ state' # "downloading"
        \/ /\ toShadow # <<>> /\ Head(toShadow).op = "registered" /\ toShadow' = Tail(toShadow)
           /\ UNCHANGED <<toMaster, up, state, loading, cut, lastLogVersion>>
    BY ZenonT(30), <1>9 DEF OnRegistered, ChangelogApplyError, FromMaster, ForceMetadataDownload, Consumed
  <2>2. Head(toShadow).op = "registered" => \A op \in {"start", "file"} : Head(toShadow).op # op
    BY ZenonT(30)
  <2> QED
    BY ZenonT(30), <1>2, <1>3, <2>1, <2>2, Remaining
<1>10. CASE MetachangesLog
  <2>1. /\ toShadow # <<>> /\ Head(toShadow).op = "change" /\ toShadow' = Tail(toShadow)
        /\ UNCHANGED <<up, loading>>
        /\ state' # "downloading" \/ UNCHANGED <<toMaster, state, cut>>
    BY ZenonT(30), <1>10 DEF MetachangesLog, FromMaster, RequestMetadataDump, Consumed
  <2>2. up /\ \A op \in {"start", "file"} : Head(toShadow).op # op
    BY ZenonT(30), <1>1, <2>1
  <2>3. toMaster' = toMaster /\ Fetching => Fetching'
    BY ZenonT(30), <2>1, <2>2, Remaining DEF Fetching
  <2> QED
    BY SMTT(30), <1>1, <1>3, <2>1, <2>2, <2>3
<1>11. CASE DownloadNext
  <2>1. /\ toShadow # <<>> /\ UNCHANGED <<up, state>>
        /\ \/ up => \E f : toMaster' = Append(toMaster, RequestFile(f))
           \/ state = "downloading" => loading'
    BY ZenonT(30), <1>11 DEF DownloadNext, FromMaster, ToMaster
  <2>2. \A f : RequestFile(f).op = "start"
    BY ZenonT(30) DEF RequestFile
  <2> QED
    BY ZenonT(30), <1>1, <2>1, <2>2, StillThere DEF Fetching
<1>12. CASE OpenChangelog \/ LoadLine
  <2>1. loading' \/ state' = "dumpPending"
    BY ZenonT(30), <1>12 DEF OpenChangelog, LoadLine, RequestMetadataDump
  <2> QED
    BY ZenonT(30), <1>3, <2>1
<1>13. CASE FinishLoad \/ SessionsDownload \/ RetryDumpRequest
  <2>1. state' \in {"sync", "dumpPending"}
    BY ZenonT(30), <1>13 DEF FinishLoad, SessionsDownload, RetryDumpRequest, RequestMetadataDump
  <2> QED
    BY ZenonT(30), <1>3, <2>1
<1>14. CASE ShadowDump \/ UNCHANGED vars
  BY ZenonT(30), <1>2, <1>14 DEF ShadowDump, vars
<1>15. CASE DownloadFails
  <2>1. cut' = (cut \/ state = "downloading") /\ state' = state
    BY ZenonT(30), <1>15 DEF DownloadFails
  <2> QED
    BY ZenonT(30), <2>1
<1>16. CASE Disconnect \/ MasterRestart
  <2>1. /\ ~up' /\ cut' = (cut \/ CutOff) /\ UNCHANGED <<state, loading, lastLogVersion>>
    BY ZenonT(30), <1>16 DEF Disconnect, MasterRestart, Close
  <2>2. ~(lastLogVersion > 0) => lastLogVersion = 0
    BY DEF FlagTypes
  <2> QED
    BY ZenonT(30), <2>1, <2>2 DEF CutOff
<1>17. CASE ShadowRestart \/ Promote
  <2>1. state' = "none"
    BY ZenonT(30), <1>17 DEF ShadowRestart, Promote, FreshShadow
  <2> QED
    BY ZenonT(30), <1>3, <2>1
<1> QED
  BY ZenonT(30), <1>4, <1>5, <1>6, <1>7, <1>8, <1>9, <1>10, <1>11, <1>12, <1>13, <1>14, <1>15, <1>16, <1>17
     DEF Next

\* A shadow that is not synchronized is not forgotten, whatever fails, and a dump that a
\* shadow is queued for is in progress (matomlserv.cc ShadowQueue, masterconn.cc reconnect).
THEOREM NobodyForgotten ==
  ASSUME ~LostChanges
  PROVE  Spec => []NotForgotten
<1>1. Init => FlagTypes /\ Moving
  <2>1. Init => FlagTypes
    BY ZenonT(30), 0 \in Nat DEF Init, FlagTypes
  <2>2. Init => Moving
    BY DEF Init, Moving, Closed
  <2> QED
    BY ZenonT(30), <2>1, <2>2
<1>2. RInv /\ FlagTypes /\ Moving /\ [Next]_vars => FlagTypes' /\ Moving'
  <2> SUFFICES ASSUME RInv, FlagTypes, Moving, [Next]_vars PROVE FlagTypes' /\ Moving'
    BY ZenonT(30)
  <2>1. Moving'
    BY ZenonT(30), QueuedStep, BegunStep, AskedStep, FetchingStep DEF Moving
  <2> QED
    BY ZenonT(30), <2>1, FlagTypesStep
<1>3. RInv /\ FlagTypes /\ Moving => NotForgotten
  <2> SUFFICES ASSUME RInv, FlagTypes, Moving PROVE NotForgotten
    BY ZenonT(30)
  <2>1. toMaster \in Seq(ToMasterPacket) /\ toShadow \in Seq(ToShadowPacket)
    BY ZenonT(30) DEF RInv, Types
  <2>2. (Asked \/ Fetching) => toMaster # <<>> \/ toShadow # <<>> \/ eptr.queued
    BY ZenonT(30), <2>1, StillThere DEF Asked, Fetching
  <2>3. state \in {"none", "downloading", "sync", "dumpPending", "limbo"}
    BY ZenonT(30) DEF FlagTypes
  <2> QED
    BY ZenonT(30), <2>2, <2>3 DEF Moving, NotForgotten
<1> QED
  BY <1>1, <1>2, <1>3, HistoryEverywhere, PTL DEF Spec

\* The two servers, their files and the connection keep their types (MasterConn,
\* MatomlservEntry, the numbers of changelog lines).
THEOREM ReplicationTypes ==
  ASSUME ~LostChanges
  PROVE  Spec => []TypeOK
<1>1. Init => FlagTypes
  BY ZenonT(30), 0 \in Nat DEF Init, FlagTypes
<1>2. RInv /\ FlagTypes /\ [Next]_vars => FlagTypes'
  BY ZenonT(30), FlagTypesStep
<1>3. RInv /\ FlagTypes => TypeOK
  BY ZenonT(30) DEF RInv, Types, FlagTypes, TypeOK, Entry
<1> QED
  BY <1>1, <1>2, <1>3, HistoryEverywhere, PTL DEF Spec

-----------------------------------------------------------------------------
(* Where a change can be *)

\* The changelog f has a line of number n.
Has(f, n) == \E i \in 1..Len(f) : f[i].id = n

\* The last line of the changelog f has the greatest number.
Capped(f) == \A i \in 1..Len(f) : f[i].id <= f[Len(f)].id

DiskCapped(d) == Capped(d.cur) /\ Capped(d.log1) /\ Capped(d.log2)

\* Change n is under way to the shadow.
Sent(q, n) == \E i \in 1..Len(q) : q[i].op = "change" /\ q[i].id = n

\* It is under way behind a file.
After(q, n) == \E i, j \in 1..Len(q) : i < j /\ q[i].op = "file" /\ q[j].op = "change" /\ q[j].id = n

\* The contents d of a file are under way.
Carries(q, d) == \E i \in 1..Len(q) : q[i].op = "file" /\ q[i].data = d

\* It is still to be replayed.
Left(n) == Has(lines, n) \/ \E i \in 1..Len(todo) : Has(todo[i], n)

\* The metadata h lacks change n of the history l.
Lacks(h, l, n) == n \in 1..Len(l) /\ Len(h) < n

First(s, op) == \A i \in 1..Len(s) : s[i].op = op => i = 1

-----------------------------------------------------------------------------
(* The inductive invariant of ReplicationCurrentProofs *)

\* Registration comes before everything else on a connection, and its reply is followed
\* by all changes from the version in it on.
Registration ==
  /\ ~eptr.registered => toShadow = <<>> /\ ~eptr.queued
  /\ First(toMaster, "register") /\ First(toShadow, "registered")
  /\ ~Absent(toMaster, "register") => ~eptr.registered
  /\ up /\ ~eptr.registered => toMaster # <<>> /\ Head(toMaster).op = "register"
  /\ state = "downloading" /\ ~eptr.registered => downloading \in {"metadata", "nothing"}
  /\ toShadow # <<>> /\ Head(toShadow).op = "registered" =>
       \A n \in 1..Len(log) : n >= Head(toShadow).version => Sent(toShadow, n)

\* What the master's metadata.sfs lacks is in the changelogs that a download takes, as
\* long as they were not rotated twice since.
MasterCovers ==
  /\ dump # None => \A n : Lacks(dump, log, n) => Has(mdisk.cur, n)
  /\ Rotations = 0 => \A n : Lacks(mdisk.meta, log, n) => Has(mdisk.cur, n)
  /\ Rotations = 1 => \A n : Lacks(mdisk.meta, log, n) => Has(mdisk.cur, n) \/ Has(mdisk.log1, n)

\* No changelog is skipped that has a line to replay.
AllCapped ==
  /\ DiskCapped(mdisk) /\ DiskCapped(sdisk)
  /\ Capped(eptr.chain1) /\ Capped(eptr.chain2)
  /\ downloading \in {"changelog", "changelog1"} => \A f : Carries(toShadow, f) => Capped(f)
  /\ \A i \in 1..Len(todo) : Capped(todo[i])

\* What the shadow has stored is below what it will store next; a synchronized shadow has
\* stored what its own metadata.sfs lacks.
Stored ==
  /\ lastLogVersion > 0 => \A n \in Nat : Has(sdisk.cur, n) => n <= lastLogVersion
  /\ lastLogVersion = 0 => \A n, k \in Nat : Has(sdisk.cur, n) /\ Sent(toShadow, k) => n < k
  /\ toMaster # <<>> /\ Head(toMaster).op = "register" =>
       Head(toMaster).version = 0 \/ lastLogVersion > 0 \/ sdisk.cur = <<>>
  /\ state = "sync" => /\ Len(mem) <= lastLogVersion
                       /\ lastLogVersion > 0 \/ sdisk.cur = <<>>
                       /\ \A n : Lacks(sdisk.meta, mem, n) => Has(sdisk.cur, n)
  /\ ~loading => lines = <<>> /\ todo = <<>>

Zero == cursor.current = 0 \/ cursor.next = 0

\* The cursor is ahead of the metadata h: left over from a replay that failed.
High(h) == ~Zero /\ Len(h) < cursor.current

\* The shadow waits for a file that follows the metadata.
FollowUp == downloading \in {"changelog", "changelog1", "sessions"}

\* A cursor that is left over does not reach the end of the history, and the change after
\* it is not under way behind the files of a new download.
LeftOver ==
  /\ ~Zero => cursor.next <= cursor.current + 1
  /\ ~Zero => \/ cursor.current < Len(log)
              \/ lastLogVersion > 0 /\ state # "downloading"
              \/ loading /\ cursor.current = Len(mem)
  /\ ~Zero /\ state = "downloading" /\ ~loading =>
       /\ ~After(toShadow, cursor.current + 1)
       /\ FollowUp => ~Sent(toShadow, cursor.current + 1)

\* Where the shadow that downloads will find change n: sent, stored, in an open changelog
\* or in one that is under way or downloaded.
Found(n) ==
  \/ Sent(toShadow, n) \/ Has(sdisk.cur, n)
  \/ downloading = "changelog" /\ Has(eptr.chain2, n)
  \/ downloading = "changelog" /\ Absent(toShadow, "file") /\ Has(eptr.chain1, n)
  \/ downloading = "changelog1" /\ Absent(toShadow, "file") /\ Has(eptr.chain2, n)
  \/ downloading \in {"changelog", "changelog1"} /\ \E f : Carries(toShadow, f) /\ Has(f, n)
  \/ downloading \in {"changelog1", "sessions"} /\ Has(sdisk.log1, n)
  \/ downloading = "sessions" /\ Has(sdisk.log2, n)

\* What the metadata lacks that is under way or downloaded can be found.
Fetched ==
  state = "downloading" /\ ~loading /\ eptr.registered /\ ~torn =>
    /\ downloading = "metadata" => \A h : Carries(toShadow, h) =>
         \A n : Lacks(h, log, n) =>
           Has(eptr.chain1, n) \/ Has(eptr.chain2, n) \/ After(toShadow, n)
    /\ FollowUp /\ ~overwritten => \A n : Lacks(sdisk.meta, log, n) => Found(n)

\* What the metadata being loaded lacks is still to be replayed or was sent; with a cursor
\* that is left over, the change that the replay will fail at is still to come.
Replayed ==
  /\ loading /\ up => eptr.registered
  /\ loading /\ ~torn /\ ~overwritten =>
       /\ High(mem) => Left(cursor.current + 1)
       /\ ~High(mem) /\ eptr.registered => \A n : Lacks(mem, log, n) => Left(n) \/ Sent(toShadow, n)

\* What the metadata in service lacks was sent.
Served ==
  state = "sync" /\ ~torn /\ ~overwritten =>
    /\ ~High(mem)
    /\ eptr.registered /\ Absent(toShadow, "registered") =>
         \A n : Lacks(mem, log, n) => Sent(toShadow, n)

CInv == Registration /\ MasterCovers /\ AllCapped /\ Stored /\ LeftOver /\ Fetched /\ Replayed /\ Served

-----------------------------------------------------------------------------
(* Changelogs and queues *)

\* What a changelog has, and its last line, when it is empty, grows or loses its first line.
LEMMA HasSteps ==
  ASSUME NEW f \in Seq(Line)
  PROVE  /\ Capped(<<>>) /\ \A n : ~Has(<<>>, n)
         /\ \A r \in Line : \A n : Has(Append(f, r), n) <=> Has(f, n) \/ r.id = n
         /\ \A r \in Line : (\A n \in Nat : Has(f, n) => n <= r.id) => Capped(Append(f, r))
         /\ f # <<>> => \A n : Has(f, n) <=> Has(Tail(f), n) \/ Head(f).id = n
         /\ \A n : Has(f, n) => n \in Nat
         /\ Capped(f) /\ f # <<>> => \A n : Has(f, n) => n <= f[Len(f)].id
<1>1. Capped(<<>>) /\ \A n : ~Has(<<>>, n)
  BY DEF Capped, Has
<1>2. ASSUME NEW r \in Line
      PROVE  /\ Len(f) \in Nat /\ Append(f, r) \in Seq(Line) /\ Len(Append(f, r)) = Len(f) + 1
             /\ \A i \in 1..Len(f) : Append(f, r)[i] = f[i] /\ i \in 1..Len(Append(f, r))
             /\ Append(f, r)[Len(f) + 1] = r /\ Len(f) + 1 \in 1..Len(Append(f, r))
             /\ \A i \in 1..Len(Append(f, r)) : i \in 1..Len(f) \/ i = Len(f) + 1
  OBVIOUS
<1>3. ASSUME NEW r \in Line, NEW n PROVE Has(Append(f, r), n) <=> Has(f, n) \/ r.id = n
  BY ZenonT(30), <1>2 DEF Has
<1>4. ASSUME NEW r \in Line, \A n \in Nat : Has(f, n) => n <= r.id PROVE Capped(Append(f, r))
  <2>1. \A i \in 1..Len(f) : f[i] \in Line
    OBVIOUS
  <2>2. \A i \in 1..Len(f) : f[i].id \in Nat /\ f[i].id <= r.id
    BY ZenonT(30), <1>4, <2>1 DEF Has, Line
  <2> QED
    BY <1>2, <2>2 DEF Capped, Line
<1>5. ASSUME f # <<>>, NEW n PROVE Has(f, n) <=> Has(Tail(f), n) \/ Head(f).id = n
  <2>1. /\ Len(f) \in Nat /\ Len(f) > 0 /\ Head(f) = f[1] /\ 1 \in 1..Len(f)
        /\ Len(Tail(f)) = Len(f) - 1
        /\ \A i \in 1..Len(Tail(f)) : i + 1 \in 1..Len(f) /\ Tail(f)[i] = f[i + 1]
        /\ \A i \in 1..Len(f) : i = 1 \/ (i - 1 \in 1..Len(Tail(f)) /\ Tail(f)[i - 1] = f[i])
    BY <1>5
  <2> QED
    BY ZenonT(30), <2>1 DEF Has
<1>6. \A n : Has(f, n) => n \in Nat
  <2>1. \A i \in 1..Len(f) : f[i] \in Line
    OBVIOUS
  <2>2. \A i \in 1..Len(f) : f[i].id \in Nat
    BY ZenonT(30), <2>1 DEF Line
  <2> QED
    BY ZenonT(30), <2>2 DEF Has
<1>7. Capped(f) /\ f # <<>> => \A n : Has(f, n) => n <= f[Len(f)].id
  BY ZenonT(30) DEF Capped, Has
<1> QED
  BY ZenonT(30), <1>1, <1>3, <1>4, <1>5, <1>6, <1>7

\* A line of the history is not beyond its end.
LEMMA HasOf ==
  ASSUME NEW l \in Seq(Nat), NEW f, FileOf(f, l), NEW n, Has(f, n)
  PROVE  n \in 1..Len(l)
BY ZenonT(30) DEF FileOf, LineOf, Has

\* What is under way when a queue is empty, loses its first packet or gets another.
LEMMA SentSteps ==
  ASSUME NEW q \in Seq(ToShadowPacket)
  PROVE  /\ \A n : ~Sent(<<>>, n) /\ ~After(<<>>, n) /\ ~Carries(<<>>, n)
         /\ \A p, n : Sent(Append(q, p), n) <=> Sent(q, n) \/ (p.op = "change" /\ p.id = n)
         /\ \A p, n : After(Append(q, p), n) <=>
              After(q, n) \/ (~Absent(q, "file") /\ p.op = "change" /\ p.id = n)
         /\ \A p, n : Carries(Append(q, p), n) <=> Carries(q, n) \/ (p.op = "file" /\ p.data = n)
         /\ q # <<>> => \A n :
              /\ Sent(q, n) <=> Sent(Tail(q), n) \/ (Head(q).op = "change" /\ Head(q).id = n)
              /\ After(q, n) <=> After(Tail(q), n) \/ (Head(q).op = "file" /\ Sent(Tail(q), n))
              /\ Carries(q, n) <=> Carries(Tail(q), n) \/ (Head(q).op = "file" /\ Head(q).data = n)
<1>1. \A n : ~Sent(<<>>, n) /\ ~After(<<>>, n) /\ ~Carries(<<>>, n)
  BY DEF Sent, After, Carries
<1>2. ASSUME NEW p
      PROVE  /\ Len(q) \in Nat /\ Len(Append(q, p)) = Len(q) + 1
             /\ \A i \in 1..Len(q) : Append(q, p)[i] = q[i] /\ i \in 1..Len(Append(q, p)) /\ i < Len(q) + 1
             /\ Append(q, p)[Len(q) + 1] = p /\ Len(q) + 1 \in 1..Len(Append(q, p))
             /\ \A i \in 1..Len(Append(q, p)) : i \in 1..Len(q) \/ i = Len(q) + 1
             /\ \A i \in 1..Len(Append(q, p)) : ~(Len(q) + 1 < i)
  <2>1. q \in Seq(ToShadowPacket \cup {p}) /\ p \in ToShadowPacket \cup {p}
    OBVIOUS
  <2> QED
    BY <2>1
<1>3. ASSUME NEW p, NEW n
      PROVE  Sent(Append(q, p), n) <=> Sent(q, n) \/ (p.op = "change" /\ p.id = n)
  <2>1. ASSUME Sent(Append(q, p), n) PROVE Sent(q, n) \/ (p.op = "change" /\ p.id = n)
    BY ZenonT(30), <1>2, <2>1 DEF Sent
  <2>2. ASSUME NEW i \in 1..Len(q), q[i].op = "change", q[i].id = n PROVE Sent(Append(q, p), n)
    BY ZenonT(30), <1>2, <2>2 DEF Sent
  <2>3. ASSUME p.op = "change", p.id = n PROVE Sent(Append(q, p), n)
    BY <1>2, <2>3 DEF Sent
  <2> QED
    BY ZenonT(30), <2>1, <2>2, <2>3 DEF Sent
<1>4. ASSUME NEW p, NEW n
      PROVE  After(Append(q, p), n) <=>
               After(q, n) \/ (~Absent(q, "file") /\ p.op = "change" /\ p.id = n)
  <2>1. ASSUME After(Append(q, p), n)
        PROVE  After(q, n) \/ (~Absent(q, "file") /\ p.op = "change" /\ p.id = n)
    <3>1. PICK i, j \in 1..Len(Append(q, p)) :
            /\ i < j /\ Append(q, p)[i].op = "file"
            /\ Append(q, p)[j].op = "change" /\ Append(q, p)[j].id = n
      BY ZenonT(30), <2>1 DEF After
    <3>2. i \in 1..Len(q)
      BY <1>2, <3>1
    <3> QED
      BY ZenonT(30), <1>2, <3>1, <3>2 DEF After, Absent
  <2>2. ASSUME NEW i \in 1..Len(q), NEW j \in 1..Len(q), i < j, q[i].op = "file",
               q[j].op = "change", q[j].id = n
        PROVE  After(Append(q, p), n)
    BY <1>2, <2>2 DEF After
  <2>3. ASSUME NEW i \in 1..Len(q), q[i].op = "file", p.op = "change", p.id = n
        PROVE  After(Append(q, p), n)
    BY <1>2, <2>3 DEF After
  <2> QED
    BY ZenonT(30), <2>1, <2>2, <2>3 DEF After, Absent
<1>5. ASSUME NEW p, NEW n
      PROVE  Carries(Append(q, p), n) <=> Carries(q, n) \/ (p.op = "file" /\ p.data = n)
  <2>1. ASSUME Carries(Append(q, p), n) PROVE Carries(q, n) \/ (p.op = "file" /\ p.data = n)
    BY ZenonT(30), <1>2, <2>1 DEF Carries
  <2>2. ASSUME NEW i \in 1..Len(q), q[i].op = "file", q[i].data = n PROVE Carries(Append(q, p), n)
    BY ZenonT(30), <1>2, <2>2 DEF Carries
  <2>3. ASSUME p.op = "file", p.data = n PROVE Carries(Append(q, p), n)
    BY <1>2, <2>3 DEF Carries
  <2> QED
    BY ZenonT(30), <2>1, <2>2, <2>3 DEF Carries
<1>6. ASSUME q # <<>>, NEW n
      PROVE  /\ Sent(q, n) <=> Sent(Tail(q), n) \/ (Head(q).op = "change" /\ Head(q).id = n)
             /\ After(q, n) <=> After(Tail(q), n) \/ (Head(q).op = "file" /\ Sent(Tail(q), n))
             /\ Carries(q, n) <=> Carries(Tail(q), n) \/ (Head(q).op = "file" /\ Head(q).data = n)
  <2>1. /\ Len(q) \in Nat /\ Len(q) > 0 /\ Head(q) = q[1] /\ 1 \in 1..Len(q)
        /\ Len(Tail(q)) = Len(q) - 1
        /\ \A i \in 1..Len(Tail(q)) : i + 1 \in 1..Len(q) /\ Tail(q)[i] = q[i + 1] /\ 1 < i + 1
        /\ \A i \in 1..Len(q) : i = 1 \/ (i - 1 \in 1..Len(Tail(q)) /\ Tail(q)[i - 1] = q[i])
        /\ \A i, j \in 1..Len(q) : i < j => j # 1 /\ i - 1 < j - 1
        /\ \A i, j \in 1..Len(Tail(q)) : i < j => i + 1 < j + 1
    BY <1>6
  <2>2. Sent(q, n) <=> Sent(Tail(q), n) \/ (Head(q).op = "change" /\ Head(q).id = n)
    BY ZenonT(30), <2>1 DEF Sent
  <2>3. Carries(q, n) <=> Carries(Tail(q), n) \/ (Head(q).op = "file" /\ Head(q).data = n)
    BY ZenonT(30), <2>1 DEF Carries
  <2>4. ASSUME After(q, n) PROVE After(Tail(q), n) \/ (Head(q).op = "file" /\ Sent(Tail(q), n))
    <3>1. PICK i, j \in 1..Len(q) : i < j /\ q[i].op = "file" /\ q[j].op = "change" /\ q[j].id = n
      BY ZenonT(30), <2>4 DEF After
    <3>2. j - 1 \in 1..Len(Tail(q)) /\ Tail(q)[j - 1] = q[j] /\ i - 1 < j - 1
      BY ZenonT(30), <2>1, <3>1
    <3> QED
      BY ZenonT(30), <2>1, <3>1, <3>2 DEF After, Sent
  <2>5. ASSUME NEW i \in 1..Len(Tail(q)), NEW j \in 1..Len(Tail(q)), i < j, Tail(q)[i].op = "file",
               Tail(q)[j].op = "change", Tail(q)[j].id = n
        PROVE  After(q, n)
    BY <2>1, <2>5 DEF After
  <2>6. ASSUME Head(q).op = "file", Sent(Tail(q), n) PROVE After(q, n)
    BY ZenonT(30), <2>1, <2>6 DEF After, Sent
  <2>7. After(Tail(q), n) => After(q, n)
    BY ZenonT(30), <2>5 DEF After
  <2> QED
    BY ZenonT(30), <2>2, <2>3, <2>4, <2>6, <2>7
<1> QED
  BY ZenonT(30), <1>1, <1>3, <1>4, <1>5, <1>6

\* The same for a number of packets none of which is a file.
LEMMA SentMore ==
  ASSUME NEW q \in Seq(ToShadowPacket), NEW t \in Seq(ToShadowPacket), NEW n
  PROVE  /\ Sent(q, n) \/ Sent(t, n) <=> Sent(q \o t, n)
         /\ Absent(q, "file") /\ Absent(t, "file") => ~After(q \o t, n) /\ ~Carries(q \o t, n)
         /\ Absent(q, "file") => ~After(q, n) /\ ~Carries(q, n)
<1>1. /\ Len(q) \in Nat /\ Len(t) \in Nat /\ Len(q \o t) = Len(q) + Len(t)
      /\ \A i \in 1..Len(q) : i \in 1..Len(q \o t) /\ (q \o t)[i] = q[i]
      /\ \A i \in 1..Len(t) : i + Len(q) \in 1..Len(q \o t) /\ (q \o t)[i + Len(q)] = t[i]
      /\ \A i \in 1..Len(q \o t) :
             \/ i \in 1..Len(q) /\ (q \o t)[i] = q[i]
             \/ i - Len(q) \in 1..Len(t) /\ (q \o t)[i] = t[i - Len(q)]
  OBVIOUS
<1>2. Sent(q, n) \/ Sent(t, n) <=> Sent(q \o t, n)
  <2>1. ASSUME NEW i \in 1..Len(q), q[i].op = "change", q[i].id = n PROVE Sent(q \o t, n)
    BY ZenonT(30), <1>1, <2>1 DEF Sent
  <2>2. ASSUME NEW i \in 1..Len(t), t[i].op = "change", t[i].id = n PROVE Sent(q \o t, n)
    BY <1>1, <2>2 DEF Sent
  <2>3. ASSUME Sent(q \o t, n) PROVE Sent(q, n) \/ Sent(t, n)
    BY ZenonT(30), <1>1, <2>3 DEF Sent
  <2> QED
    BY ZenonT(30), <2>1, <2>2, <2>3 DEF Sent
<1>3. ASSUME Absent(q, "file"), Absent(t, "file") PROVE ~After(q \o t, n) /\ ~Carries(q \o t, n)
  <2>1. Absent(q \o t, "file")
    BY ZenonT(30), <1>1, <1>3 DEF Absent
  <2> QED
    BY ZenonT(30), <2>1 DEF Absent, After, Carries
<1>4. Absent(q, "file") => ~After(q, n) /\ ~Carries(q, n)
  BY ZenonT(30) DEF Absent, After, Carries
<1> QED
  BY ZenonT(30), <1>2, <1>3, <1>4

\* What is under way is the same in both queues.
SameFlow(q, t) ==
  \A n : (Sent(t, n) <=> Sent(q, n)) /\ (After(t, n) <=> After(q, n)) /\ (Carries(t, n) <=> Carries(q, n))

\* The first packet of a queue is the only one of its kind.
LEMMA FirstSteps ==
  ASSUME NEW S, NEW s \in Seq(S), NEW op
  PROVE  /\ First(<<>>, op)
         /\ First(s, op) /\ s # <<>> => Absent(Tail(s), op) /\ First(Tail(s), op)
         /\ \A p \in S : p.op # op /\ First(s, op) => First(Append(s, p), op)
         /\ \A t \in Seq(S) : Absent(t, op) /\ First(s, op) => First(s \o t, op)
         /\ \A p : First(<<p>>, op)
         /\ Absent(s, op) => First(s, op)
         /\ First(s, op) /\ (s = <<>> \/ Head(s).op # op) => Absent(s, op)
<1>1. First(<<>>, op) /\ (Absent(s, op) => First(s, op)) /\ \A p : First(<<p>>, op)
  BY DEF First, Absent
<1>2. ASSUME First(s, op), s # <<>> PROVE Absent(Tail(s), op) /\ First(Tail(s), op)
  <2>1. \A i \in 1..Len(Tail(s)) : i + 1 \in 1..Len(s) /\ i + 1 # 1 /\ Tail(s)[i] = s[i + 1]
    BY <1>2
  <2>2. Absent(Tail(s), op)
    BY ZenonT(30), <1>2, <2>1 DEF First, Absent
  <2> QED
    BY ZenonT(30), <2>2 DEF First, Absent
<1>3. ASSUME NEW p \in S, p.op # op, First(s, op) PROVE First(Append(s, p), op)
  <2>1. \A i \in 1..Len(Append(s, p)) : \/ i \in 1..Len(s) /\ Append(s, p)[i] = s[i]
                                        \/ Append(s, p)[i] = p
    OBVIOUS
  <2> QED
    BY ZenonT(30), <1>3, <2>1 DEF First
<1>4. ASSUME NEW t \in Seq(S), Absent(t, op), First(s, op) PROVE First(s \o t, op)
  <2>1. \A i \in 1..Len(s \o t) : \/ i \in 1..Len(s) /\ (s \o t)[i] = s[i]
                                  \/ i - Len(s) \in 1..Len(t) /\ (s \o t)[i] = t[i - Len(s)]
    OBVIOUS
  <2> QED
    BY ZenonT(30), <1>4, <2>1 DEF First, Absent
<1>5. ASSUME First(s, op), s = <<>> \/ Head(s).op # op PROVE Absent(s, op)
  <2>1. s # <<>> => Head(s) = s[1]
    OBVIOUS
  <2> QED
    BY <1>5, <2>1 DEF First, Absent
<1> QED
  BY ZenonT(30), <1>1, <1>2, <1>3, <1>4, <1>5

\* restore and its cursor: a cursor that is not ahead of the metadata lets the next change
\* through and no other; one that is ahead lets none through and stays.
LEMMA RestoreCursor ==
  ASSUME NEW h \in Seq(Nat), NEW c \in [current : Nat, next : Nat], NEW r \in Line,
         Len(h) < r.id, c.current = 0 \/ c.next = 0 \/ c.next <= c.current + 1
  PROVE  LET x == Restore(h, c, r)
             zero == c.current = 0 \/ c.next = 0
         IN /\ \/ x.cursor.current = 0 \/ x.cursor.next = 0
               \/ x.cursor.next <= x.cursor.current + 1
            /\ ~zero /\ Len(h) < c.current =>
                 /\ x.cursor.current = c.current
                 /\ x.ok => x.mem = h /\ r.id # c.current + 1 /\ x.cursor = c
            /\ zero \/ c.current <= Len(h) =>
                 /\ x.ok => /\ x.mem = Append(h, r.change) /\ r.id = Len(h) + 1
                            /\ x.cursor.current = Len(h) + 1
                 /\ ~x.ok => x.cursor.current + 1 < r.id
<1> DEFINE zero == c.current = 0 \/ c.next = 0
           cur == IF 0 \in {c.current, c.next} THEN Len(h) ELSE c.current
           next == IF 0 \in {c.current, c.next} THEN Version(h) ELSE c.next
           h2 == Append(h, r.change)
           Result(ok, hist, a, b) == [ok |-> ok, mem |-> hist, cursor |-> [current |-> a, next |-> b]]
           x == Restore(h, c, r)
<1>1. /\ Len(h) \in Nat /\ r.id \in Nat /\ r.change \in Nat /\ c.current \in Nat /\ c.next \in Nat
      /\ c = [current |-> c.current, next |-> c.next]
  BY DEF Line
<1>2. /\ zero => cur = Len(h) /\ next = Len(h) + 1
      /\ ~zero => cur = c.current /\ next = c.next
      /\ cur \in Nat /\ next \in Nat /\ next <= cur + 1
  BY <1>1 DEF Version
<1>3. Version(h2) = Len(h) + 2
  BY <1>1 DEF Version
<1>4. x = CASE r.id < cur -> Result(TRUE, h, cur, next)
           [] r.id >= cur /\ (r.id < next \/ r.id = cur) -> Result(TRUE, h, r.id, next)
           [] r.id >= next /\ r.id > cur + 1 -> Result(FALSE, h, cur, next)
           [] r.id >= next /\ r.id = cur + 1 ->
                IF Version(h2) = r.id + 1 THEN Result(TRUE, h2, r.id, Version(h2))
                                          ELSE Result(FALSE, h2, cur, Version(h2))
  BY ZenonT(30) DEF Restore
<1> HIDE DEF cur, next, h2, x
<1>5. CASE r.id <= cur
  <2>1. x = Result(TRUE, h, cur, next)
    <3>1. CASE r.id < cur
      BY SMTT(30), <1>1, <1>2, <1>4, <3>1
    <3>2. CASE r.id = cur
      BY SMTT(30), <1>1, <1>2, <1>4, <3>2
    <3> QED
      BY <1>1, <1>2, <1>5, <3>1, <3>2
  <2>2. x.ok /\ x.mem = h /\ x.cursor = [current |-> cur, next |-> next]
    BY ZenonT(30), <2>1
  <2>3. ~zero /\ Len(h) < c.current /\ r.id # c.current + 1
    BY <1>1, <1>2, <1>5
  <2>4. x.cursor = c /\ x.cursor.current = c.current /\ x.cursor.next = c.next
    BY ZenonT(30), <1>1, <1>2, <2>2, <2>3
  <2> QED
    BY SMTT(30), <1>1, <2>2, <2>3, <2>4 DEF x
<1>6. CASE r.id > cur + 1
  <2>1. x = Result(FALSE, h, cur, next)
    BY SMTT(30), <1>1, <1>2, <1>4, <1>6
  <2>2. ~x.ok /\ x.cursor.current = cur /\ x.cursor.next = next
    BY ZenonT(30), <2>1
  <2> QED
    BY ZenonT(30), <1>1, <1>2, <1>6, <2>2 DEF x
<1>7. CASE r.id = cur + 1 /\ cur = Len(h)
  <2>1. x = Result(TRUE, h2, r.id, Len(h) + 2)
    BY SMTT(30), <1>1, <1>2, <1>3, <1>4, <1>7
  <2>2. x.ok /\ x.mem = h2 /\ x.cursor.current = r.id /\ x.cursor.next = Len(h) + 2
    BY ZenonT(30), <2>1
  <2> QED
    BY SMTT(30), <1>1, <1>2, <1>7, <2>2 DEF x, h2
<1>8. CASE r.id = cur + 1 /\ cur # Len(h)
  <2>1. x = Result(FALSE, h2, cur, Len(h) + 2)
    BY SMTT(30), <1>1, <1>2, <1>3, <1>4, <1>8
  <2>2. ~x.ok /\ x.cursor.current = cur /\ x.cursor.next = Len(h) + 2
    BY ZenonT(30), <2>1
  <2>3. Len(h) < cur /\ ~zero
    BY <1>1, <1>2, <1>8
  <2> QED
    BY SMTT(30), <1>1, <1>2, <1>8, <2>2, <2>3 DEF x
<1>9. r.id <= cur \/ r.id > cur + 1 \/ r.id = cur + 1
  BY <1>1, <1>2
<1> QED
  BY ZenonT(30), <1>5, <1>6, <1>7, <1>8, <1>9

\* The reply to a registration and the changes that follow it.
LEMMA RegisterFacts ==
  ASSUME RInv, RegisterShadow, toShadow = <<>>
  PROVE  /\ toShadow' # <<>> /\ Head(toShadow').op = "registered"
         /\ First(toShadow', "registered") /\ Absent(toShadow', "file")
         /\ \A n \in 1..Len(log) : n >= Head(toShadow').version => Sent(toShadow', n)
         /\ Head(toMaster).version = 0 => \A n : ~Sent(toShadow', n)
<1> DEFINE v == Head(toMaster).version
           reply == IF Version(log) > v /\ oldest # 0 /\ oldest <= v THEN v ELSE Version(log)
           p == [op |-> "registered", version |-> reply]
           t == OldChanges(reply)
<1>1. /\ toShadow' = Append(toShadow, p) \o t /\ toMaster # <<>> /\ Head(toMaster).op = "register"
  BY ZenonT(30) DEF RegisterShadow, FromShadow
<1>2. v \in Nat /\ Version(log) \in Nat /\ oldest \in Nat /\ log \in Seq(Nat)
  BY ZenonT(30), <1>1, AtHand, PacketFields, NewChange DEF RInv, Types
<1>3. /\ reply \in Nat
      /\ reply = Version(log) \/ (reply = v /\ oldest # 0 /\ oldest <= v)
  BY ZenonT(30), <1>2
<1> HIDE DEF reply, v
<1>4. p \in ToShadowPacket /\ p.op = "registered" /\ p.version = reply
  BY ZenonT(30), <1>3, PacketTypes
<1>5. t \in Seq(ToShadowPacket) /\ Absent(t, "file")
  BY ZenonT(30), <1>3, OldChangesFacts
<1>6. /\ Absent(t, "registered")
      /\ \A n \in 1..Len(log) : n >= reply => Sent(t, n)
      /\ v = 0 => \A n : ~Sent(t, n)
  <2>1. CASE oldest = 0
    <3>1. t = <<>> /\ reply = Version(log)
      BY ZenonT(30), <1>2, <1>3, <2>1 DEF OldChanges
    <3>2. \A n \in 1..Len(log) : ~(n >= reply)
      BY <1>2, <3>1 DEF Version
    <3>3. Absent(t, "registered") /\ \A n : ~Sent(t, n)
      BY <3>1 DEF Absent, Sent
    <3> QED
      BY ZenonT(30), <3>2, <3>3
  <2>2. CASE oldest # 0
    <3> DEFINE from == IF reply > oldest THEN reply ELSE oldest
               k == Version(log) - from
    <3>1. from \in Nat /\ (reply = Version(log) => from >= Version(log)) /\ (reply # Version(log) => from = reply)
      BY <1>2, <1>3
    <3>2. t = [i \in 1..k |-> [op |-> "change", id |-> from + i - 1, change |-> log[from + i - 1]]]
      BY ZenonT(30), <2>2 DEF OldChanges
    <3>3. CASE reply = Version(log)
      <4>1. k \in Int /\ ~(k > 0)
        BY <1>2, <3>1, <3>3
      <4>2. 1..k = {}
        BY <4>1
      <4>3. t = <<>>
        BY <3>2, <4>2, <1>5
      <4>4. \A n \in 1..Len(log) : ~(n >= reply)
        BY <1>2, <3>3 DEF Version
      <4>5. Absent(t, "registered") /\ \A n : ~Sent(t, n)
        BY <4>3 DEF Absent, Sent
      <4> QED
        BY ZenonT(30), <4>4, <4>5
    <3>4. CASE reply # Version(log)
      <4>1. k \in Int /\ from = reply /\ reply = v /\ v # 0
        BY <1>2, <1>3, <2>2, <3>1, <3>4
      <4> HIDE DEF from, k
      <4>2. Len(t) \in Nat /\ 1..Len(t) = 1..k
        <5>1. DOMAIN t = 1..Len(t) /\ Len(t) \in Nat
          BY <1>5
        <5>2. DOMAIN t = 1..k
          BY ZenonT(30), <3>2
        <5> QED
          BY ZenonT(30), <5>1, <5>2
      <4>3. \A i \in 1..k : t[i].op = "change" /\ t[i].id = reply + i - 1
        BY <3>2, <4>1
      <4>4. Absent(t, "registered")
        BY ZenonT(30), <4>2, <4>3 DEF Absent
      <4>5. ASSUME NEW n \in 1..Len(log), n >= reply PROVE Sent(t, n)
        <5>1. n - reply + 1 \in 1..k /\ reply + (n - reply + 1) - 1 = n
          BY <1>2, <1>3, <4>1, <4>5 DEF k, Version
        <5> QED
          BY ZenonT(30), <4>2, <4>3, <5>1 DEF Sent
      <4> QED
        BY ZenonT(30), <4>1, <4>4, <4>5
    <3> QED
      BY ZenonT(30), <3>3, <3>4
  <2> QED
    BY ZenonT(30), <2>1, <2>2
<1> HIDE DEF p, t
<1>7. /\ Append(toShadow, p) = <<p>> /\ <<p>> \in Seq(ToShadowPacket) /\ Head(<<p>> \o t) = p
      /\ <<p>> \o t # <<>>
  BY <1>4, <1>5
<1>8. First(<<p>>, "registered") /\ Absent(<<p>>, "file")
  BY <1>4 DEF First, Absent
<1>9. First(<<p>> \o t, "registered")
  BY ZenonT(30), <1>5, <1>6, <1>7, <1>8, FirstSteps
<1>10. Absent(<<p>> \o t, "file")
  BY ZenonT(30), <1>5, <1>7, <1>8, KeepsSteps DEF Keeps
<1>11. \A n : Sent(<<p>> \o t, n) <=> Sent(t, n)
  <2>1. \A n : ~Sent(<<p>>, n)
    BY <1>4 DEF Sent
  <2> QED
    BY ZenonT(30), <1>5, <1>7, <2>1, SentMore
<1> QED
  BY ZenonT(30), <1>1, <1>4, <1>6, <1>7, <1>9, <1>10, <1>11 DEF v

-----------------------------------------------------------------------------
(* What the steps do, field by field *)

\* A new change goes to changelog.sfs, to the file opened for a download and to the shadow.
LEMMA ChangeEffect ==
  ASSUME RInv, MasterChange
  PROVE  /\ \E r \in Line :
              /\ r.id = Len(log) + 1
              /\ mdisk'.meta = mdisk.meta /\ mdisk'.cur = Append(mdisk.cur, r)
              /\ mdisk'.log1 = mdisk.log1 /\ mdisk'.log2 = mdisk.log2
              /\ eptr'.chain1 \in {eptr.chain1, Append(eptr.chain1, r)} /\ eptr'.chain2 = eptr.chain2
              /\ IF eptr.registered
                 THEN toShadow' = Append(toShadow, [op |-> "change", id |-> r.id, change |-> r.change])
                 ELSE toShadow' = toShadow
         /\ log \in Seq(Nat) /\ log' \in Seq(Nat) /\ Len(log') = Len(log) + 1
         /\ eptr'.registered = eptr.registered /\ eptr'.queued = eptr.queued
         /\ UNCHANGED <<dump, failures, up, toMaster, mem, sdisk, state, lastLogVersion, downloading,
                        cursor, loading, todo, lines, torn, overwritten>>
<1> DEFINE r == [id |-> Version(log), change |-> term * MaxVersion + Version(log)]
<1>1. /\ r \in Line /\ log' = Append(log, r.change) /\ log' \in Seq(Nat) /\ log \in Seq(Nat)
      /\ r.id = Len(log) + 1 /\ mdisk \in Disk /\ eptr \in Entry
  BY ZenonT(30), NewLine DEF Version, RInv, Types
<1>2. Len(log') = Len(log) + 1
  BY <1>1, NewChange
<1>3. /\ mdisk' = [mdisk EXCEPT !.cur = Append(mdisk.cur, r)]
      /\ eptr' = eptr \/ eptr' = [eptr EXCEPT !.chain1 = Append(eptr.chain1, r)]
      /\ IF eptr.registered
         THEN toShadow' = Append(toShadow, [op |-> "change", id |-> r.id, change |-> r.change])
         ELSE toShadow' = toShadow
      /\ UNCHANGED <<dump, failures, up, toMaster, mem, sdisk, state, lastLogVersion, downloading,
                     cursor, loading, todo, lines, torn, overwritten>>
  BY ZenonT(30) DEF MasterChange, ToShadow, shadow, loader, ghosts
<1> HIDE DEF r
<1>4. /\ mdisk'.meta = mdisk.meta /\ mdisk'.cur = Append(mdisk.cur, r)
      /\ mdisk'.log1 = mdisk.log1 /\ mdisk'.log2 = mdisk.log2
  BY ZenonT(30), <1>1, <1>3 DEF Disk
<1>5. /\ eptr'.chain1 \in {eptr.chain1, Append(eptr.chain1, r)} /\ eptr'.chain2 = eptr.chain2
      /\ eptr'.registered = eptr.registered /\ eptr'.queued = eptr.queued
  BY ZenonT(30), <1>1, <1>3 DEF Entry
<1> QED
  BY ZenonT(30), <1>1, <1>2, <1>3, <1>4, <1>5

\* A new change is under way to a registered shadow.
LEMMA ChangeFlow ==
  ASSUME RInv, MasterChange, NEW n
  PROVE  /\ eptr.registered =>
              /\ Sent(toShadow', n) <=> Sent(toShadow, n) \/ n = Len(log) + 1
              /\ After(toShadow', n) <=> After(toShadow, n) \/ (~Absent(toShadow, "file") /\ n = Len(log) + 1)
         /\ Carries(toShadow', n) <=> Carries(toShadow, n)
<1>1. toShadow \in Seq(ToShadowPacket)
  BY ZenonT(30) DEF RInv, Types
<1>2. CASE ~eptr.registered
  BY ZenonT(30), <1>2, ChangeEffect
<1>3. CASE eptr.registered
  <2>1. PICK r \in Line :
          /\ r.id = Len(log) + 1
          /\ toShadow' = Append(toShadow, [op |-> "change", id |-> r.id, change |-> r.change])
    BY ZenonT(30), <1>3, ChangeEffect
  <2> DEFINE p == [op |-> "change", id |-> r.id, change |-> r.change]
  <2>2. /\ p.op = "change" /\ p.op # "file" /\ p.id = Len(log) + 1
        /\ toShadow' = Append(toShadow, p)
    BY ZenonT(30), <2>1
  <2> HIDE DEF p
  <2>3. /\ Sent(Append(toShadow, p), n) <=> Sent(toShadow, n) \/ (p.op = "change" /\ p.id = n)
        /\ After(Append(toShadow, p), n) <=>
             After(toShadow, n) \/ (~Absent(toShadow, "file") /\ p.op = "change" /\ p.id = n)
        /\ Carries(Append(toShadow, p), n) <=> Carries(toShadow, n) \/ (p.op = "file" /\ p.data = n)
    BY <1>1, SentSteps
  <2> QED
    BY ZenonT(30), <1>3, <2>2, <2>3
<1> QED
  BY ZenonT(30), <1>2, <1>3

\* A dump request is taken, a dump starts or ends: nothing changes for the changes and files
\* under way.
LEMMA DumpEffect ==
  ASSUME RInv, PeriodicDump \/ FinishDump \/ FailDump \/ PeriodPasses \/ ChangelogApplyErrorRequest
  PROVE  /\ UNCHANGED <<log, up, mem, sdisk, state, lastLogVersion, downloading,
                        cursor, loading, todo, lines, torn, overwritten>>
         /\ eptr'.registered = eptr.registered
         /\ eptr'.chain1 = eptr.chain1 /\ eptr'.chain2 = eptr.chain2
         /\ \/ toMaster' = toMaster
            \/ toMaster # <<>> /\ Head(toMaster).op = "applyError" /\ toMaster' = Tail(toMaster)
         /\ \/ toShadow' = toShadow
            \/ \E p \in ToShadowPacket : p.op = "applyError" /\ toShadow' = Append(toShadow, p)
         /\ SameFlow(toShadow, toShadow')
         /\ (eptr'.queued \/ toShadow' # toShadow) =>
              eptr.queued \/ (toMaster # <<>> /\ Head(toMaster).op = "applyError")
<1> USE DEF master, link, loader, shadow, ghosts
<1>1. eptr \in Entry /\ toShadow \in Seq(ToShadowPacket)
  BY ZenonT(30) DEF RInv, Types
<1>2. \A v \in {"ok", "error", "delayed"} :
        [op |-> "applyError", status |-> v] \in ToShadowPacket
  BY ZenonT(30), PacketTypes
<1>3. \A v : [op |-> "applyError", status |-> v].op = "applyError"
  BY ZenonT(30)
<1>4. /\ UNCHANGED <<log, up, mem, sdisk, state, lastLogVersion, downloading,
                     cursor, loading, todo, lines, torn, overwritten>>
      /\ \/ toMaster' = toMaster
         \/ toMaster # <<>> /\ Head(toMaster).op = "applyError" /\ toMaster' = Tail(toMaster)
  BY ZenonT(60) DEF PeriodicDump, FinishDump, FailDump, PeriodPasses, ChangelogApplyErrorRequest, FromShadow
<1>5. \/ toShadow' = toShadow
      \/ /\ \E v \in {"ok", "error", "delayed"} :
              toShadow' = Append(toShadow, [op |-> "applyError", status |-> v])
         /\ eptr.queued \/ (toMaster # <<>> /\ Head(toMaster).op = "applyError")
  BY ZenonT(60) DEF PeriodicDump, FinishDump, FailDump, PeriodPasses, ChangelogApplyErrorRequest,
                    FromShadow, AnswerQueue, ToShadow
<1>6. /\ \/ eptr' = eptr \/ eptr' = [eptr EXCEPT !.live = FALSE] \/ eptr' = [eptr EXCEPT !.queued = FALSE]
         \/ /\ \/ eptr' = [[eptr EXCEPT !.queued = TRUE] EXCEPT !.live = FALSE]
               \/ eptr' = [eptr EXCEPT !.queued = TRUE]
            /\ toMaster # <<>> /\ Head(toMaster).op = "applyError"
  BY ZenonT(60) DEF PeriodicDump, FinishDump, FailDump, PeriodPasses, ChangelogApplyErrorRequest,
                    FromShadow, AnswerQueue, StartDump
<1>7. /\ eptr'.registered = eptr.registered
      /\ eptr'.chain1 = eptr.chain1 /\ eptr'.chain2 = eptr.chain2
      /\ eptr'.queued => eptr.queued \/ (toMaster # <<>> /\ Head(toMaster).op = "applyError")
  <2>1. CASE eptr' = eptr
    BY ZenonT(30), <2>1
  <2>2. CASE eptr' = [eptr EXCEPT !.live = FALSE]
    BY ZenonT(30), <1>1, <2>2 DEF Entry
  <2>3. CASE eptr' = [eptr EXCEPT !.queued = FALSE]
    <3>1. /\ eptr'.registered = eptr.registered /\ eptr'.queued = FALSE
          /\ eptr'.chain1 = eptr.chain1 /\ eptr'.chain2 = eptr.chain2
      BY ZenonT(30), <1>1, <2>3 DEF Entry
    <3> QED
      BY ZenonT(30), <3>1
  <2>4. CASE /\ \/ eptr' = [[eptr EXCEPT !.queued = TRUE] EXCEPT !.live = FALSE]
                \/ eptr' = [eptr EXCEPT !.queued = TRUE]
             /\ toMaster # <<>> /\ Head(toMaster).op = "applyError"
    <3>1. /\ eptr'.registered = eptr.registered
          /\ eptr'.chain1 = eptr.chain1 /\ eptr'.chain2 = eptr.chain2
      BY ZenonT(30), <1>1, <2>4 DEF Entry
    <3> QED
      BY ZenonT(30), <2>4, <3>1
  <2> QED
    BY ZenonT(30), <1>6, <2>1, <2>2, <2>3, <2>4
<1>8. \/ toShadow' = toShadow
      \/ \E p \in ToShadowPacket : p.op = "applyError" /\ toShadow' = Append(toShadow, p)
  BY ZenonT(30), <1>2, <1>3, <1>5
<1>9. "applyError" # "change" /\ "applyError" # "file"
  BY ZenonT(30)
<1>10. SameFlow(toShadow, toShadow')
  <2>1. ASSUME NEW p \in ToShadowPacket, p.op = "applyError", toShadow' = Append(toShadow, p), NEW n
        PROVE  /\ Sent(toShadow', n) <=> Sent(toShadow, n)
               /\ After(toShadow', n) <=> After(toShadow, n)
               /\ Carries(toShadow', n) <=> Carries(toShadow, n)
    <3>1. p.op # "change" /\ p.op # "file"
      BY ZenonT(30), <2>1, <1>9
    <3> QED
      BY ZenonT(30), <1>1, <2>1, <3>1, SentSteps
  <2> QED
    BY ZenonT(30), <1>8, <2>1 DEF SameFlow
<1> QED
  BY ZenonT(30), <1>4, <1>5, <1>7, <1>8, <1>10

\* The connection is closed.
LEMMA CloseEffect ==
  ASSUME RInv, Close
  PROVE  /\ ~up' /\ toMaster' = <<>> /\ toShadow' = <<>> /\ ~eptr'.registered /\ ~eptr'.queued
         /\ eptr'.chain1 = <<>> /\ eptr'.chain2 = <<>>
         /\ \A n : ~Sent(toShadow', n) /\ ~After(toShadow', n) /\ ~Carries(toShadow', n)
<1>1. eptr \in Entry /\ toShadow \in Seq(ToShadowPacket)
  BY ZenonT(30) DEF RInv, Types
<1> QED
  BY ZenonT(30), <1>1, SentSteps DEF Close, Closed

\* The metadata is given up: by the shadow itself, or with the process.
LEMMA RestartEffect ==
  ASSUME RInv, ~LostChanges,
         \/ ForceMetadataDownload /\ UNCHANGED master /\ ~loading
         \/ ShadowRestart \/ Promote
  PROVE  /\ Close /\ state' = "none" /\ mem' = None /\ cursor' = NoCursor /\ lastLogVersion' = 0
         /\ downloading' = "nothing" /\ ~loading' /\ ~torn' /\ ~overwritten' /\ log' = log
         /\ UNCHANGED <<loading, todo, lines>> \/ (todo' = <<>> /\ lines' = <<>>)
         /\ \/ UNCHANGED <<sdisk, mdisk, dump, failures>>
            \/ /\ sdisk' = mdisk /\ mdisk' = sdisk /\ dump' = None /\ failures' = 0
               /\ state = "sync" /\ mem = log
<1> USE DEF master, link, loader, shadow, ghosts
<1>1. CASE ForceMetadataDownload /\ UNCHANGED master /\ ~loading
  BY ZenonT(30), <1>1 DEF ForceMetadataDownload, NoGhosts
<1>2. CASE ShadowRestart
  BY ZenonT(30), <1>2 DEF ShadowRestart, FreshShadow, NoGhosts
<1>3. CASE Promote
  BY ZenonT(30), <1>3 DEF Promote, FreshShadow, NoGhosts
<1> QED
  BY ZenonT(30), <1>1, <1>2, <1>3

\* A file is opened: its contents are what the disk or the open descriptors hold.
LEMMA OpenEffect ==
  ASSUME RInv, DownloadStart
  PROVE  /\ UNCHANGED <<log, mdisk, dump, failures, up, mem, sdisk, state, lastLogVersion, downloading,
                        cursor, loading, todo, lines, overwritten>>
         /\ toMaster # <<>> /\ Head(toMaster).op = "start" /\ toMaster' = Tail(toMaster)
         /\ Head(toMaster).file = downloading /\ Absent(toShadow, "file")
         /\ eptr'.registered = eptr.registered /\ eptr'.queued = eptr.queued
         /\ torn' = IF downloading = "metadata" THEN Rotations > 1 ELSE torn
         /\ \E p \in ToShadowPacket :
              /\ toShadow' = Append(toShadow, p) /\ p.op = "file"
              /\ \/ /\ downloading = "metadata" /\ p.data = mdisk.meta
                    /\ eptr'.chain1 = mdisk.cur /\ eptr'.chain2 = mdisk.log1
                 \/ /\ downloading = "changelog" /\ p.data = eptr.chain1
                    /\ eptr'.chain1 = <<>> /\ eptr'.chain2 = eptr.chain2
                 \/ /\ downloading = "changelog1" /\ p.data = eptr.chain2
                    /\ eptr'.chain1 = eptr.chain1 /\ eptr'.chain2 = <<>>
                 \/ downloading = "sessions" /\ eptr'.chain1 = <<>> /\ eptr'.chain2 = <<>>
         /\ \A n : /\ Sent(toShadow', n) <=> Sent(toShadow, n)
                   /\ ~After(toShadow', n) /\ ~Carries(toShadow, n)
<1> USE DEF master, link, loader, shadow, ghosts
<1>1. /\ eptr \in Entry /\ toShadow \in Seq(ToShadowPacket) /\ mdisk \in Disk
      /\ toMaster \in Seq(ToMasterPacket) /\ Traffic
  BY ZenonT(30) DEF RInv, Types
<1>2. /\ UNCHANGED <<log, mdisk, dump, failures, up, mem, sdisk, state, lastLogVersion, downloading,
                     cursor, loading, todo, lines, overwritten>>
      /\ toMaster # <<>> /\ Head(toMaster).op = "start" /\ toMaster' = Tail(toMaster)
  BY ZenonT(30) DEF DownloadStart, FromShadow
<1>3. Head(toMaster).file = downloading /\ Absent(toShadow, "file")
  BY ZenonT(30), <1>1, <1>2, Taken DEF Traffic
<1>4. torn' = IF downloading = "metadata" THEN Rotations > 1 ELSE torn
  BY ZenonT(30), <1>3 DEF DownloadStart
<1> DEFINE Reply(d) == [op |-> "file", file |-> downloading, data |-> d]
           Sends(d) == \E p \in ToShadowPacket : toShadow' = Append(toShadow, p) /\ p.op = "file" /\ p.data = d
<1>5. \/ /\ downloading = "metadata" /\ toShadow' = Append(toShadow, Reply(mdisk.meta))
         /\ eptr' = [eptr EXCEPT !.chain1 = mdisk.cur, !.chain2 = mdisk.log1, !.live = mdisk.cur # <<>>]
      \/ /\ downloading = "changelog" /\ toShadow' = Append(toShadow, Reply(eptr.chain1))
         /\ eptr' = [eptr EXCEPT !.chain1 = <<>>, !.live = FALSE]
      \/ /\ downloading = "changelog1" /\ toShadow' = Append(toShadow, Reply(eptr.chain2))
         /\ eptr' = [eptr EXCEPT !.chain2 = <<>>]
      \/ /\ downloading = "sessions" /\ toShadow' = Append(toShadow, Reply(<<>>))
         /\ eptr' = [eptr EXCEPT !.chain1 = <<>>, !.chain2 = <<>>, !.live = FALSE]
  BY ZenonT(30), <1>3 DEF DownloadStart, ToShadow
<1>6. /\ mdisk.meta \in Seq(Nat) /\ eptr.chain1 \in Seq(Line) /\ eptr.chain2 \in Seq(Line)
      /\ <<>> \in Seq(Nat)
  BY <1>1 DEF Disk, Entry
<1>7. ASSUME NEW d, Reply(d) \in ToShadowPacket, toShadow' = Append(toShadow, Reply(d))
      PROVE  Sends(d)
  <2>1. Reply(d).op = "file" /\ Reply(d).data = d
    BY ZenonT(30)
  <2> HIDE DEF Reply
  <2> QED
    BY ZenonT(30), <1>7, <2>1
<1>8. \/ /\ downloading = "metadata" /\ Sends(mdisk.meta)
         /\ eptr' = [eptr EXCEPT !.chain1 = mdisk.cur, !.chain2 = mdisk.log1, !.live = mdisk.cur # <<>>]
      \/ /\ downloading = "changelog" /\ Sends(eptr.chain1)
         /\ eptr' = [eptr EXCEPT !.chain1 = <<>>, !.live = FALSE]
      \/ /\ downloading = "changelog1" /\ Sends(eptr.chain2)
         /\ eptr' = [eptr EXCEPT !.chain2 = <<>>]
      \/ /\ downloading = "sessions" /\ Sends(<<>>)
         /\ eptr' = [eptr EXCEPT !.chain1 = <<>>, !.chain2 = <<>>, !.live = FALSE]
  <2>1. /\ downloading = "metadata" => Reply(mdisk.meta) \in ToShadowPacket
        /\ downloading = "changelog" => Reply(eptr.chain1) \in ToShadowPacket
        /\ downloading = "changelog1" => Reply(eptr.chain2) \in ToShadowPacket
        /\ downloading = "sessions" => Reply(<<>>) \in ToShadowPacket
    BY ZenonT(30), <1>6, PacketTypes
  <2> HIDE DEF Reply, Sends
  <2> QED
    BY ZenonT(30), <1>5, <1>7, <2>1
<1> HIDE DEF Sends
<1>9. \/ /\ downloading = "metadata" /\ Sends(mdisk.meta)
         /\ eptr'.chain1 = mdisk.cur /\ eptr'.chain2 = mdisk.log1
      \/ /\ downloading = "changelog" /\ Sends(eptr.chain1)
         /\ eptr'.chain1 = <<>> /\ eptr'.chain2 = eptr.chain2
      \/ /\ downloading = "changelog1" /\ Sends(eptr.chain2)
         /\ eptr'.chain1 = eptr.chain1 /\ eptr'.chain2 = <<>>
      \/ downloading = "sessions" /\ Sends(<<>>) /\ eptr'.chain1 = <<>> /\ eptr'.chain2 = <<>>
  <2>1. eptr' = [eptr EXCEPT !.chain1 = mdisk.cur, !.chain2 = mdisk.log1, !.live = mdisk.cur # <<>>] =>
          eptr'.chain1 = mdisk.cur /\ eptr'.chain2 = mdisk.log1
    BY ZenonT(30), <1>1 DEF Entry
  <2>2. eptr' = [eptr EXCEPT !.chain1 = <<>>, !.live = FALSE] =>
          eptr'.chain1 = <<>> /\ eptr'.chain2 = eptr.chain2
    BY ZenonT(30), <1>1 DEF Entry
  <2>3. eptr' = [eptr EXCEPT !.chain2 = <<>>] => eptr'.chain1 = eptr.chain1 /\ eptr'.chain2 = <<>>
    BY ZenonT(30), <1>1 DEF Entry
  <2>4. eptr' = [eptr EXCEPT !.chain1 = <<>>, !.chain2 = <<>>, !.live = FALSE] =>
          eptr'.chain1 = <<>> /\ eptr'.chain2 = <<>>
    BY ZenonT(30), <1>1 DEF Entry
  <2> QED
    BY ZenonT(30), <1>8, <2>1, <2>2, <2>3, <2>4
<1>10. eptr'.registered = eptr.registered /\ eptr'.queued = eptr.queued
  <2>1. \/ \E f, g, b : eptr' = [eptr EXCEPT !.chain1 = f, !.chain2 = g, !.live = b]
        \/ \E f, b : eptr' = [eptr EXCEPT !.chain1 = f, !.live = b]
        \/ \E g : eptr' = [eptr EXCEPT !.chain2 = g]
    BY ZenonT(30), <1>8
  <2> QED
    BY ZenonT(30), <1>1, <2>1 DEF Entry
<1>11. \E d : Sends(d)
  BY ZenonT(30), <1>9
<1>12. \A n : /\ Sent(toShadow', n) <=> Sent(toShadow, n)
              /\ ~After(toShadow', n) /\ ~Carries(toShadow, n)
  <2>1. PICK p \in ToShadowPacket : toShadow' = Append(toShadow, p) /\ p.op = "file"
    BY ZenonT(30), <1>11 DEF Sends
  <2>2. p.op # "change"
    BY ZenonT(30), <2>1
  <2> QED
    BY ZenonT(30), <1>1, <1>3, <2>1, <2>2, SentSteps, SentMore
<1>13. \E p \in ToShadowPacket :
         /\ toShadow' = Append(toShadow, p) /\ p.op = "file"
         /\ \/ /\ downloading = "metadata" /\ p.data = mdisk.meta
               /\ eptr'.chain1 = mdisk.cur /\ eptr'.chain2 = mdisk.log1
            \/ /\ downloading = "changelog" /\ p.data = eptr.chain1
               /\ eptr'.chain1 = <<>> /\ eptr'.chain2 = eptr.chain2
            \/ /\ downloading = "changelog1" /\ p.data = eptr.chain2
               /\ eptr'.chain1 = eptr.chain1 /\ eptr'.chain2 = <<>>
            \/ downloading = "sessions" /\ eptr'.chain1 = <<>> /\ eptr'.chain2 = <<>>
  BY ZenonT(60), <1>9 DEF Sends
<1> QED
  BY ZenonT(30), <1>2, <1>3, <1>4, <1>10, <1>12, <1>13

\* A change is stored, applied as well when synchronized, or refused.
LEMMA ReceiveEffect ==
  ASSUME RInv, MetachangesLog
  PROVE  LET p == Head(toShadow)
             line == [id |-> p.id, change |-> p.change]
             r == Restore(mem, cursor, line)
         IN
         /\ toShadow # <<>> /\ p.op = "change" /\ ~loading /\ line \in Line /\ LineOf(line, log)
         /\ toShadow' = Tail(toShadow)
         /\ UNCHANGED <<log, mdisk, dump, failures, eptr, up, downloading, loading, todo, lines,
                        torn, overwritten>>
         /\ \A n : /\ Sent(toShadow, n) <=> Sent(toShadow', n) \/ p.id = n
                   /\ After(toShadow', n) <=> After(toShadow, n)
                   /\ Carries(toShadow', n) <=> Carries(toShadow, n)
         /\ \/ /\ state' = "dumpPending" /\ UNCHANGED <<sdisk, lastLogVersion>>
               /\ up => toMaster' = Append(toMaster, Request("applyError"))
               /\ ~up => toMaster' = toMaster
               /\ \/ lastLogVersion > 0 /\ UNCHANGED <<mem, cursor>>
                  \/ /\ state = "sync" /\ ~r.ok /\ mem' = r.mem /\ cursor' = r.cursor
                     /\ lastLogVersion = 0 \/ p.id = lastLogVersion + 1
            \/ /\ lastLogVersion = 0 \/ p.id = lastLogVersion + 1
               /\ state' = state /\ toMaster' = toMaster /\ lastLogVersion' = p.id
               /\ sdisk'.meta = sdisk.meta /\ sdisk'.cur = Append(sdisk.cur, line)
               /\ sdisk'.log1 = sdisk.log1 /\ sdisk'.log2 = sdisk.log2
               /\ \/ state # "sync" /\ UNCHANGED <<mem, cursor>>
                  \/ state = "sync" /\ r.ok /\ mem' = r.mem /\ cursor' = r.cursor
<1> USE DEF master, link, loader, shadow, ghosts
<1> DEFINE p == Head(toShadow)
           line == [id |-> p.id, change |-> p.change]
           r == Restore(mem, cursor, line)
<1>1. /\ toShadow # <<>> /\ p.op = "change" /\ ~loading /\ toShadow' = Tail(toShadow)
      /\ UNCHANGED <<log, mdisk, dump, failures, eptr, up, downloading, loading, todo, lines,
                     torn, overwritten>>
  BY ZenonT(30) DEF MetachangesLog, FromMaster, Consumed, RequestMetadataDump
<1>2. LineOf(line, log) /\ line \in Line /\ toShadow \in Seq(ToShadowPacket) /\ sdisk \in Disk
  BY ZenonT(30), <1>1, AtHand DEF RInv, Types, LineOf
<1>3. \A n : /\ Sent(toShadow, n) <=> Sent(toShadow', n) \/ p.id = n
             /\ After(toShadow', n) <=> After(toShadow, n)
             /\ Carries(toShadow', n) <=> Carries(toShadow, n)
  <2>1. p.op # "file"
    BY ZenonT(30), <1>1
  <2> QED
    BY ZenonT(30), <1>1, <1>2, <2>1, SentSteps
<1>4. \/ /\ state' = "dumpPending" /\ UNCHANGED <<sdisk, lastLogVersion>>
         /\ up => toMaster' = Append(toMaster, Request("applyError"))
         /\ ~up => toMaster' = toMaster
         /\ \/ lastLogVersion > 0 /\ UNCHANGED <<mem, cursor>>
            \/ /\ state = "sync" /\ ~r.ok /\ mem' = r.mem /\ cursor' = r.cursor
               /\ lastLogVersion = 0 \/ p.id = lastLogVersion + 1
      \/ /\ lastLogVersion = 0 \/ p.id = lastLogVersion + 1
         /\ state' = state /\ toMaster' = toMaster /\ lastLogVersion' = p.id
         /\ sdisk' = [sdisk EXCEPT !.cur = Append(sdisk.cur, line)]
         /\ \/ state # "sync" /\ UNCHANGED <<mem, cursor>>
            \/ state = "sync" /\ r.ok /\ mem' = r.mem /\ cursor' = r.cursor
  BY ZenonT(60) DEF MetachangesLog, RequestMetadataDump, ToMaster
<1>5. sdisk' = [sdisk EXCEPT !.cur = Append(sdisk.cur, line)] =>
        /\ sdisk'.meta = sdisk.meta /\ sdisk'.cur = Append(sdisk.cur, line)
        /\ sdisk'.log1 = sdisk.log1 /\ sdisk'.log2 = sdisk.log2
  BY ZenonT(30), <1>2 DEF Disk
<1> QED
  BY ZenonT(60), <1>1, <1>2, <1>3, <1>4, <1>5

\* A file takes its place; after the last one the replay begins.
LEMMA FileEffect ==
  ASSUME RInv, DownloadNext
  PROVE  LET data == Head(toShadow).data IN
         /\ toShadow # <<>> /\ Head(toShadow).op = "file" /\ Head(toShadow).file = downloading
         /\ ~loading /\ toShadow' = Tail(toShadow) /\ Absent(toShadow', "file")
         /\ UNCHANGED <<log, mdisk, dump, failures, eptr, up, state, lastLogVersion, cursor, lines, torn>>
         /\ \A n : /\ Sent(toShadow', n) <=> Sent(toShadow, n)
                   /\ After(toShadow, n) <=> Sent(toShadow', n)
                   /\ ~After(toShadow', n) /\ ~Carries(toShadow', n)
                   /\ Carries(toShadow, n) <=> n = data
         /\ \/ toMaster' = toMaster
            \/ up /\ \E f \in Files : toMaster' = Append(toMaster, RequestFile(f))
         /\ \/ /\ downloading = "metadata" /\ downloading' = "changelog" /\ ~overwritten'
               /\ sdisk'.meta = data /\ sdisk'.cur = sdisk.cur
               /\ sdisk'.log1 = sdisk.log1 /\ sdisk'.log2 = sdisk.log2
               /\ UNCHANGED <<mem, loading, todo>>
            \/ /\ downloading = "changelog" /\ downloading' = "changelog1"
               /\ sdisk'.meta = sdisk.meta /\ sdisk'.cur = sdisk.cur
               /\ sdisk'.log1 = data /\ sdisk'.log2 = sdisk.log2
               /\ UNCHANGED <<mem, loading, todo, overwritten>>
            \/ /\ downloading = "changelog1" /\ downloading' = "sessions"
               /\ sdisk'.meta = sdisk.meta /\ sdisk'.cur = sdisk.cur
               /\ sdisk'.log1 = sdisk.log1 /\ sdisk'.log2 = data
               /\ UNCHANGED <<mem, loading, todo, overwritten>>
            \/ /\ downloading = "sessions" /\ downloading' = "nothing" /\ UNCHANGED <<sdisk, overwritten>>
               /\ \/ /\ state = "downloading" /\ loading' /\ mem' = sdisk.meta
                     /\ todo' = <<sdisk.log2, sdisk.log1, sdisk.cur>>
                  \/ state # "downloading" /\ UNCHANGED <<mem, loading, todo>>
<1> USE DEF master, link, loader, shadow, ghosts
<1> DEFINE data == Head(toShadow).data
<1>1. /\ toShadow # <<>> /\ Head(toShadow).op = "file" /\ ~loading /\ toShadow' = Tail(toShadow)
      /\ UNCHANGED <<log, mdisk, dump, failures, eptr, up, state, lastLogVersion, cursor, lines, torn>>
  BY ZenonT(30) DEF DownloadNext, FromMaster, Consumed
<1>2. toShadow \in Seq(ToShadowPacket) /\ Tail(toShadow) \in Seq(ToShadowPacket) /\ sdisk \in Disk /\ Traffic
  BY ZenonT(30), <1>1, AtHand DEF RInv, Types
<1>3. Head(toShadow).file = downloading /\ Absent(toShadow', "file")
  BY ZenonT(30), <1>1, <1>2, Taken DEF Traffic
<1>4. \A n : /\ Sent(toShadow', n) <=> Sent(toShadow, n)
             /\ After(toShadow, n) <=> Sent(toShadow', n)
             /\ ~After(toShadow', n) /\ ~Carries(toShadow', n)
             /\ Carries(toShadow, n) <=> n = data
  <2>1. Head(toShadow).op # "change"
    BY ZenonT(30), <1>1
  <2>2. \A n : ~After(Tail(toShadow), n) /\ ~Carries(Tail(toShadow), n)
    BY ZenonT(30), <1>1, <1>2, <1>3, SentMore
  <2> QED
    BY ZenonT(30), <1>1, <1>2, <2>1, <2>2, SentSteps
<1>5. \/ toMaster' = toMaster
      \/ up /\ \E f \in Files : toMaster' = Append(toMaster, RequestFile(f))
  BY ZenonT(30) DEF DownloadNext, ToMaster, Files
<1>6. \/ /\ downloading = "metadata" /\ downloading' = "changelog" /\ ~overwritten'
         /\ sdisk' = [sdisk EXCEPT !.meta = data] /\ UNCHANGED <<mem, loading, todo>>
      \/ /\ downloading = "changelog" /\ downloading' = "changelog1"
         /\ sdisk' = [sdisk EXCEPT !.log1 = data] /\ UNCHANGED <<mem, loading, todo, overwritten>>
      \/ /\ downloading = "changelog1" /\ downloading' = "sessions"
         /\ sdisk' = [sdisk EXCEPT !.log2 = data] /\ UNCHANGED <<mem, loading, todo, overwritten>>
      \/ /\ downloading = "sessions" /\ downloading' = "nothing" /\ UNCHANGED <<sdisk, overwritten>>
         /\ \/ /\ state = "downloading" /\ loading' /\ mem' = sdisk.meta
               /\ todo' = <<sdisk.log2, sdisk.log1, sdisk.cur>>
            \/ state # "downloading" /\ UNCHANGED <<mem, loading, todo>>
  BY ZenonT(60) DEF DownloadNext
<1>7. /\ sdisk' = [sdisk EXCEPT !.meta = data] =>
           /\ sdisk'.meta = data /\ sdisk'.cur = sdisk.cur
           /\ sdisk'.log1 = sdisk.log1 /\ sdisk'.log2 = sdisk.log2
      /\ sdisk' = [sdisk EXCEPT !.log1 = data] =>
           /\ sdisk'.meta = sdisk.meta /\ sdisk'.cur = sdisk.cur
           /\ sdisk'.log1 = data /\ sdisk'.log2 = sdisk.log2
      /\ sdisk' = [sdisk EXCEPT !.log2 = data] =>
           /\ sdisk'.meta = sdisk.meta /\ sdisk'.cur = sdisk.cur
           /\ sdisk'.log1 = sdisk.log1 /\ sdisk'.log2 = data
  BY ZenonT(30), <1>2 DEF Disk
<1> QED
  BY ZenonT(60), <1>1, <1>3, <1>4, <1>5, <1>6, <1>7

-----------------------------------------------------------------------------
(* Registration *)

\* The first packet of a queue that grows.
LEMMA HeadSteps ==
  ASSUME NEW S, NEW s \in Seq(S), NEW p \in S
  PROVE  /\ Append(s, p) # <<>> /\ (s # <<>> => Head(Append(s, p)) = Head(s))
         /\ s = <<>> => Head(Append(s, p)) = p
OBVIOUS

\* The shadow takes a packet: it is registered and the reply is behind it.
LEMMA ConsumedKeeps ==
  ASSUME RInv, Registration, toShadow # <<>>, toShadow' = Tail(toShadow)
  PROVE  /\ eptr.registered /\ First(toShadow', "registered")
         /\ Absent(toShadow', "registered")
         /\ toShadow' # <<>> => Head(toShadow').op # "registered"
<1>1. toShadow \in Seq(ToShadowPacket) /\ Tail(toShadow) \in Seq(ToShadowPacket)
  BY ZenonT(30), AtHand DEF RInv, Types
<1>2. First(toShadow', "registered") /\ Absent(toShadow', "registered")
  BY ZenonT(30), <1>1, FirstSteps DEF Registration
<1> QED
  BY ZenonT(30), <1>1, <1>2, Taken DEF Registration

\* Nothing precedes the registration, and its reply is followed by the changes.
LEMMA RegistrationStep ==
  ASSUME RInv, ~LostChanges, Registration, [Next]_vars
  PROVE  Registration'
\* What is sent to the master after the registration does not disturb it.
<1>RequestKeeps.
  ASSUME RInv, Registration,
         \/ toMaster' = toMaster
         \/ up /\ \E p \in ToMasterPacket : p.op # "register" /\ toMaster' = Append(toMaster, p)
  PROVE  /\ First(toMaster', "register")
         /\ ~Absent(toMaster', "register") => ~eptr.registered
         /\ up /\ ~eptr.registered => toMaster' # <<>> /\ Head(toMaster').op = "register"
  <2> USE <1>RequestKeeps
  <2>1. toMaster \in Seq(ToMasterPacket)
    BY ZenonT(30) DEF RInv, Types
  <2>2. CASE toMaster' = toMaster
    BY ZenonT(30), <2>2 DEF Registration
  <2>3. ASSUME up, NEW p \in ToMasterPacket, p.op # "register", toMaster' = Append(toMaster, p)
        PROVE  /\ First(toMaster', "register")
               /\ ~Absent(toMaster', "register") => ~eptr.registered
               /\ ~eptr.registered => toMaster' # <<>> /\ Head(toMaster').op = "register"
    <3>1. First(toMaster', "register")
      BY ZenonT(30), <2>1, <2>3, FirstSteps DEF Registration
    <3>2. Absent(toMaster, "register") => Absent(toMaster', "register")
      BY ZenonT(30), <2>1, <2>3, Added
    <3>3. toMaster # <<>> => toMaster' # <<>> /\ Head(toMaster') = Head(toMaster)
      BY ZenonT(30), <2>1, <2>3, HeadSteps
    <3> QED
      BY ZenonT(30), <2>3, <3>1, <3>2, <3>3 DEF Registration
  <2> QED
    BY ZenonT(30), <2>2, <2>3
\* The master takes a packet that is not a registration: the shadow is registered.
<1>TakenKeeps.
  ASSUME RInv, Registration, toMaster # <<>>, Head(toMaster).op # "register", toMaster' = Tail(toMaster)
  PROVE  eptr.registered /\ First(toMaster', "register") /\ Absent(toMaster', "register")
  <2> USE <1>TakenKeeps
  <2>1. toMaster \in Seq(ToMasterPacket) /\ up
    BY ZenonT(30) DEF RInv, Types, Traffic
  <2> QED
    BY ZenonT(30), <2>1, FirstSteps DEF Registration
<1> USE DEF master, link, loader, shadow, ghosts
<1>1. /\ toMaster \in Seq(ToMasterPacket) /\ toShadow \in Seq(ToShadowPacket)
      /\ Registration /\ eptr \in Entry /\ log \in Seq(Nat)
      /\ ~up => toMaster = <<>> /\ toShadow = <<>> /\ ~eptr.registered /\ ~eptr.queued
  BY ZenonT(30) DEF RInv, Types, Traffic
<1>2. First(<<>>, "register") /\ First(<<>>, "registered") /\ Absent(<<>>, "register")
  BY ZenonT(30), <1>1, FirstSteps, Cleared
<1>3. CASE Close /\ downloading' = "nothing"
  BY ZenonT(30), <1>2, <1>3, CloseEffect DEF Registration
<1>4. CASE /\ UNCHANGED <<eptr, up, log>>
           /\ \/ toMaster' = toMaster
              \/ up /\ \E p \in ToMasterPacket : p.op # "register" /\ toMaster' = Append(toMaster, p)
           /\ \/ toShadow' = toShadow
              \/ toShadow # <<>> /\ toShadow' = Tail(toShadow)
           /\ \/ toShadow # <<>> \/ state' # "downloading"
              \/ state' = state /\ downloading' = downloading
  <2>1. CASE toShadow' = toShadow
    BY ZenonT(60), <1>4, <2>1, <1>RequestKeeps DEF Registration
  <2>2. CASE toShadow # <<>> /\ toShadow' = Tail(toShadow)
    BY ZenonT(60), <1>4, <2>2, <1>RequestKeeps, ConsumedKeeps DEF Registration
  <2> QED
    BY ZenonT(30), <1>4, <2>1, <2>2
<1>5. CASE MasterChange
  <2>1. /\ UNCHANGED <<up, toMaster, state, downloading>>
        /\ eptr'.registered = eptr.registered /\ eptr'.queued = eptr.queued
        /\ Len(log') = Len(log) + 1
    BY ZenonT(30), <1>5, ChangeEffect
  <2>2. CASE ~eptr.registered
    <3>1. toShadow' = toShadow /\ toShadow = <<>>
      BY ZenonT(30), <1>1, <1>5, <2>2, ChangeEffect DEF Registration
    <3> QED
      BY ZenonT(30), <1>1, <2>1, <3>1 DEF Registration
  <2>3. CASE eptr.registered
    <3>1. PICK r \in Line :
            /\ r.id = Len(log) + 1
            /\ toShadow' = Append(toShadow, [op |-> "change", id |-> r.id, change |-> r.change])
      BY ZenonT(30), <1>5, <2>3, ChangeEffect
    <3> DEFINE p == [op |-> "change", id |-> r.id, change |-> r.change]
    <3>2. p \in ToShadowPacket /\ p.op # "registered"
      BY ZenonT(30), <3>1, PacketTypes DEF Line
    <3>3. toShadow' = Append(toShadow, p)
      BY ZenonT(30), <3>1
    <3> HIDE DEF p
    <3>4. First(toShadow', "registered") /\ toShadow' # <<>>
      BY ZenonT(30), <1>1, <3>2, <3>3, FirstSteps, HeadSteps DEF Registration
    <3>5. \A n : Sent(toShadow', n) <=> Sent(toShadow, n) \/ n = Len(log) + 1
      BY ZenonT(30), <1>5, <2>3, ChangeFlow
    <3>6. ASSUME Head(toShadow').op = "registered", NEW n \in 1..Len(log'), n >= Head(toShadow').version
          PROVE  Sent(toShadow', n)
      <4>1. toShadow # <<>> /\ Head(toShadow') = Head(toShadow)
        BY ZenonT(30), <1>1, <3>2, <3>3, <3>6, HeadSteps
      <4>2. n \in 1..Len(log) \/ n = Len(log) + 1
        BY <1>1, <2>1
      <4> QED
        BY ZenonT(30), <1>1, <3>5, <3>6, <4>1, <4>2 DEF Registration
    <3> QED
      BY ZenonT(30), <1>1, <2>1, <2>3, <3>4, <3>6 DEF Registration
  <2> QED
    BY ZenonT(30), <2>2, <2>3
<1>6. CASE PeriodicDump \/ FinishDump \/ FailDump \/ PeriodPasses \/ ChangelogApplyErrorRequest
  <2>1. /\ UNCHANGED <<log, up, state, downloading>> /\ eptr'.registered = eptr.registered
        /\ SameFlow(toShadow, toShadow')
        /\ \/ toMaster' = toMaster
           \/ toMaster # <<>> /\ Head(toMaster).op = "applyError" /\ toMaster' = Tail(toMaster)
        /\ \/ toShadow' = toShadow
           \/ \E p \in ToShadowPacket : p.op = "applyError" /\ toShadow' = Append(toShadow, p)
        /\ (eptr'.queued \/ toShadow' # toShadow) =>
             eptr.queued \/ (toMaster # <<>> /\ Head(toMaster).op = "applyError")
    BY ZenonT(30), <1>6, DumpEffect
  <2>2. "applyError" # "register" /\ "applyError" # "registered"
    BY ZenonT(30)
  <2>3. /\ First(toMaster', "register") /\ (~Absent(toMaster', "register") => ~eptr.registered)
        /\ up /\ ~eptr.registered => toMaster' # <<>> /\ Head(toMaster').op = "register"
    BY ZenonT(30), <1>1, <2>1, <2>2, <1>RequestKeeps, <1>TakenKeeps
  <2>4. ~eptr.registered => toShadow' = <<>> /\ ~eptr'.queued
    BY ZenonT(30), <1>1, <2>1, <2>2 DEF Registration
  <2>5. /\ First(toShadow', "registered")
        /\ toShadow' # <<>> /\ Head(toShadow').op = "registered" =>
             toShadow # <<>> /\ Head(toShadow') = Head(toShadow)
    <3>1. ASSUME NEW p \in ToShadowPacket, p.op = "applyError", toShadow' = Append(toShadow, p)
          PROVE  /\ First(toShadow', "registered")
                 /\ toShadow' # <<>> /\ Head(toShadow').op = "registered" =>
                      toShadow # <<>> /\ Head(toShadow') = Head(toShadow)
      BY ZenonT(30), <1>1, <2>2, <3>1, FirstSteps, HeadSteps DEF Registration
    <3> QED
      BY ZenonT(30), <1>1, <2>1, <3>1 DEF Registration
  <2> QED
    BY ZenonT(60), <1>1, <2>1, <2>3, <2>4, <2>5 DEF Registration, SameFlow
<1>7. CASE RegisterShadow
  <2>1. /\ toMaster # <<>> /\ Head(toMaster).op = "register" /\ toMaster' = Tail(toMaster)
        /\ UNCHANGED <<log, up, state>> /\ eptr' = [eptr EXCEPT !.registered = TRUE]
    BY ZenonT(30), <1>7 DEF RegisterShadow, FromShadow
  <2>2. eptr'.registered
    BY ZenonT(30), <1>1, <2>1 DEF Entry
  <2>3. toShadow = <<>> /\ First(toMaster', "register") /\ Absent(toMaster', "register")
    BY ZenonT(30), <1>1, <2>1, Taken, FirstSteps DEF Registration
  <2> QED
    BY ZenonT(30), <1>7, <2>1, <2>2, <2>3, RegisterFacts DEF Registration
<1>8. CASE DownloadStart
  <2>1. /\ UNCHANGED <<log, up, state, downloading>> /\ eptr'.registered = eptr.registered
        /\ toMaster # <<>> /\ Head(toMaster).op = "start" /\ toMaster' = Tail(toMaster)
        /\ \E p \in ToShadowPacket : p.op = "file" /\ toShadow' = Append(toShadow, p)
        /\ \A n : Sent(toShadow', n) <=> Sent(toShadow, n)
    BY ZenonT(30), <1>8, OpenEffect
  <2>2. "start" # "register" /\ "file" # "registered"
    BY ZenonT(30)
  <2>3. eptr.registered /\ First(toMaster', "register") /\ Absent(toMaster', "register")
    BY ZenonT(30), <2>1, <2>2, <1>TakenKeeps
  <2>4. /\ First(toShadow', "registered")
        /\ toShadow' # <<>> /\ Head(toShadow').op = "registered" =>
             toShadow # <<>> /\ Head(toShadow') = Head(toShadow)
    <3>1. PICK p \in ToShadowPacket : p.op = "file" /\ toShadow' = Append(toShadow, p)
      BY ZenonT(30), <2>1
    <3>2. p.op # "registered"
      BY ZenonT(30), <2>2, <3>1
    <3>3. First(Append(toShadow, p), "registered")
      BY ZenonT(30), <1>1, <3>2, FirstSteps DEF Registration
    <3>4. \/ toShadow = <<>> /\ Head(Append(toShadow, p)) = p
          \/ toShadow # <<>> /\ Head(Append(toShadow, p)) = Head(toShadow)
      BY ZenonT(30), <1>1, HeadSteps
    <3> QED
      BY ZenonT(30), <3>1, <3>2, <3>3, <3>4
  <2> QED
    BY ZenonT(60), <1>1, <2>1, <2>3, <2>4 DEF Registration
<1>9. CASE Connect
  <2> DEFINE r == [op |-> "register", version |-> IF state = "sync" THEN Version(mem) ELSE 0]
  <2>1. /\ ~up /\ UNCHANGED <<eptr, toShadow, log>>
        /\ state' = "downloading" => downloading' = "metadata" \/ downloading' = "nothing"
        /\ \/ toMaster' = <<r, RequestFile("metadata")>>
           \/ toMaster' = <<r, Request("applyError")>> \/ toMaster' = <<r>>
    BY ZenonT(30), <1>9 DEF Connect
  <2>2. r.op = "register" /\ RequestFile("metadata").op # "register" /\ Request("applyError").op # "register"
    BY ZenonT(30) DEF RequestFile, Request
  <2> HIDE DEF r
  <2>3. First(toMaster', "register") /\ toMaster' # <<>> /\ Head(toMaster').op = "register"
    BY SMTT(30), <2>1, <2>2 DEF First
  <2> QED
    BY ZenonT(30), <1>1, <2>1, <2>3 DEF Registration
<1>10. CASE OnRegistered \/ ChangelogApplyError
  <2>1. CASE ForceMetadataDownload
    BY ZenonT(30), <1>3, <2>1 DEF ForceMetadataDownload
  <2>2. CASE /\ UNCHANGED <<eptr, up, log, toMaster>> /\ toShadow # <<>> /\ toShadow' = Tail(toShadow)
    BY ZenonT(30), <1>4, <2>2
  <2> QED
    BY ZenonT(30), <1>10, <2>1, <2>2 DEF OnRegistered, ChangelogApplyError, FromMaster, Consumed
<1>11. /\ Request("applyError") \in ToMasterPacket /\ Request("applyError").op # "register"
       /\ \A f \in Files : RequestFile(f) \in ToMasterPacket /\ RequestFile(f).op # "register"
  <2>1. Request("applyError").op # "register" /\ \A f : RequestFile(f).op # "register"
    BY ZenonT(30) DEF Request, RequestFile
  <2> QED
    BY ZenonT(30), <2>1, PacketTypes
<1>12. CASE MetachangesLog
  <2>1. /\ UNCHANGED <<eptr, up, log>> /\ toShadow # <<>> /\ toShadow' = Tail(toShadow)
        /\ toMaster' = toMaster \/ (up /\ toMaster' = Append(toMaster, Request("applyError")))
    BY ZenonT(30), <1>12, ReceiveEffect
  <2> QED
    BY ZenonT(30), <1>4, <1>11, <2>1
<1>13. CASE DownloadNext
  <2>1. /\ UNCHANGED <<eptr, up, log>> /\ toShadow # <<>> /\ toShadow' = Tail(toShadow)
        /\ \/ toMaster' = toMaster
           \/ up /\ \E f \in Files : toMaster' = Append(toMaster, RequestFile(f))
    BY ZenonT(30), <1>13, FileEffect
  <2> QED
    BY ZenonT(30), <1>4, <1>11, <2>1
<1>14. CASE OpenChangelog \/ LoadLine \/ RetryDumpRequest
  <2>1. /\ UNCHANGED <<eptr, up, log, toShadow>>
        /\ toMaster' = toMaster \/ (up /\ toMaster' = Append(toMaster, Request("applyError")))
        /\ state' = "dumpPending" \/ state' = state
        /\ downloading' = downloading
    BY ZenonT(30), <1>14 DEF OpenChangelog, LoadLine, RetryDumpRequest, RequestMetadataDump, ToMaster
  <2> QED
    BY ZenonT(30), <1>4, <1>11, <2>1
<1>15. CASE SessionsDownload
  <2>1. /\ UNCHANGED <<eptr, up, log, toShadow>> /\ up
        /\ toMaster' = Append(toMaster, RequestFile("sessions")) /\ state' = "sync"
    BY ZenonT(30), <1>15 DEF SessionsDownload, ToMaster
  <2>2. "sessions" \in Files
    BY ZenonT(30) DEF Files
  <2> QED
    BY ZenonT(30), <1>4, <1>11, <2>1, <2>2
<1>16. CASE FinishLoad \/ ShadowDump \/ UNCHANGED vars
  BY ZenonT(30), <1>4, <1>16 DEF FinishLoad, ShadowDump, vars
<1>17. CASE DownloadFails
  BY ZenonT(30), <1>4, <1>17 DEF DownloadFails, Consumed
<1>18. CASE Disconnect \/ ShadowRestart \/ MasterRestart \/ Promote
  BY ZenonT(30), <1>3, <1>18 DEF Disconnect, ShadowRestart, MasterRestart, Promote, FreshShadow
<1> QED
  BY ZenonT(30), <1>5, <1>6, <1>7, <1>8, <1>9, <1>10, <1>12, <1>13, <1>14, <1>15, <1>16,
     <1>17, <1>18 DEF Next

-----------------------------------------------------------------------------
(* The master's changelogs *)

\* What its metadata.sfs lacks stays in the master's changelogs until the second rotation.
LEMMA MasterCoversStep ==
  ASSUME RInv, FlagTypes, ~LostChanges, MasterCovers, Stored, [Next]_vars
  PROVE  MasterCovers'
<1> USE DEF master, link, loader, shadow, ghosts
<1>1. /\ mdisk \in Disk /\ sdisk \in Disk /\ log \in Seq(Nat) /\ failures \in Nat /\ MasterCovers
      /\ log # None
  BY ZenonT(30), ReplicationAssumption DEF RInv, Types, FlagTypes
<1>2. CASE UNCHANGED <<log, mdisk, dump, failures>>
  BY ZenonT(30), <1>1, <1>2 DEF MasterCovers, Rotations
<1>3. CASE MasterChange
  <2>1. PICK r \in Line : /\ r.id = Len(log) + 1 /\ mdisk'.meta = mdisk.meta
                          /\ mdisk'.cur = Append(mdisk.cur, r) /\ mdisk'.log1 = mdisk.log1
    BY ZenonT(30), <1>3, ChangeEffect
  <2>2. Len(log') = Len(log) + 1 /\ UNCHANGED <<dump, failures>>
    BY ZenonT(30), <1>3, ChangeEffect
  <2>3. mdisk.cur \in Seq(Line)
    BY ZenonT(30), <1>1 DEF Disk
  <2>4. \A n : Has(mdisk'.cur, n) <=> Has(mdisk.cur, n) \/ n = Len(log) + 1
    <3>1. \A n : Has(Append(mdisk.cur, r), n) <=> Has(mdisk.cur, n) \/ r.id = n
      BY ZenonT(30), <2>3, HasSteps
    <3> QED
      BY ZenonT(30), <2>1, <3>1
  <2>5. \A h, n : Lacks(h, log', n) => Lacks(h, log, n) \/ n = Len(log) + 1
    BY <1>1, <2>2 DEF Lacks
  <2>6. Rotations' = Rotations
    BY ZenonT(30), <2>2 DEF Rotations
  <2> QED
    BY ZenonT(60), <1>1, <2>1, <2>2, <2>4, <2>5, <2>6 DEF MasterCovers
<1>4. \A n : ~Lacks(log, log, n)
  BY <1>1 DEF Lacks
<1>5. CASE /\ dump = None /\ dump' = log /\ mdisk' = Rotate(mdisk) /\ UNCHANGED <<log, failures>>
  <2>1. mdisk'.meta = mdisk.meta /\ mdisk'.log1 = mdisk.cur
    BY ZenonT(30), <1>1, <1>5 DEF Rotate, Disk
  <2>2. Rotations = failures /\ Rotations' = failures + 1
    BY <1>1, <1>5 DEF Rotations
  <2>3. Rotations' # 0 /\ (Rotations' = 1 => Rotations = 0)
    BY <1>1, <2>2
  <2> QED
    BY ZenonT(30), <1>1, <1>4, <1>5, <2>1, <2>3 DEF MasterCovers
<1>6. CASE FinishDump
  <2>1. /\ dump # None /\ dump' = None /\ failures' = 0 /\ log' = log
        /\ mdisk' = [mdisk EXCEPT !.meta = dump]
    BY ZenonT(30), <1>6 DEF FinishDump
  <2>2. mdisk'.meta = dump /\ mdisk'.cur = mdisk.cur
    BY ZenonT(30), <1>1, <2>1 DEF Disk
  <2>3. Rotations' = 0 /\ Rotations' # 1
    BY <2>1 DEF Rotations
  <2> QED
    BY ZenonT(30), <1>1, <2>1, <2>2, <2>3 DEF MasterCovers
<1>7. CASE FailDump
  <2>1. dump # None /\ dump' = None /\ failures' = failures + 1 /\ UNCHANGED <<log, mdisk>>
    BY ZenonT(30), <1>7 DEF FailDump
  <2>2. Rotations' = Rotations
    BY <1>1, <2>1 DEF Rotations
  <2> QED
    BY ZenonT(30), <1>1, <2>1, <2>2 DEF MasterCovers
<1>8. CASE MasterRestart
  <2>1. dump' = None /\ failures' = 0 /\ log' = log /\ mdisk' = Dumped(mdisk, log)
    BY ZenonT(30), <1>8 DEF MasterRestart
  <2>2. mdisk'.meta = log
    BY ZenonT(30), <1>1, <2>1 DEF Dumped, Rotate, Disk
  <2> QED
    BY ZenonT(30), <1>4, <2>1, <2>2 DEF MasterCovers
<1>9. CASE Promote
  <2>1. dump' = None /\ failures' = 0 /\ log' = log /\ mdisk' = sdisk /\ state = "sync" /\ mem = log
    BY ZenonT(30), <1>9 DEF Promote
  <2>2. Rotations' # 1
    BY <2>1 DEF Rotations
  <2> QED
    BY ZenonT(30), <2>1, <2>2 DEF MasterCovers, Stored
<1>10. CASE PeriodicDump \/ PeriodPasses
  BY ZenonT(30), <1>2, <1>5, <1>10 DEF PeriodicDump, PeriodPasses, StartDump
<1>11. CASE RegisterShadow \/ DownloadStart \/ ChangelogApplyErrorRequest
  BY ZenonT(30), <1>2, <1>5, <1>11 DEF RegisterShadow, DownloadStart, ChangelogApplyErrorRequest,
                                       FromShadow, StartDump
<1>12. CASE OnRegistered \/ MetachangesLog \/ DownloadNext \/ ChangelogApplyError
  BY ZenonT(30), <1>2, <1>12 DEF OnRegistered, MetachangesLog, DownloadNext, ChangelogApplyError, FromMaster
<1>13. CASE Connect \/ OpenChangelog \/ LoadLine \/ FinishLoad \/ RetryDumpRequest
  BY ZenonT(30), <1>2, <1>13 DEF Connect, OpenChangelog, LoadLine, FinishLoad, RetryDumpRequest
<1>14. CASE SessionsDownload \/ ShadowDump \/ Disconnect \/ DownloadFails \/ ShadowRestart
  BY ZenonT(30), <1>2, <1>14 DEF SessionsDownload, ShadowDump, Disconnect, DownloadFails, ShadowRestart
<1>15. CASE UNCHANGED vars
  BY ZenonT(30), <1>2, <1>15 DEF vars
<1> QED
  BY ZenonT(30), <1>3, <1>6, <1>7, <1>8, <1>9, <1>10, <1>11, <1>12, <1>13, <1>14, <1>15 DEF Next

-----------------------------------------------------------------------------
(* The last line of a changelog *)

\* In every changelog the last line has the greatest number.
LEMMA AllCappedStep ==
  ASSUME RInv, FlagTypes, ~LostChanges, AllCapped, Registration, Stored, [Next]_vars
  PROVE  AllCapped'
\* Rotation and a new metadata.sfs leave the changelogs as they are.
<1>CappedSteps.
  ASSUME NEW d \in Disk, DiskCapped(d)
  PROVE  /\ DiskCapped(Rotate(d))
         /\ \A h : DiskCapped(Dumped(d, h)) /\ DiskCapped([d EXCEPT !.meta = h])
  <2> USE <1>CappedSteps
  <2>1. Capped(<<>>)
    BY DEF Capped
  <2>2. Rotate(d).cur = <<>> /\ Rotate(d).log1 = d.cur /\ Rotate(d).log2 = d.log1
    BY ZenonT(30) DEF Disk, Rotate
  <2>3. ASSUME NEW h
        PROVE  /\ Dumped(d, h).cur = <<>> /\ Dumped(d, h).log1 = d.cur /\ Dumped(d, h).log2 = d.log1
               /\ LET e == [d EXCEPT !.meta = h] IN e.cur = d.cur /\ e.log1 = d.log1 /\ e.log2 = d.log2
    BY ZenonT(30) DEF Disk, Rotate, Dumped
  <2> QED
    BY ZenonT(30), <2>1, <2>2, <2>3 DEF DiskCapped
\* The line of a new change has the greatest number in any file of the master.
<1>NewestCapped.
  ASSUME NEW l \in Seq(Nat), NEW f, FileOf(f, l), NEW r \in Line, r.id = Len(l) + 1
  PROVE  Capped(Append(f, r))
  <2> USE <1>NewestCapped
  <2>1. f \in Seq(Line)
    BY ZenonT(30) DEF FileOf
  <2>2. \A n \in Nat : Has(f, n) => n <= r.id
    <3>1. \A n \in 1..Len(l) : n <= r.id
      OBVIOUS
    <3> QED
      BY ZenonT(30), <3>1, HasOf
  <2> QED
    BY ZenonT(30), <2>1, <2>2, HasSteps
<1> USE DEF master, link, loader, shadow, ghosts
<1>1. /\ mdisk \in Disk /\ sdisk \in Disk /\ log \in Seq(Nat) /\ eptr \in Entry /\ AllCapped
      /\ FileOf(mdisk.cur, log) /\ FileOf(eptr.chain1, log) /\ Capped(<<>>)
      /\ toShadow \in Seq(ToShadowPacket) /\ todo \in Seq(Seq(Line)) /\ lastLogVersion \in Nat
  BY ZenonT(30), HasSteps DEF RInv, Types, FlagTypes, MasterFiles, DiskOf, FileOf
<1>2. CASE /\ UNCHANGED <<mdisk, sdisk, todo>>
           /\ eptr'.chain1 = eptr.chain1 /\ eptr'.chain2 = eptr.chain2
           /\ \/ downloading' \notin {"changelog", "changelog1"}
              \/ \A f : ~Carries(toShadow', f)
              \/ downloading' = downloading /\ \A f : Carries(toShadow', f) <=> Carries(toShadow, f)
  BY ZenonT(30), <1>1, <1>2 DEF AllCapped
<1>3. CASE /\ Close /\ downloading' = "nothing" /\ DiskCapped(mdisk') /\ DiskCapped(sdisk')
           /\ \A i \in 1..Len(todo') : Capped(todo'[i])
  BY ZenonT(30), <1>1, <1>3, CloseEffect DEF AllCapped
<1>4. CASE MasterChange
  <2>1. PICK r \in Line : /\ r.id = Len(log) + 1
                          /\ mdisk'.cur = Append(mdisk.cur, r)
                          /\ mdisk'.log1 = mdisk.log1 /\ mdisk'.log2 = mdisk.log2
                          /\ eptr'.chain1 \in {eptr.chain1, Append(eptr.chain1, r)}
                          /\ eptr'.chain2 = eptr.chain2
    BY ZenonT(30), <1>4, ChangeEffect
  <2>2. Capped(Append(mdisk.cur, r)) /\ Capped(Append(eptr.chain1, r))
    BY ZenonT(30), <1>1, <2>1, <1>NewestCapped
  <2>3. UNCHANGED <<sdisk, todo, downloading>> /\ \A f : Carries(toShadow', f) <=> Carries(toShadow, f)
    BY ZenonT(30), <1>4, ChangeEffect, ChangeFlow
  <2> QED
    BY ZenonT(30), <1>1, <2>1, <2>2, <2>3 DEF AllCapped, DiskCapped
<1>5. CASE PeriodicDump \/ FinishDump \/ FailDump \/ PeriodPasses \/ ChangelogApplyErrorRequest
  <2>1. /\ UNCHANGED <<sdisk, todo, downloading>>
        /\ eptr'.chain1 = eptr.chain1 /\ eptr'.chain2 = eptr.chain2
        /\ SameFlow(toShadow, toShadow')
    BY ZenonT(30), <1>5, DumpEffect
  <2>2. mdisk' = mdisk \/ mdisk' = Rotate(mdisk) \/ mdisk' = [mdisk EXCEPT !.meta = dump]
    BY ZenonT(30), <1>5 DEF PeriodicDump, FinishDump, FailDump, PeriodPasses, ChangelogApplyErrorRequest,
                            StartDump
  <2>3. DiskCapped(mdisk')
    BY ZenonT(30), <1>1, <2>2, <1>CappedSteps DEF AllCapped
  <2> QED
    BY ZenonT(30), <1>1, <2>1, <2>3 DEF AllCapped, SameFlow
<1>6. CASE RegisterShadow
  <2>1. /\ UNCHANGED <<mdisk, sdisk, todo>> /\ eptr' = [eptr EXCEPT !.registered = TRUE]
        /\ toMaster # <<>> /\ Head(toMaster).op = "register"
    BY ZenonT(30), <1>6 DEF RegisterShadow, FromShadow
  <2>2. eptr'.chain1 = eptr.chain1 /\ eptr'.chain2 = eptr.chain2
    BY ZenonT(30), <1>1, <2>1 DEF Entry
  <2>3. toMaster \in Seq(ToMasterPacket) /\ toShadow' \in Seq(ToShadowPacket)
    BY ZenonT(30), InvStep DEF RInv, Types
  <2>4. toShadow = <<>>
    BY ZenonT(30), <2>1, <2>3, Taken DEF Registration
  <2>5. \A f : ~Carries(toShadow', f)
    BY ZenonT(30), <1>6, <2>3, <2>4, RegisterFacts, SentMore
  <2> QED
    BY ZenonT(30), <1>2, <2>1, <2>2, <2>5
<1>7. CASE DownloadStart
  <2>1. /\ UNCHANGED <<mdisk, sdisk, todo, downloading>> /\ \A f : ~Carries(toShadow, f)
    BY ZenonT(30), <1>7, OpenEffect
  <2>2. PICK p \in ToShadowPacket :
          /\ toShadow' = Append(toShadow, p) /\ p.op = "file"
          /\ \/ /\ downloading = "metadata" /\ p.data = mdisk.meta
                /\ eptr'.chain1 = mdisk.cur /\ eptr'.chain2 = mdisk.log1
             \/ /\ downloading = "changelog" /\ p.data = eptr.chain1
                /\ eptr'.chain1 = <<>> /\ eptr'.chain2 = eptr.chain2
             \/ /\ downloading = "changelog1" /\ p.data = eptr.chain2
                /\ eptr'.chain1 = eptr.chain1 /\ eptr'.chain2 = <<>>
             \/ downloading = "sessions" /\ eptr'.chain1 = <<>> /\ eptr'.chain2 = <<>>
    BY ZenonT(30), <1>7, OpenEffect
  <2>3. \A f : Carries(toShadow', f) <=> p.data = f
    <3>1. \A n : Carries(Append(toShadow, p), n) <=> Carries(toShadow, n) \/ (p.op = "file" /\ p.data = n)
      BY <1>1, SentSteps
    <3> QED
      BY ZenonT(30), <2>1, <2>2, <3>1
  <2>4. Capped(eptr'.chain1) /\ Capped(eptr'.chain2)
    BY ZenonT(30), <1>1, <2>2 DEF AllCapped, DiskCapped
  <2>5. downloading \in {"changelog", "changelog1"} => Capped(p.data)
    BY ZenonT(30), <1>1, <2>2 DEF AllCapped
  <2> QED
    BY ZenonT(30), <1>1, <2>1, <2>3, <2>4, <2>5 DEF AllCapped
<1>8. CASE MetachangesLog
  <2> DEFINE p == Head(toShadow)
             line == [id |-> p.id, change |-> p.change]
  <2>1. /\ UNCHANGED <<mdisk, eptr, downloading, todo>> /\ line \in Line /\ line.id = p.id
        /\ \A f : Carries(toShadow', f) <=> Carries(toShadow, f)
        /\ Sent(toShadow, p.id)
    BY ZenonT(30), <1>8, ReceiveEffect
  <2>2. \/ sdisk' = sdisk
        \/ /\ lastLogVersion = 0 \/ p.id = lastLogVersion + 1
           /\ sdisk'.cur = Append(sdisk.cur, line)
           /\ sdisk'.log1 = sdisk.log1 /\ sdisk'.log2 = sdisk.log2
    BY ZenonT(30), <1>8, ReceiveEffect
  <2>3. p.id \in Nat /\ sdisk.cur \in Seq(Line)
    BY ZenonT(30), <1>1, <2>1 DEF Line, Disk
  <2> HIDE DEF line, p
  <2>4. ASSUME lastLogVersion = 0 \/ p.id = lastLogVersion + 1 PROVE Capped(Append(sdisk.cur, line))
    <3>1. lastLogVersion > 0 \/ lastLogVersion = 0
      BY <1>1, <2>3, <2>4
    <3>2. \A n \in Nat : Has(sdisk.cur, n) => n <= p.id
      <4>1. CASE lastLogVersion > 0
        BY <1>1, <2>3, <2>4, <4>1 DEF Stored
      <4>2. CASE lastLogVersion = 0
        <5>1. \A n \in Nat : Has(sdisk.cur, n) => n < p.id
          BY ZenonT(30), <2>1, <2>3, <4>2 DEF Stored
        <5> QED
          BY <2>3, <5>1
      <4> QED
        BY ZenonT(30), <3>1, <4>1, <4>2
    <3> QED
      BY ZenonT(30), <2>1, <2>3, <3>2, HasSteps
  <2>5. DiskCapped(sdisk')
    BY ZenonT(30), <1>1, <2>2, <2>4 DEF AllCapped, DiskCapped
  <2> QED
    BY ZenonT(30), <1>1, <2>1, <2>5 DEF AllCapped
<1>9. CASE DownloadNext
  <2> DEFINE data == Head(toShadow).data
  <2>1. /\ UNCHANGED <<mdisk, eptr>> /\ Carries(toShadow, data) /\ \A f : ~Carries(toShadow', f)
    BY ZenonT(30), <1>9, FileEffect
  <2>2. CASE downloading = "metadata" /\ todo' = todo /\ sdisk'.cur = sdisk.cur
             /\ sdisk'.log1 = sdisk.log1 /\ sdisk'.log2 = sdisk.log2
    BY ZenonT(30), <1>1, <2>1, <2>2 DEF AllCapped, DiskCapped
  <2>3. CASE downloading = "changelog" /\ todo' = todo /\ sdisk'.cur = sdisk.cur
             /\ sdisk'.log1 = data /\ sdisk'.log2 = sdisk.log2
    BY ZenonT(30), <1>1, <2>1, <2>3 DEF AllCapped, DiskCapped
  <2>4. CASE downloading = "changelog1" /\ todo' = todo /\ sdisk'.cur = sdisk.cur
             /\ sdisk'.log1 = sdisk.log1 /\ sdisk'.log2 = data
    BY ZenonT(30), <1>1, <2>1, <2>4 DEF AllCapped, DiskCapped
  <2>5. CASE sdisk' = sdisk /\ todo' = todo
    BY ZenonT(30), <1>1, <2>1, <2>5 DEF AllCapped
  <2>6. CASE sdisk' = sdisk /\ todo' = <<sdisk.log2, sdisk.log1, sdisk.cur>>
    <3>1. \A i \in 1..Len(todo') : todo'[i] \in {sdisk.log2, sdisk.log1, sdisk.cur}
      BY <2>6
    <3>2. \A i \in 1..Len(todo') : Capped(todo'[i])
      BY ZenonT(30), <1>1, <3>1 DEF AllCapped, DiskCapped
    <3> QED
      BY ZenonT(30), <1>1, <2>1, <2>6, <3>2 DEF AllCapped
  <2> QED
    BY ZenonT(30), <1>9, <2>2, <2>3, <2>4, <2>5, <2>6, FileEffect
<1>10. CASE OpenChangelog
  <2>1. /\ UNCHANGED <<mdisk, sdisk, downloading, eptr, toShadow>> /\ todo # <<>>
        /\ todo' = Tail(todo) \/ todo' = <<>>
    BY ZenonT(30), <1>10 DEF OpenChangelog, RequestMetadataDump
  <2>2. \A i \in 1..Len(Tail(todo)) : i + 1 \in 1..Len(todo) /\ Tail(todo)[i] = todo[i + 1]
    BY <1>1, <2>1
  <2>3. \A i \in 1..Len(<<>>) : Capped(<<>>[i])
    OBVIOUS
  <2>4. \A i \in 1..Len(Tail(todo)) : Capped(Tail(todo)[i])
    BY ZenonT(30), <1>1, <2>2 DEF AllCapped
  <2>5. \A i \in 1..Len(todo') : Capped(todo'[i])
    BY ZenonT(30), <2>1, <2>3, <2>4
  <2> QED
    BY ZenonT(30), <1>1, <2>1, <2>5 DEF AllCapped
<1>11. CASE FinishLoad \/ ShadowDump
  <2>1. UNCHANGED <<mdisk, downloading, eptr, toShadow, todo>> /\ sdisk' = Dumped(sdisk, mem)
    BY ZenonT(30), <1>11 DEF FinishLoad, ShadowDump
  <2> QED
    BY ZenonT(30), <1>1, <2>1, <1>CappedSteps DEF AllCapped
<1>12. CASE LoadLine
  <2>1. /\ UNCHANGED <<mdisk, sdisk, downloading, eptr, toShadow>> /\ (todo' = todo \/ todo' = <<>>)
    BY ZenonT(30), <1>12 DEF LoadLine, RequestMetadataDump
  <2>2. \A i \in 1..Len(todo') : Capped(todo'[i])
    BY <1>1, <2>1 DEF AllCapped
  <2> QED
    BY ZenonT(30), <1>1, <2>1, <2>2 DEF AllCapped
<1>13. CASE Connect
  <2>1. UNCHANGED <<mdisk, sdisk, todo, eptr>> /\ downloading' \in {"metadata", "nothing"}
    BY ZenonT(30), <1>13 DEF Connect
  <2>2. downloading' \notin {"changelog", "changelog1"}
    BY ZenonT(30), <2>1
  <2> QED
    BY ZenonT(30), <1>2, <2>1, <2>2
<1>14. CASE OnRegistered \/ ChangelogApplyError
  <2>1. CASE ForceMetadataDownload /\ UNCHANGED mdisk
    BY ZenonT(30), <1>1, <1>3, <2>1 DEF ForceMetadataDownload, AllCapped
  <2>2. CASE /\ UNCHANGED <<mdisk, sdisk, todo, eptr, downloading>>
             /\ toShadow # <<>> /\ toShadow' = Tail(toShadow)
    <3>1. \A f : Carries(toShadow', f) => Carries(toShadow, f)
      BY ZenonT(30), <1>1, <2>2, SentSteps
    <3> QED
      BY ZenonT(30), <1>1, <2>2, <3>1 DEF AllCapped
  <2> QED
    BY ZenonT(30), <1>14, <2>1, <2>2 DEF OnRegistered, ChangelogApplyError, FromMaster, Consumed
<1>15. CASE RetryDumpRequest \/ UNCHANGED vars
  BY ZenonT(30), <1>2, <1>15 DEF RetryDumpRequest, RequestMetadataDump, vars
<1>16. CASE SessionsDownload \/ DownloadFails
  <2>1. UNCHANGED <<mdisk, sdisk, todo, eptr>> /\ downloading' \in {"sessions", "nothing"}
    BY ZenonT(30), <1>16 DEF SessionsDownload, DownloadFails
  <2>2. downloading' \notin {"changelog", "changelog1"}
    BY ZenonT(30), <2>1
  <2> QED
    BY ZenonT(30), <1>2, <2>1, <2>2
<1>17. CASE Disconnect
  BY ZenonT(30), <1>1, <1>3, <1>17 DEF Disconnect, AllCapped
<1>18. CASE MasterRestart
  <2>1. Close /\ downloading' = "nothing" /\ UNCHANGED <<sdisk, todo>> /\ mdisk' = Dumped(mdisk, log)
    BY ZenonT(30), <1>18 DEF MasterRestart
  <2> QED
    BY ZenonT(30), <1>1, <1>3, <2>1, <1>CappedSteps DEF AllCapped
<1>19. CASE ShadowRestart \/ Promote
  <2>1. /\ Close /\ downloading' = "nothing" /\ todo' = <<>>
        /\ (sdisk' = sdisk /\ mdisk' = mdisk) \/ (sdisk' = mdisk /\ mdisk' = sdisk)
    BY ZenonT(30), <1>19 DEF ShadowRestart, Promote, FreshShadow
  <2>2. \A i \in 1..Len(<<>>) : Capped(<<>>[i])
    OBVIOUS
  <2> QED
    BY ZenonT(30), <1>1, <1>3, <2>1, <2>2 DEF AllCapped
<1> QED
  BY ZenonT(30), <1>4, <1>5, <1>6, <1>7, <1>8, <1>9, <1>10, <1>11, <1>12, <1>13, <1>14, <1>15, <1>16,
     <1>17, <1>18, <1>19 DEF Next

=============================================================================
