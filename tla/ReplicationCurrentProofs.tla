-------------------- MODULE ReplicationCurrentProofs ------------------------
(***************************************************************************)
(* A synchronized shadow that has handled all it was sent has every change *)
(* of the master: MetadataReplication!SynchronizedIsCurrent, for every     *)
(* number of changes, dumps and faults, as long as no changes are lost at  *)
(* a promotion.                                                            *)
(*                                                                         *)
(* The argument: from the moment the master opens its files for a download *)
(* every change the metadata in it lacks is somewhere on its way: in an    *)
(* open changelog, a file reply, a changelog downloaded or stored, a packet *)
(* behind the reply, or a line still to be replayed.  The replay takes the *)
(* lines in order or fails, so at its end what is missing is under way.    *)
(* Two things need care: a changelog is skipped for the number of its last *)
(* line, so that line has to have the greatest number; and the cursor of   *)
(* restore.cc may be left over from a replay that failed, in which case    *)
(* the new replay cannot succeed.                                          *)
(*                                                                         *)
(* The invariant CInv, and the steps of its conjuncts Registration,        *)
(* MasterCovers and AllCapped, are in MetadataReplicationProofs.           *)
(***************************************************************************)
EXTENDS MetadataReplicationProofs

-----------------------------------------------------------------------------
(* The shadow's changelog *)

\* A registration that is under way was there before, whatever else is sent or taken.
LEMMA RegisterHead ==
  ASSUME RInv, Registration,
         \/ toMaster' = toMaster \/ toMaster' = <<>>
         \/ toMaster # <<>> /\ toMaster' = Tail(toMaster)
         \/ \E p \in ToMasterPacket : p.op # "register" /\ toMaster' = Append(toMaster, p)
  PROVE  toMaster' # <<>> /\ Head(toMaster').op = "register" =>
           toMaster # <<>> /\ Head(toMaster) = Head(toMaster')
<1>1. toMaster \in Seq(ToMasterPacket) /\ First(toMaster, "register")
  BY ZenonT(30) DEF RInv, Types, Registration
<1>2. CASE toMaster # <<>> /\ toMaster' = Tail(toMaster)
  <2>1. Absent(toMaster', "register") /\ toMaster' \in Seq(ToMasterPacket)
    BY ZenonT(30), <1>1, <1>2, FirstSteps, Taken
  <2>2. toMaster' # <<>> => Head(toMaster').op # "register"
    BY ZenonT(30), <2>1, Taken
  <2> QED
    BY ZenonT(30), <2>2
<1>3. ASSUME NEW p \in ToMasterPacket, p.op # "register", toMaster' = Append(toMaster, p)
      PROVE  toMaster' # <<>> /\ Head(toMaster').op = "register" =>
               toMaster # <<>> /\ Head(toMaster) = Head(toMaster')
  BY ZenonT(30), <1>1, <1>3, HeadSteps
<1> QED
  BY ZenonT(30), <1>2, <1>3

\* What the shadow sends is no registration.
LEMMA Asks ==
  ASSUME RInv, NEW p,
         p = Request("applyError") \/ \E f \in Files : p = RequestFile(f)
  PROVE  p \in ToMasterPacket /\ p.op # "register"
<1>1. p \in ToMasterPacket
  BY ZenonT(30), PacketTypes
<1>2. p.op # "register"
  BY DEF Request, RequestFile
<1> QED
  BY ZenonT(30), <1>1, <1>2

\* The number of the last line stored, and what a synchronized shadow has stored.
LEMMA StoredStep ==
  ASSUME RInv, FlagTypes, ~LostChanges, Registration, Stored, [Next]_vars
  PROVE  Stored'
\* The sequence of what ToMaster does to the queue.
<1>AskHead.
  ASSUME RInv, Registration, NEW p,
         p = Request("applyError") \/ \E f \in Files : p = RequestFile(f),
         ToMaster(p) \/ toMaster' = Append(toMaster, p)
  PROVE  toMaster' # <<>> /\ Head(toMaster').op = "register" =>
           toMaster # <<>> /\ Head(toMaster) = Head(toMaster')
  <2> USE <1>AskHead
  <2>1. toMaster' = toMaster \/ toMaster' = Append(toMaster, p)
    BY ZenonT(30) DEF ToMaster
  <2> QED
    BY ZenonT(30), <2>1, Asks, RegisterHead
\* A change that is stored has a greater number than those before.
<1>StoreAbove.
  ASSUME RInv, FlagTypes, Stored, NEW m \in Nat, Sent(toShadow, m),
         lastLogVersion = 0 \/ m = lastLogVersion + 1
  PROVE  \A n \in Nat : Has(sdisk.cur, n) => n < m
  <2> USE <1>StoreAbove
  <2>1. lastLogVersion \in Nat
    BY ZenonT(30) DEF FlagTypes
  <2>2. CASE lastLogVersion > 0
    BY <2>1, <2>2 DEF Stored
  <2>3. CASE lastLogVersion = 0
    BY ZenonT(30), <2>3 DEF Stored
  <2> QED
    BY <2>1, <2>2, <2>3
<1> USE DEF master, link, loader, shadow, ghosts
<1>1. /\ sdisk \in Disk /\ log \in Seq(Nat) /\ toShadow \in Seq(ToShadowPacket) /\ Stored
      /\ toMaster \in Seq(ToMasterPacket) /\ sdisk.cur \in Seq(Line) /\ lastLogVersion \in Nat
      /\ FileOf(sdisk.cur, log)
  BY ZenonT(30) DEF RInv, Types, FlagTypes, ShadowFiles, DiskOf, FileOf
<1>2. CASE /\ UNCHANGED <<sdisk, lastLogVersion>> /\ \A n : Sent(toShadow', n) => Sent(toShadow, n)
           /\ toMaster' # <<>> /\ Head(toMaster').op = "register" =>
                toMaster # <<>> /\ Head(toMaster) = Head(toMaster')
           /\ state' = "sync" => state = "sync" /\ mem' = mem
           /\ ~loading' => lines' = <<>> /\ todo' = <<>>
  BY ZenonT(60), <1>1, <1>2 DEF Stored
<1>3. CASE /\ Close /\ UNCHANGED <<sdisk, lastLogVersion, state, mem, loading, lines, todo>>
  BY ZenonT(30), <1>1, <1>2, <1>3, CloseEffect DEF Stored
<1>4. ASSUME \/ ForceMetadataDownload /\ UNCHANGED master /\ ~loading
             \/ ShadowRestart \/ Promote
      PROVE  Stored'
  <2>1. Close /\ state' = "none" /\ lastLogVersion' = 0
    BY ZenonT(30), <1>4, RestartEffect
  <2>2. lines' = <<>> /\ todo' = <<>>
    BY ZenonT(30), <1>1, <1>4 DEF ForceMetadataDownload, ShadowRestart, Promote, FreshShadow, Stored
  <2>3. toMaster' = <<>> /\ \A n : ~Sent(toShadow', n)
    BY ZenonT(30), <2>1, CloseEffect
  <2>4. state' # "sync" /\ ~(lastLogVersion' > 0)
    BY <2>1
  <2> QED
    BY ZenonT(30), <2>1, <2>2, <2>3, <2>4 DEF Stored
<1>5. CASE MasterChange
  <2>1. UNCHANGED <<toMaster, mem, sdisk, state, lastLogVersion, loading, todo, lines>>
    BY ZenonT(30), <1>5, ChangeEffect
  <2>2. \A n : Sent(toShadow', n) => Sent(toShadow, n) \/ n = Len(log) + 1
    <3>1. eptr.registered \/ toShadow' = toShadow
      BY ZenonT(30), <1>5, ChangeEffect
    <3> QED
      BY ZenonT(30), <1>5, <3>1, ChangeFlow
  <2>3. \A n : Has(sdisk.cur, n) => n < Len(log) + 1
    <3>1. \A n \in 1..Len(log) : n < Len(log) + 1
      BY <1>1
    <3> QED
      BY ZenonT(30), <1>1, <3>1, HasOf
  <2>4. (lastLogVersion = 0 => \A n, k \in Nat : Has(sdisk.cur, n) /\ Sent(toShadow, k) => n < k)'
    BY ZenonT(30), <1>1, <2>1, <2>2, <2>3 DEF Stored
  <2> QED
    BY ZenonT(30), <1>1, <2>1, <2>4 DEF Stored
<1>6. CASE PeriodicDump \/ FinishDump \/ FailDump \/ PeriodPasses \/ ChangelogApplyErrorRequest
  <2>1. /\ UNCHANGED <<mem, sdisk, state, lastLogVersion, loading, todo, lines>>
        /\ SameFlow(toShadow, toShadow')
        /\ toMaster' = toMaster \/ (toMaster # <<>> /\ toMaster' = Tail(toMaster))
    BY ZenonT(30), <1>6, DumpEffect
  <2>2. toMaster' # <<>> /\ Head(toMaster').op = "register" =>
          toMaster # <<>> /\ Head(toMaster) = Head(toMaster')
    BY ZenonT(30), <2>1, RegisterHead
  <2> QED
    BY ZenonT(30), <1>1, <1>2, <2>1, <2>2 DEF Stored, SameFlow
<1>7. CASE RegisterShadow
  <2>1. /\ UNCHANGED <<mem, sdisk, state, lastLogVersion, loading, todo, lines>>
        /\ toMaster # <<>> /\ toMaster' = Tail(toMaster) /\ Head(toMaster).op = "register"
    BY ZenonT(30), <1>7 DEF RegisterShadow, FromShadow
  <2>2. toShadow = <<>>
    BY ZenonT(30), <1>1, <2>1, Taken DEF Registration
  <2>3. toMaster' # <<>> /\ Head(toMaster').op = "register" =>
          toMaster # <<>> /\ Head(toMaster) = Head(toMaster')
    BY ZenonT(30), <2>1, RegisterHead
  <2>4. \A n : ~Has(<<>>, n)
    BY ZenonT(30), <1>1, HasSteps
  <2>5. lastLogVersion > 0 => lastLogVersion # 0
    BY <1>1
  <2>6. lastLogVersion = 0 => \A n, k \in Nat : Has(sdisk.cur, n) /\ Sent(toShadow', k) => n < k
    BY ZenonT(30), <1>1, <1>7, <2>1, <2>2, <2>4, <2>5, RegisterFacts DEF Stored
  <2> QED
    BY ZenonT(60), <1>1, <2>1, <2>3, <2>6 DEF Stored
<1>8. CASE DownloadStart
  <2>1. /\ UNCHANGED <<mem, sdisk, state, lastLogVersion, loading, todo, lines>>
        /\ toMaster # <<>> /\ toMaster' = Tail(toMaster)
        /\ \A n : Sent(toShadow', n) <=> Sent(toShadow, n)
    BY ZenonT(30), <1>8, OpenEffect
  <2>2. toMaster' # <<>> /\ Head(toMaster').op = "register" =>
          toMaster # <<>> /\ Head(toMaster) = Head(toMaster')
    BY ZenonT(30), <2>1, RegisterHead
  <2> QED
    BY ZenonT(30), <1>1, <1>2, <2>1, <2>2 DEF Stored
<1>9. CASE Connect
  <2> DEFINE r == [op |-> "register", version |-> IF state = "sync" THEN Version(mem) ELSE 0]
  <2>1. /\ UNCHANGED <<toShadow, mem, sdisk, lastLogVersion, loading, todo, lines>>
        /\ IF lastLogVersion = 0
           THEN toMaster' = <<r, RequestFile("metadata")>> /\ state' = "downloading"
           ELSE /\ toMaster' = <<r, Request("applyError")>> \/ toMaster' = <<r>>
                /\ state' = state
    BY ZenonT(30), <1>9 DEF Connect
  <2>2. Head(toMaster').version = IF state = "sync" THEN Version(mem) ELSE 0
    BY <2>1
  <2>3. Head(toMaster').version = 0 \/ lastLogVersion > 0 \/ sdisk.cur = <<>>
    BY ZenonT(30), <1>1, <2>2 DEF Stored
  <2>4. state' = "sync" => state = "sync"
    BY ZenonT(30), <2>1
  <2> HIDE DEF r
  <2> QED
    BY ZenonT(30), <1>1, <2>1, <2>3, <2>4 DEF Stored
<1>10. CASE OnRegistered \/ ChangelogApplyError
  <2>1. CASE ForceMetadataDownload /\ UNCHANGED master /\ ~loading
    BY ZenonT(30), <1>4, <2>1
  <2>2. CASE /\ toShadow # <<>> /\ toShadow' = Tail(toShadow) /\ state' \in {state, "limbo"}
             /\ UNCHANGED <<toMaster, mem, sdisk, lastLogVersion, loading, todo, lines>>
    <3>1. \A n : Sent(toShadow', n) => Sent(toShadow, n)
      BY ZenonT(30), <1>1, <2>2, SentSteps
    <3>2. state' = "sync" => state = "sync"
      BY ZenonT(30), <2>2
    <3> QED
      BY ZenonT(30), <1>1, <1>2, <2>2, <3>1, <3>2 DEF Stored
  <2>3. ~loading
    BY ZenonT(30), <1>10 DEF OnRegistered, ChangelogApplyError, FromMaster
  <2> QED
    BY ZenonT(30), <1>10, <2>1, <2>2, <2>3 DEF OnRegistered, ChangelogApplyError, FromMaster, Consumed
<1>11. CASE MetachangesLog
  <2> DEFINE p == Head(toShadow)
             line == [id |-> p.id, change |-> p.change]
             x == Restore(mem, cursor, line)
  <2>1. /\ ~loading /\ line \in Line /\ line.id = p.id /\ LineOf(line, log)
        /\ UNCHANGED <<loading, todo, lines>>
        /\ \A n : Sent(toShadow, n) <=> Sent(toShadow', n) \/ p.id = n
    BY ZenonT(30), <1>11, ReceiveEffect
  <2>2. p.id \in Nat /\ p.id > 0 /\ Sent(toShadow, p.id) /\ lines' = <<>> /\ todo' = <<>>
    BY <1>1, <2>1 DEF Line, LineOf, Stored
  <2>3. CASE /\ state' = "dumpPending" /\ UNCHANGED <<sdisk, lastLogVersion>>
             /\ up => toMaster' = Append(toMaster, Request("applyError"))
             /\ ~up => toMaster' = toMaster
    <3>1. toMaster' # <<>> /\ Head(toMaster').op = "register" =>
            toMaster # <<>> /\ Head(toMaster) = Head(toMaster')
      BY ZenonT(30), <2>3, <1>AskHead
    <3> QED
      BY ZenonT(30), <1>2, <2>1, <2>2, <2>3, <3>1
  <2>4. CASE /\ lastLogVersion = 0 \/ p.id = lastLogVersion + 1
             /\ state' = state /\ toMaster' = toMaster /\ lastLogVersion' = p.id
             /\ sdisk'.meta = sdisk.meta /\ sdisk'.cur = Append(sdisk.cur, line)
             /\ \/ state # "sync" /\ UNCHANGED <<mem, cursor>>
                \/ state = "sync" /\ x.ok /\ mem' = x.mem /\ cursor' = x.cursor
    <3> HIDE DEF line
    <3>1. \A n : Has(sdisk'.cur, n) <=> Has(sdisk.cur, n) \/ n = p.id
      <4>1. \A n : Has(Append(sdisk.cur, line), n) <=> Has(sdisk.cur, n) \/ line.id = n
        BY ZenonT(30), <1>1, <2>1, HasSteps
      <4> QED
        BY ZenonT(30), <2>1, <2>4, <4>1
    <3>2. \A n \in Nat : Has(sdisk.cur, n) => n < p.id
      BY ZenonT(30), <2>2, <2>4, <1>StoreAbove
    <3>3. \A n \in Nat : Has(sdisk'.cur, n) => n <= p.id
      BY <2>2, <3>1, <3>2
    <3>4. ASSUME state = "sync"
          PROVE  Len(mem') <= p.id /\ \A n : Lacks(sdisk.meta, mem', n) => Lacks(sdisk.meta, mem, n) \/ n = p.id
      <4>1. mem \in Seq(Nat) /\ cursor \in [current : Nat, next : Nat]
        BY ZenonT(30), <3>4 DEF RInv, Types, Service
      <4>2. x.mem = mem \/ (x.mem = Append(mem, line.change) /\ line.id = Len(mem) + 1)
        <5>1. x.ok
          BY ZenonT(30), <2>4, <3>4
        <5> QED
          BY ZenonT(30), <2>1, <4>1, <5>1, RestoreFacts
      <4>3. mem' = x.mem
        BY ZenonT(30), <2>4, <3>4
      <4> HIDE DEF x, p
      <4>4. Len(mem) <= lastLogVersion
        BY ZenonT(30), <1>1, <3>4 DEF Stored
      <4>5. Len(mem) + 1 <= p.id
        BY <1>1, <2>2, <2>4, <4>1, <4>4
      <4>6. CASE mem' = mem
        BY <2>2, <4>1, <4>5, <4>6
      <4>7. CASE mem' = Append(mem, line.change) /\ p.id = Len(mem) + 1
        <5>1. Len(mem') = Len(mem) + 1
          BY <4>1, <4>7
        <5> QED
          BY <4>1, <4>7, <5>1 DEF Lacks
      <4> QED
        BY ZenonT(30), <2>1, <4>2, <4>3, <4>6, <4>7
    <3>5. lastLogVersion' > 0 /\ ~(lastLogVersion' = 0)
      BY <2>2, <2>4
    <3> HIDE DEF x, p
    <3>6. (state = "sync" => \A n : Lacks(sdisk.meta, mem, n) => Has(sdisk.cur, n))'
      BY ZenonT(30), <1>1, <2>4, <3>1, <3>4 DEF Stored
    <3>7. (state = "sync" => Len(mem) <= lastLogVersion)'
      BY ZenonT(30), <2>4, <3>4
    <3> QED
      BY ZenonT(60), <2>2, <2>4, <3>3, <3>5, <3>6, <3>7 DEF Stored
  <2> HIDE DEF line, x
  <2> QED
    BY ZenonT(30), <1>11, <2>3, <2>4, ReceiveEffect DEF line, x
<1>12. CASE DownloadNext
  <2>1. /\ UNCHANGED <<lastLogVersion, state, lines>> /\ \A n : Sent(toShadow', n) <=> Sent(toShadow, n)
        /\ ~loading /\ sdisk'.cur = sdisk.cur
    BY ZenonT(30), <1>12, FileEffect
  <2>2. toMaster' # <<>> /\ Head(toMaster').op = "register" =>
          toMaster # <<>> /\ Head(toMaster) = Head(toMaster')
    BY ZenonT(30), <1>12, FileEffect, <1>AskHead
  <2>3. ~loading' => lines' = <<>> /\ todo' = <<>>
    BY ZenonT(30), <1>1, <1>12, <2>1, FileEffect DEF Stored
  <2>4. state = "sync" => downloading \in {"nothing", "sessions"}
    BY ZenonT(30) DEF RInv, Service
  <2>5. state = "sync" => state # "downloading" /\ downloading # "metadata" /\ downloading # "changelog"
                            /\ downloading # "changelog1"
    BY ZenonT(30), <2>4
  <2>6. state = "sync" => mem' = mem /\ sdisk'.meta = sdisk.meta
    BY ZenonT(30), <1>12, <2>5, FileEffect
  <2> QED
    BY ZenonT(60), <1>1, <2>1, <2>2, <2>3, <2>6 DEF Stored
<1>13. CASE OpenChangelog \/ LoadLine
  <2>1. /\ UNCHANGED <<sdisk, lastLogVersion, toShadow>> /\ loading
        /\ \/ UNCHANGED <<loading, state, toMaster>>
           \/ /\ ~loading' /\ todo' = <<>> /\ lines' = <<>> /\ state' = "dumpPending"
              /\ ToMaster(Request("applyError"))
    BY ZenonT(30), <1>13 DEF OpenChangelog, LoadLine, RequestMetadataDump
  <2>2. state = "downloading"
    BY ZenonT(30), <2>1 DEF RInv, Service
  <2>3. state' # "sync"
    BY ZenonT(30), <2>1, <2>2
  <2>4. toMaster' # <<>> /\ Head(toMaster').op = "register" =>
          toMaster # <<>> /\ Head(toMaster) = Head(toMaster')
    BY ZenonT(30), <2>1, <1>AskHead
  <2> QED
    BY ZenonT(30), <1>2, <2>1, <2>3, <2>4
<1>14. CASE FinishLoad \/ ShadowDump
  <2>1. /\ UNCHANGED <<toMaster, toShadow, mem, lines, todo>> /\ sdisk' = Dumped(sdisk, mem) /\ mem # None
        /\ \/ lines = <<>> /\ todo = <<>> /\ lastLogVersion' = Len(mem)
           \/ ~loading /\ UNCHANGED <<lastLogVersion, state, loading>>
    <3>1. loading => mem \in Seq(Nat)
      BY ZenonT(30) DEF RInv, Service
    <3>2. loading => mem # None
      BY ZenonT(30), <3>1, ReplicationAssumption
    <3> QED
      BY ZenonT(30), <1>14, <3>2 DEF FinishLoad, ShadowDump
  <2>2. sdisk'.cur = <<>> /\ sdisk'.meta = mem
    BY ZenonT(30), <1>1, <2>1 DEF Dumped, Rotate, Disk
  <2>3. \A n : ~Has(<<>>, n)
    BY ZenonT(30), <1>1, HasSteps
  <2>4. mem \in Seq(Nat)
    BY ZenonT(30), <2>1 DEF RInv, Types
  <2>5. \A n : ~Lacks(mem, mem, n)
    BY <2>4 DEF Lacks
  <2>6. Len(mem) <= Len(mem)
    BY <2>4
  <2>7. (state = "sync" => Len(mem) <= lastLogVersion)'
    BY ZenonT(30), <1>1, <2>1, <2>6 DEF Stored
  <2>8. (~loading => lines = <<>> /\ todo = <<>>)'
    BY ZenonT(30), <1>1, <2>1 DEF Stored
  <2> QED
    BY ZenonT(60), <2>1, <2>2, <2>3, <2>5, <2>7, <2>8 DEF Stored
<1>15. CASE RetryDumpRequest \/ SessionsDownload
  <2>1. /\ UNCHANGED <<toShadow, mem, sdisk, lastLogVersion, loading, todo, lines>>
        /\ state' \in {state, "dumpPending"}
        /\ ToMaster(Request("applyError")) \/ ToMaster(RequestFile("sessions"))
    BY ZenonT(30), <1>15 DEF RetryDumpRequest, SessionsDownload, RequestMetadataDump
  <2>2. "sessions" \in Files
    BY ZenonT(30) DEF Files
  <2>3. toMaster' # <<>> /\ Head(toMaster').op = "register" =>
          toMaster # <<>> /\ Head(toMaster) = Head(toMaster')
    BY ZenonT(30), <2>1, <2>2, <1>AskHead
  <2>4. state' = "sync" => state = "sync"
    BY ZenonT(30), <2>1
  <2> QED
    BY ZenonT(30), <1>1, <1>2, <2>1, <2>3, <2>4 DEF Stored
<1>16. CASE Disconnect \/ MasterRestart
  BY ZenonT(30), <1>3, <1>16 DEF Disconnect, MasterRestart
<1>17. CASE DownloadFails
  <2>1. /\ toShadow # <<>> /\ toShadow' = Tail(toShadow)
        /\ UNCHANGED <<toMaster, mem, sdisk, state, lastLogVersion, loading, todo, lines>>
    BY ZenonT(30), <1>17 DEF DownloadFails, Consumed
  <2>2. \A n : Sent(toShadow', n) => Sent(toShadow, n)
    BY ZenonT(30), <1>1, <2>1, SentSteps
  <2> QED
    BY ZenonT(30), <1>1, <1>2, <2>1, <2>2 DEF Stored
<1>18. CASE ShadowRestart \/ Promote
  BY ZenonT(30), <1>4, <1>18
<1>19. CASE UNCHANGED vars
  BY ZenonT(30), <1>1, <1>2, <1>19 DEF vars, Stored
<1> QED
  BY ZenonT(30), <1>5, <1>6, <1>7, <1>8, <1>9, <1>10, <1>11, <1>12, <1>13, <1>14, <1>15, <1>16,
     <1>17, <1>18, <1>19 DEF Next

-----------------------------------------------------------------------------
(* The cursor of restore.cc *)

\* One step of metachangesLog on a synchronized shadow, and its cursor.
LEMMA ReceiveCursor ==
  ASSUME RInv, FlagTypes, Stored, LeftOver, state = "sync", NEW line \in Line, LineOf(line, log),
         lastLogVersion = 0 \/ line.id = lastLogVersion + 1,
         mem' = Restore(mem, cursor, line).mem, cursor' = Restore(mem, cursor, line).cursor
  PROVE  LET x == Restore(mem, cursor, line)
         IN /\ Zero' \/ cursor'.next <= cursor'.current + 1
            /\ High(mem) => cursor'.current = cursor.current
            /\ High(mem) /\ x.ok => mem' = mem /\ line.id # cursor.current + 1 /\ cursor' = cursor
            /\ ~High(mem) /\ ~x.ok => cursor'.current < Len(log)
            /\ ~High(mem) /\ x.ok => /\ mem' = Append(mem, line.change) /\ line.id = Len(mem) + 1
                                     /\ cursor'.current = Len(mem) + 1
\* A change sent to a synchronized shadow that is looked at follows its metadata.
<1>ReceivedAbove.
  ASSUME RInv, FlagTypes, Stored, state = "sync", NEW m \in Nat, m > 0,
         lastLogVersion = 0 \/ m = lastLogVersion + 1
  PROVE  mem \in Seq(Nat) /\ Len(mem) < m
  BY <1>ReceivedAbove DEF RInv, FlagTypes, Stored, Service
<1> DEFINE x == Restore(mem, cursor, line)
<1>1. line.id \in Nat /\ line.id > 0 /\ line.id <= Len(log) /\ log \in Seq(Nat)
  BY DEF LineOf, Line, RInv, Types
<1>2. mem \in Seq(Nat) /\ Len(mem) < line.id
  BY ZenonT(30), <1>1, <1>ReceivedAbove
<1>3. cursor \in [current : Nat, next : Nat]
  BY ZenonT(30) DEF RInv, Types
<1>4. cursor.current = 0 \/ cursor.next = 0 \/ cursor.next <= cursor.current + 1
  BY ZenonT(30) DEF LeftOver, Zero
<1>5. x.cursor \in [current : Nat, next : Nat]
  BY ZenonT(30), <1>2, <1>3, RestoreFacts
<1>6. /\ x.cursor.current = 0 \/ x.cursor.next = 0 \/ x.cursor.next <= x.cursor.current + 1
      /\ ~(cursor.current = 0 \/ cursor.next = 0) /\ Len(mem) < cursor.current =>
           /\ x.cursor.current = cursor.current
           /\ x.ok => x.mem = mem /\ line.id # cursor.current + 1 /\ x.cursor = cursor
      /\ (cursor.current = 0 \/ cursor.next = 0) \/ cursor.current <= Len(mem) =>
           /\ x.ok => /\ x.mem = Append(mem, line.change) /\ line.id = Len(mem) + 1
                      /\ x.cursor.current = Len(mem) + 1
           /\ ~x.ok => x.cursor.current + 1 < line.id
  BY ZenonT(30), <1>2, <1>3, <1>4, RestoreCursor
<1>7. High(mem) \/ (cursor.current = 0 \/ cursor.next = 0) \/ cursor.current <= Len(mem)
  BY <1>2, <1>3 DEF High, Zero
<1>8. x.cursor.current + 1 < line.id => x.cursor.current < Len(log)
  BY <1>1, <1>5
<1> QED
  BY ZenonT(30), <1>6, <1>7, <1>8 DEF High, Zero

\* One step of the replay, and its cursor.
LEMMA ReplayCursor ==
  ASSUME RInv, LeftOver, LoadLine
  PROVE  LET x == ReplayLine([ok |-> TRUE, mem |-> mem, cursor |-> cursor], Head(lines))
             id == Head(lines).id
         IN /\ mem' = x.mem /\ cursor' = x.cursor
            /\ mem \in Seq(Nat) /\ lines \in Seq(Line) /\ LineOf(Head(lines), log)
            /\ Zero' \/ cursor'.next <= cursor'.current + 1
            /\ \/ id <= Len(mem) /\ x.ok /\ mem' = mem /\ cursor' = cursor
               \/ /\ High(mem) /\ cursor'.current = cursor.current /\ Len(mem) < id
                  /\ x.ok => mem' = mem /\ id # cursor.current + 1 /\ cursor' = cursor
               \/ /\ ~High(mem) /\ ~x.ok /\ cursor'.current < Len(log)
               \/ /\ ~High(mem) /\ x.ok /\ mem' = Append(mem, Head(lines).change)
                  /\ id = Len(mem) + 1 /\ cursor'.current = Len(mem) + 1 /\ Len(mem') = Len(mem) + 1
<1> DEFINE line == Head(lines)
           y == Restore(mem, cursor, line)
           x == ReplayLine([ok |-> TRUE, mem |-> mem, cursor |-> cursor], line)
<1>1. loading /\ lines # <<>> /\ mem' = x.mem /\ cursor' = x.cursor
  BY ZenonT(30) DEF LoadLine
<1>2. /\ mem \in Seq(Nat) /\ log \in Seq(Nat) /\ lines \in Seq(Line)
      /\ cursor \in [current : Nat, next : Nat]
  BY ZenonT(30), <1>1 DEF RInv, Types, Service
<1>3. LineOf(line, log)
  BY ZenonT(30), <1>1, AtHand
<1>4. line \in Line /\ line.id \in Nat /\ line.id <= Len(log)
  BY <1>2, <1>3 DEF LineOf, Line
<1>5. cursor.current = 0 \/ cursor.next = 0 \/ cursor.next <= cursor.current + 1
  BY ZenonT(30) DEF LeftOver, Zero
<1>6. CASE line.id <= Len(mem)
  <2>1. x = [ok |-> TRUE, mem |-> mem, cursor |-> cursor]
    BY <1>2, <1>4, <1>6 DEF ReplayLine, Version
  <2>2. x.ok /\ x.mem = mem /\ x.cursor = cursor
    BY <2>1
  <2> QED
    BY ZenonT(30), <1>1, <1>2, <1>3, <1>5, <1>6, <2>2 DEF Zero
<1>7. CASE Len(mem) < line.id
  <2>1. x = y
    BY <1>2, <1>4, <1>7 DEF ReplayLine, Version
  <2>2. y.cursor \in [current : Nat, next : Nat]
    BY ZenonT(30), <1>2, <1>4, RestoreFacts
  <2>3. /\ y.cursor.current = 0 \/ y.cursor.next = 0 \/ y.cursor.next <= y.cursor.current + 1
        /\ ~(cursor.current = 0 \/ cursor.next = 0) /\ Len(mem) < cursor.current =>
             /\ y.cursor.current = cursor.current
             /\ y.ok => y.mem = mem /\ line.id # cursor.current + 1 /\ y.cursor = cursor
        /\ (cursor.current = 0 \/ cursor.next = 0) \/ cursor.current <= Len(mem) =>
             /\ y.ok => /\ y.mem = Append(mem, line.change) /\ line.id = Len(mem) + 1
                        /\ y.cursor.current = Len(mem) + 1
             /\ ~y.ok => y.cursor.current + 1 < line.id
    BY ZenonT(30), <1>2, <1>4, <1>5, <1>7, RestoreCursor
  <2> HIDE DEF y
  <2>4. High(mem) \/ (cursor.current = 0 \/ cursor.next = 0) \/ cursor.current <= Len(mem)
    BY <1>2 DEF High, Zero
  <2>5. High(mem) => ~(cursor.current = 0 \/ cursor.next = 0) /\ Len(mem) < cursor.current
    BY ZenonT(30) DEF High, Zero
  <2>6. y.cursor.current + 1 < line.id => y.cursor.current < Len(log)
    BY <1>2, <1>4, <2>2
  <2>7. y.mem = Append(mem, line.change) => Len(y.mem) = Len(mem) + 1
    BY <1>2, <1>4 DEF Line
  <2> HIDE DEF x
  <2>8. Zero' \/ cursor'.next <= cursor'.current + 1
    BY ZenonT(30), <1>1, <2>1, <2>3 DEF Zero
  <2>9. CASE High(mem)
    BY ZenonT(30), <1>1, <1>2, <1>3, <1>7, <2>1, <2>3, <2>5, <2>8, <2>9 DEF x
  <2>10. CASE ~High(mem)
    BY ZenonT(30), <1>1, <1>2, <1>3, <2>1, <2>3, <2>4, <2>6, <2>7, <2>8, <2>10 DEF x
  <2> QED
    BY ZenonT(30), <2>9, <2>10
<1>8. line.id <= Len(mem) \/ Len(mem) < line.id
  BY <1>2, <1>4
<1> QED
  BY ZenonT(30), <1>6, <1>7, <1>8

\* A changelog whose last line has the greatest number passes the check of load_changelogs.
LEMMA CappedInOrder ==
  ASSUME RInv, AllCapped, OpenChangelog
  PROVE  /\ Head(todo) \in Seq(Line) /\ Capped(Head(todo)) /\ loading /\ lines = <<>> /\ todo # <<>>
         /\ lines' = IF Needed(Head(todo), mem) THEN Head(todo) ELSE <<>>
         /\ todo' = Tail(todo) /\ mem \in Seq(Nat) /\ todo \in Seq(Seq(Line))
         /\ UNCHANGED <<log, mem, sdisk, lastLogVersion, downloading, cursor, loading, state,
                        eptr, up, toMaster, toShadow, torn, overwritten>>
<1> USE DEF master, link, loader, shadow, ghosts
<1>1. todo \in Seq(Seq(Line)) /\ todo # <<>> /\ loading /\ lines = <<>>
  BY ZenonT(30) DEF OpenChangelog, RInv, Types
<1>2. Head(todo) = todo[1] /\ 1 \in 1..Len(todo) /\ Head(todo) \in Seq(Line)
  BY <1>1
<1>3. Capped(Head(todo))
  BY ZenonT(30), <1>2 DEF AllCapped
<1>4. InOrder(Head(todo))
  <2>1. Head(todo) # <<>> => 1 \in 1..Len(Head(todo))
    BY <1>2
  <2>2. Head(todo) # <<>> => Head(todo)[1].id <= Head(todo)[Len(Head(todo))].id
    BY ZenonT(30), <1>3, <2>1 DEF Capped
  <2>3. Head(todo) # <<>> => Head(todo)[1].id \in Nat /\ Head(todo)[Len(Head(todo))].id \in Nat
    <3>1. ASSUME NEW f \in Seq(Line), f # <<>> PROVE f[1] \in Line /\ f[Len(f)] \in Line
      BY <3>1
    <3>2. \A r \in Line : r.id \in Nat
      BY ZenonT(30) DEF Line
    <3> QED
      BY ZenonT(30), <1>2, <3>1, <3>2
  <2> QED
    BY ZenonT(30), <2>2, <2>3 DEF InOrder
<1>5. mem \in Seq(Nat)
  BY ZenonT(30), <1>1 DEF RInv, Service
<1> QED
  BY ZenonT(30), <1>1, <1>2, <1>3, <1>4, <1>5 DEF OpenChangelog

\* A cursor left over by a replay that failed, until the next replay.
LEMMA LeftOverStep ==
  ASSUME RInv, FlagTypes, ~LostChanges, Registration, AllCapped, Stored, LeftOver, [Next]_vars
  PROVE  LeftOver'
\* What a changed or unchanged cursor says about Zero and High.
<1>CursorSame.
  ASSUME cursor' = cursor
  PROVE  (Zero' <=> Zero) /\ \A h : High(h)' <=> High(h)
  BY <1>CursorSame, ZenonT(30) DEF Zero, High
<1> USE DEF master, link, loader, shadow, ghosts, FollowUp
<1>1. /\ log \in Seq(Nat) /\ toShadow \in Seq(ToShadowPacket) /\ lastLogVersion \in Nat /\ LeftOver
      /\ cursor \in [current : Nat, next : Nat] /\ toMaster \in Seq(ToMasterPacket)
  BY ZenonT(30) DEF RInv, Types, FlagTypes
<1>2. CASE /\ UNCHANGED <<log, cursor, lastLogVersion>>
           /\ loading => loading' /\ mem' = mem
           /\ loading' => loading
           /\ state' = "downloading" => state = "downloading"
           /\ FollowUp' => FollowUp
           /\ \A n : (Sent(toShadow', n) => Sent(toShadow, n)) /\ (After(toShadow', n) => After(toShadow, n))
  <2>1. (~Zero => cursor.next <= cursor.current + 1)'
    BY ZenonT(30), <1>1, <1>2, <1>CursorSame DEF LeftOver
  <2>2. (~Zero => \/ cursor.current < Len(log)
                  \/ lastLogVersion > 0 /\ state # "downloading"
                  \/ loading /\ cursor.current = Len(mem))'
    BY ZenonT(30), <1>1, <1>2, <1>CursorSame DEF LeftOver
  <2>3. (~Zero /\ state = "downloading" /\ ~loading =>
           /\ ~After(toShadow, cursor.current + 1)
           /\ FollowUp => ~Sent(toShadow, cursor.current + 1))'
    BY ZenonT(30), <1>1, <1>2, <1>CursorSame DEF LeftOver
  <2> QED
    BY ZenonT(30), <2>1, <2>2, <2>3 DEF LeftOver
<1>3. CASE /\ UNCHANGED <<log, cursor, lastLogVersion, state, mem, loading>> /\ Close
           /\ downloading' = "nothing"
  <2>1. ~FollowUp'
    BY ZenonT(30), <1>3
  <2> QED
    BY ZenonT(30), <1>2, <1>3, <2>1, CloseEffect
<1>4. CASE cursor' = NoCursor
  <2>1. Zero'
    BY ZenonT(30), <1>4 DEF Zero, NoCursor
  <2> QED
    BY ZenonT(30), <2>1 DEF LeftOver
<1>5. CASE MasterChange
  <2>1. /\ UNCHANGED <<mem, state, lastLogVersion, downloading, cursor, loading>>
        /\ Len(log') = Len(log) + 1 /\ log' \in Seq(Nat)
    BY ZenonT(30), <1>5, ChangeEffect
  <2>2. cursor.current < Len(log) => cursor'.current < Len(log') /\ cursor.current + 1 # Len(log) + 1
    BY <1>1, <2>1
  <2>3. \A n : /\ Sent(toShadow', n) => Sent(toShadow, n) \/ n = Len(log) + 1
               /\ After(toShadow', n) => After(toShadow, n) \/ n = Len(log) + 1
    <3>1. eptr.registered \/ toShadow' = toShadow
      BY ZenonT(30), <1>5, ChangeEffect
    <3> QED
      BY ZenonT(30), <1>5, <3>1, ChangeFlow
  <2>4. (~Zero => \/ cursor.current < Len(log)
                  \/ lastLogVersion > 0 /\ state # "downloading"
                  \/ loading /\ cursor.current = Len(mem))'
    BY ZenonT(30), <1>1, <2>1, <2>2, <1>CursorSame DEF LeftOver
  <2>5. ~Zero /\ state = "downloading" /\ ~loading => cursor.current + 1 # Len(log) + 1
    BY ZenonT(30), <1>1, <2>2 DEF LeftOver
  <2>6. (~Zero /\ state = "downloading" /\ ~loading =>
           /\ ~After(toShadow, cursor.current + 1)
           /\ FollowUp => ~Sent(toShadow, cursor.current + 1))'
    BY ZenonT(30), <1>1, <2>1, <2>3, <2>5, <1>CursorSame DEF LeftOver
  <2>7. (~Zero => cursor.next <= cursor.current + 1)'
    BY ZenonT(30), <1>1, <2>1, <1>CursorSame DEF LeftOver
  <2> QED
    BY ZenonT(30), <2>4, <2>6, <2>7 DEF LeftOver
<1>6. CASE PeriodicDump \/ FinishDump \/ FailDump \/ PeriodPasses \/ ChangelogApplyErrorRequest
  <2>1. /\ UNCHANGED <<log, mem, state, lastLogVersion, downloading, cursor, loading>>
        /\ SameFlow(toShadow, toShadow')
    BY ZenonT(30), <1>6, DumpEffect
  <2> QED
    BY ZenonT(30), <1>2, <2>1 DEF SameFlow
<1>7. CASE RegisterShadow
  <2>1. /\ UNCHANGED <<log, mem, sdisk, state, lastLogVersion, loading, cursor, downloading>>
        /\ toMaster # <<>> /\ Head(toMaster).op = "register"
    BY ZenonT(30), <1>7 DEF RegisterShadow, FromShadow
  <2>2. toShadow = <<>> /\ ~eptr.registered
    BY ZenonT(30), <1>1, <2>1, Taken DEF Registration
  <2>3. state = "downloading" => ~FollowUp
    <3>1. state = "downloading" => downloading \in {"metadata", "nothing"}
      BY ZenonT(30), <2>2 DEF Registration
    <3> QED
      BY ZenonT(30), <3>1
  <2>4. toShadow' \in Seq(ToShadowPacket)
    BY ZenonT(30), InvStep DEF RInv, Types
  <2>5. \A n : ~After(toShadow', n)
    BY ZenonT(30), <1>7, <2>2, <2>4, RegisterFacts, SentMore
  <2> QED
    BY ZenonT(30), <1>1, <2>1, <2>3, <2>5, <1>CursorSame DEF LeftOver
<1>8. CASE DownloadStart
  <2>1. /\ UNCHANGED <<log, mem, sdisk, state, lastLogVersion, loading, cursor, downloading>>
        /\ \A n : (Sent(toShadow', n) <=> Sent(toShadow, n)) /\ ~After(toShadow', n)
    BY ZenonT(30), <1>8, OpenEffect
  <2> QED
    BY ZenonT(30), <1>2, <2>1
<1>9. CASE Connect
  <2>1. /\ UNCHANGED <<log, mem, cursor, lastLogVersion, loading, toShadow>> /\ ~loading /\ ~up
        /\ downloading' \in {"metadata", "nothing"}
        /\ lastLogVersion = 0 \/ state' = state
    BY ZenonT(30), <1>9 DEF Connect
  <2>2. downloading' \notin {"changelog", "changelog1", "sessions"}
    BY ZenonT(30), <2>1
  <2>3. toShadow' = <<>>
    BY ZenonT(30), <2>1 DEF RInv, Traffic
  <2>4. \A n : ~After(toShadow', n)
    BY ZenonT(30), <1>1, <2>3, SentSteps
  <2>5. ~(lastLogVersion > 0) \/ state' = state
    BY <1>1, <2>1
  <2> QED
    BY ZenonT(30), <1>1, <2>1, <2>2, <2>4, <2>5, <1>CursorSame DEF LeftOver
<1>10. CASE OnRegistered \/ ChangelogApplyError
  <2>1. CASE ForceMetadataDownload
    BY ZenonT(30), <1>4, <2>1 DEF ForceMetadataDownload
  <2>2. CASE /\ toShadow # <<>> /\ toShadow' = Tail(toShadow) /\ state' \in {state, "limbo"}
             /\ UNCHANGED <<log, mem, cursor, lastLogVersion, loading, downloading>>
    <3>1. \A n : (Sent(toShadow', n) => Sent(toShadow, n)) /\ (After(toShadow', n) => After(toShadow, n))
      BY ZenonT(30), <1>1, <2>2, SentSteps
    <3>2. state' = "downloading" => state = "downloading"
      BY ZenonT(30), <2>2
    <3> QED
      BY ZenonT(30), <1>2, <2>2, <3>1, <3>2
  <2> QED
    BY ZenonT(30), <1>10, <2>1, <2>2 DEF OnRegistered, ChangelogApplyError, FromMaster, Consumed
<1>11. CASE MetachangesLog
  <2> DEFINE p == Head(toShadow)
             line == [id |-> p.id, change |-> p.change]
             x == Restore(mem, cursor, line)
  <2>1. /\ ~loading /\ line \in Line /\ line.id = p.id /\ LineOf(line, log)
        /\ UNCHANGED <<log, downloading, loading>>
        /\ \A n : /\ Sent(toShadow, n) <=> Sent(toShadow', n) \/ p.id = n
                  /\ After(toShadow', n) <=> After(toShadow, n)
    BY ZenonT(30), <1>11, ReceiveEffect
  <2>2. p.id \in Nat /\ p.id > 0
    BY <1>1, <2>1 DEF Line, LineOf
  <2>3. CASE state' = "dumpPending" /\ UNCHANGED <<lastLogVersion, mem, cursor>>
    <3>1. state' # "downloading"
      BY ZenonT(30), <2>3
    <3> QED
      BY ZenonT(30), <1>2, <2>1, <2>3, <3>1
  <2>4. CASE /\ lastLogVersion' = p.id /\ state' = state /\ state # "sync" /\ UNCHANGED <<mem, cursor>>
    <3>1. lastLogVersion' > 0
      BY ZenonT(30), <2>2, <2>4
    <3> QED
      BY ZenonT(60), <1>1, <2>1, <2>4, <3>1, <1>CursorSame DEF LeftOver
  <2>5. CASE /\ state = "sync" /\ mem' = x.mem /\ cursor' = x.cursor
             /\ lastLogVersion = 0 \/ p.id = lastLogVersion + 1
             /\ \/ ~x.ok /\ state' = "dumpPending" /\ lastLogVersion' = lastLogVersion
                \/ x.ok /\ state' = "sync" /\ lastLogVersion' = p.id
    <3> HIDE DEF line
    <3>1. /\ Zero' \/ cursor'.next <= cursor'.current + 1
          /\ High(mem) => cursor'.current = cursor.current
          /\ ~High(mem) /\ ~x.ok => cursor'.current < Len(log)
      BY ZenonT(30), <2>1, <2>5, ReceiveCursor
    <3>2. lastLogVersion' = p.id => lastLogVersion' > 0
      BY ZenonT(30), <2>2
    <3>3. state' # "downloading" /\ state # "downloading"
      BY ZenonT(30), <2>5
    <3> HIDE DEF x
    <3>4. High(mem) => ~Zero
      BY ZenonT(30) DEF High
    <3> QED
      BY ZenonT(30), <1>1, <2>1, <2>5, <3>1, <3>2, <3>3, <3>4 DEF LeftOver
  <2> HIDE DEF line, x
  <2> QED
    BY ZenonT(30), <1>11, <2>3, <2>4, <2>5, ReceiveEffect DEF line, x
<1>12. CASE DownloadNext
  <2>1. /\ UNCHANGED <<log, lastLogVersion, state, cursor>> /\ ~loading
        /\ \A n : /\ Sent(toShadow', n) <=> Sent(toShadow, n)
                  /\ After(toShadow, n) <=> Sent(toShadow', n)
                  /\ ~After(toShadow', n)
    BY ZenonT(30), <1>12, FileEffect
  <2>2. \/ downloading = "metadata" /\ UNCHANGED <<mem, loading>>
        \/ downloading \in {"changelog", "changelog1"} /\ UNCHANGED <<mem, loading>>
        \/ downloading' = "nothing" /\ loading'
        \/ downloading' = "nothing" /\ UNCHANGED <<mem, loading>>
    BY ZenonT(30), <1>12, FileEffect
  <2>3. /\ downloading \in {"changelog", "changelog1"} => downloading \in {"changelog", "changelog1", "sessions"}
        /\ downloading' = "nothing" => downloading' \notin {"changelog", "changelog1", "sessions"}
    BY ZenonT(30)
  <2>4. ~Zero => cursor.current < Len(log) \/ (lastLogVersion > 0 /\ state # "downloading")
    BY ZenonT(30), <1>1, <2>1 DEF LeftOver
  <2>5. (~Zero /\ state = "downloading" /\ ~loading /\ FollowUp => ~Sent(toShadow, cursor.current + 1))'
    BY ZenonT(30), <1>1, <2>1, <2>2, <2>3, <1>CursorSame DEF LeftOver
  <2> QED
    BY ZenonT(30), <1>1, <2>1, <2>4, <2>5, <1>CursorSame DEF LeftOver
<1>13. CASE OpenChangelog
  BY ZenonT(30), <1>2, <1>13, CappedInOrder
<1>14. CASE LoadLine
  <2> DEFINE x == ReplayLine([ok |-> TRUE, mem |-> mem, cursor |-> cursor], Head(lines))
  <2>1. /\ UNCHANGED <<log, lastLogVersion, downloading, toShadow>> /\ loading
        /\ \/ x.ok /\ loading' = loading /\ state' = state
           \/ ~x.ok /\ ~loading' /\ state' = "dumpPending"
    BY ZenonT(30), <1>14 DEF LoadLine, RequestMetadataDump
  <2>2. state = "downloading" /\ (x.ok => loading')
    BY ZenonT(30), <2>1 DEF RInv, Service
  <2>3. state' # "downloading" \/ loading'
    BY ZenonT(30), <2>1, <2>2
  <2>4. /\ Zero' \/ cursor'.next <= cursor'.current + 1
        /\ \/ x.ok /\ mem' = mem /\ cursor' = cursor
           \/ /\ High(mem) /\ cursor'.current = cursor.current
              /\ x.ok => mem' = mem /\ cursor' = cursor
           \/ ~High(mem) /\ ~x.ok /\ cursor'.current < Len(log)
           \/ x.ok /\ cursor'.current = Len(mem')
    BY ZenonT(30), <1>14, ReplayCursor
  <2>5. High(mem) => ~Zero /\ cursor.current # Len(mem)
    <3>1. mem \in Seq(Nat)
      BY ZenonT(30), <2>1 DEF RInv, Service
    <3> QED
      BY <1>1, <3>1 DEF High
  <2> HIDE DEF x
  <2>6. ~Zero => cursor.current < Len(log) \/ cursor.current = Len(mem)
    BY ZenonT(30), <1>1, <2>2 DEF LeftOver
  <2>7. x.ok \/ ~x.ok
    BY ZenonT(30)
  <2>8. (~Zero => \/ cursor.current < Len(log)
                  \/ loading /\ cursor.current = Len(mem))'
    BY ZenonT(30), <2>1, <2>2, <2>4, <2>5, <2>6, <1>CursorSame
  <2> QED
    BY ZenonT(30), <2>3, <2>4, <2>8 DEF LeftOver
<1>15. CASE FinishLoad
  <2>1. /\ UNCHANGED <<log, mem, cursor>> /\ loading /\ ~loading' /\ lastLogVersion' = Len(mem) /\ state' = "sync"
    BY ZenonT(30), <1>15 DEF FinishLoad
  <2>2. state = "downloading" /\ state' # "downloading"
    BY ZenonT(30), <2>1 DEF RInv, Service
  <2>3. ~Zero /\ cursor.current = Len(mem) => lastLogVersion' > 0
    BY <1>1, <2>1 DEF Zero
  <2> QED
    BY ZenonT(30), <1>1, <2>1, <2>2, <2>3, <1>CursorSame DEF LeftOver
<1>16. CASE RetryDumpRequest \/ SessionsDownload \/ ShadowDump
  <2>1. /\ UNCHANGED <<log, mem, cursor, lastLogVersion, loading, toShadow>>
        /\ state' \in {state, "dumpPending"}
        /\ state' = "sync" \/ downloading' = downloading
    BY ZenonT(30), <1>16 DEF RetryDumpRequest, SessionsDownload, ShadowDump, RequestMetadataDump
  <2>2. state' = "downloading" => state = "downloading" /\ downloading' = downloading
    BY ZenonT(30), <2>1
  <2> QED
    BY ZenonT(30), <1>1, <2>1, <2>2, <1>CursorSame DEF LeftOver
<1>17. CASE Disconnect \/ MasterRestart
  BY ZenonT(30), <1>3, <1>17 DEF Disconnect, MasterRestart
<1>18. CASE DownloadFails
  <2>1. /\ toShadow # <<>> /\ toShadow' = Tail(toShadow) /\ downloading' = "nothing"
        /\ UNCHANGED <<log, mem, cursor, state, lastLogVersion, loading>>
    BY ZenonT(30), <1>18 DEF DownloadFails, Consumed
  <2>2. \A n : (Sent(toShadow', n) => Sent(toShadow, n)) /\ (After(toShadow', n) => After(toShadow, n))
    BY ZenonT(30), <1>1, <2>1, SentSteps
  <2>3. ~FollowUp'
    BY ZenonT(30), <2>1
  <2> QED
    BY ZenonT(30), <1>2, <2>1, <2>2, <2>3
<1>19. CASE ShadowRestart \/ Promote
  BY ZenonT(30), <1>4, <1>19 DEF ShadowRestart, Promote, FreshShadow
<1>20. CASE UNCHANGED vars
  BY ZenonT(30), <1>2, <1>20 DEF vars
<1> QED
  BY ZenonT(30), <1>5, <1>6, <1>7, <1>8, <1>9, <1>10, <1>11, <1>12, <1>13, <1>14, <1>15, <1>16,
     <1>17, <1>18, <1>19, <1>20 DEF Next

-----------------------------------------------------------------------------
(* The download *)

\* A packet at the end of a queue does not hide what is absent.
LEMMA AbsentBefore ==
  ASSUME NEW S, NEW s \in Seq(S), NEW p \in S, NEW op
  PROVE  /\ Absent(Append(s, p), op) => Absent(s, op)
         /\ p.op # op /\ Absent(s, op) => Absent(Append(s, p), op)
<1>1. \A i \in 1..Len(s) : i \in 1..Len(Append(s, p)) /\ Append(s, p)[i] = s[i]
  OBVIOUS
<1>2. Absent(Append(s, p), op) => Absent(s, op)
  BY ZenonT(30), <1>1 DEF Absent
<1> QED
  BY ZenonT(30), <1>2, Added

\* A queue with a file in it.
LEMMA CarriesFile ==
  ASSUME NEW q, NEW h, Carries(q, h)
  PROVE  ~Absent(q, "file")
BY ZenonT(30) DEF Carries, Absent

\* What the shadow that downloads lacks can be found.
LEMMA FetchedStep ==
  ASSUME RInv, FlagTypes, ~LostChanges, Registration, MasterCovers, Fetched, [Next]_vars
  PROVE  Fetched'
\* A queue that loses a packet that is neither a change nor a file.
<1>OtherTaken.
  ASSUME NEW q \in Seq(ToShadowPacket), q # <<>>, Head(q).op \notin {"change", "file"}
  PROVE  SameFlow(q, Tail(q)) /\ (Absent(q, "file") => Absent(Tail(q), "file"))
  <2> USE <1>OtherTaken
  <2>1. Head(q).op # "change" /\ Head(q).op # "file"
    BY ZenonT(30)
  <2>2. \A n : /\ Sent(q, n) <=> Sent(Tail(q), n) \/ (Head(q).op = "change" /\ Head(q).id = n)
               /\ After(q, n) <=> After(Tail(q), n) \/ (Head(q).op = "file" /\ Sent(Tail(q), n))
               /\ Carries(q, n) <=> Carries(Tail(q), n) \/ (Head(q).op = "file" /\ Head(q).data = n)
    BY ZenonT(30), SentSteps
  <2>3. SameFlow(q, Tail(q))
    BY ZenonT(30), <2>1, <2>2 DEF SameFlow
  <2>4. Absent(q, "file") => Absent(Tail(q), "file")
    BY ZenonT(30), Taken
  <2> QED
    BY ZenonT(30), <2>3, <2>4
\* The changes that will be found stay so when the queue, the files and the place in the
\* download stay.
<1>FetchedSame.
  ASSUME Fetched, UNCHANGED <<log, sdisk, downloading, overwritten, torn>>,
         eptr'.chain1 = eptr.chain1, eptr'.chain2 = eptr.chain2, eptr'.registered => eptr.registered,
         state' = "downloading" => state = "downloading", ~loading' => ~loading,
         SameFlow(toShadow, toShadow'), Absent(toShadow, "file") => Absent(toShadow', "file")
  PROVE  Fetched'
  <2> USE <1>FetchedSame
  <2>1. \A n : Found(n) => Found(n)'
    <3> SUFFICES ASSUME NEW n, Found(n) PROVE Found(n)'
      BY Zenon
    <3>1. \A f : Carries(toShadow, f) => Carries(toShadow', f)
      BY ZenonT(30) DEF SameFlow
    <3>2. Sent(toShadow, n) => Sent(toShadow', n)
      BY ZenonT(30) DEF SameFlow
    <3> QED
      BY ZenonT(60), <3>1, <3>2 DEF Found
  <2>2. FollowUp' => FollowUp
    BY ZenonT(30) DEF FollowUp
  <2> QED
    BY ZenonT(60), <2>1, <2>2 DEF Fetched, SameFlow
\* A new change is sent behind the file under way.
<1>FetchedChange.
  ASSUME RInv, Fetched, MasterChange
  PROVE  Fetched'
  <2> USE <1>FetchedChange
  <2> SUFFICES ASSUME eptr.registered, Fetched PROVE Fetched'
    BY ZenonT(30), ChangeEffect DEF Fetched
  <2>1. /\ UNCHANGED <<sdisk, state, downloading, loading, torn, overwritten>>
        /\ log \in Seq(Nat) /\ Len(log') = Len(log) + 1
    BY ZenonT(30), ChangeEffect
  <2>2. \A h, n : Lacks(h, log', n) => Lacks(h, log, n) \/ n = Len(log) + 1
    BY <2>1 DEF Lacks
  <2>3. \A n : /\ Sent(toShadow', n) <=> Sent(toShadow, n) \/ n = Len(log) + 1
               /\ After(toShadow', n) <=> After(toShadow, n) \/ (~Absent(toShadow, "file") /\ n = Len(log) + 1)
               /\ Carries(toShadow', n) <=> Carries(toShadow, n)
    BY ZenonT(30), ChangeFlow
  <2>4. PICK r \in Line : /\ r.id = Len(log) + 1
                          /\ eptr'.chain1 \in {eptr.chain1, Append(eptr.chain1, r)}
                          /\ eptr'.chain2 = eptr.chain2
                          /\ toShadow' = Append(toShadow, [op |-> "change", id |-> r.id, change |-> r.change])
    BY ZenonT(30), ChangeEffect
  <2>5. \A n : Has(eptr.chain1, n) => Has(eptr'.chain1, n)
    <3>1. eptr.chain1 \in Seq(Line)
      BY ZenonT(30) DEF RInv, Types, Entry
    <3>2. \A n : Has(eptr.chain1, n) => Has(Append(eptr.chain1, r), n)
      BY ZenonT(30), <3>1, HasSteps
    <3> QED
      BY ZenonT(30), <2>4, <3>2
  <2>6. Absent(toShadow, "file") => Absent(toShadow', "file")
    <3>1. toShadow \in Seq(ToShadowPacket) /\ r.id \in Nat /\ r.change \in Nat
      BY ZenonT(30) DEF RInv, Types, Line
    <3>2. ASSUME NEW p \in ToShadowPacket, p.op = "change", toShadow' = Append(toShadow, p)
          PROVE  Absent(toShadow, "file") => Absent(toShadow', "file")
      <4>1. p.op # "file"
        BY ZenonT(30), <3>2
      <4> QED
        BY ZenonT(30), <3>1, <3>2, <4>1, AbsentBefore
    <3>3. [op |-> "change", id |-> r.id, change |-> r.change].op = "change"
      BY ZenonT(30)
    <3>4. [op |-> "change", id |-> r.id, change |-> r.change] \in ToShadowPacket
      BY ZenonT(30), <3>1, PacketTypes
    <3> QED
      BY ZenonT(30), <2>4, <3>2, <3>3, <3>4
  <2>7. \A n : Found(n) \/ n = Len(log) + 1 => Found(n)'
    <3>1. ASSUME NEW n, Found(n) PROVE Found(n)'
      BY ZenonT(60), <2>1, <2>3, <2>4, <2>5, <2>6, <3>1 DEF Found
    <3>2. ASSUME NEW n, n = Len(log) + 1 PROVE Found(n)'
      BY ZenonT(30), <2>3, <3>2 DEF Found
    <3> QED
      BY ZenonT(30), <3>1, <3>2
  <2>8. \A h : Carries(toShadow, h) => ~Absent(toShadow, "file")
    BY ZenonT(30), CarriesFile
  <2>9. eptr'.registered = eptr.registered
    BY ZenonT(30), ChangeEffect
  <2>10. FollowUp' => FollowUp
    BY ZenonT(30), <2>1 DEF FollowUp
  <2>11. ASSUME state = "downloading", ~loading, ~torn, downloading = "metadata", NEW h, Carries(toShadow, h),
                NEW n, Lacks(h, log', n)
         PROVE  Has(eptr'.chain1, n) \/ Has(eptr'.chain2, n) \/ After(toShadow', n)
    <3>1. Lacks(h, log, n) \/ n = Len(log) + 1
      BY ZenonT(30), <2>2, <2>11
    <3>2. CASE n = Len(log) + 1
      BY ZenonT(30), <2>3, <2>8, <2>11, <3>2
    <3>3. CASE Lacks(h, log, n)
      BY ZenonT(30), <2>3, <2>4, <2>5, <2>11, <3>3 DEF Fetched
    <3> QED
      BY ZenonT(30), <3>1, <3>2, <3>3
  <2>12. ASSUME state = "downloading", ~loading, ~torn, FollowUp, ~overwritten, NEW n, Lacks(sdisk.meta, log', n)
         PROVE  Found(n)'
    <3>1. Lacks(sdisk.meta, log, n) \/ n = Len(log) + 1
      BY ZenonT(30), <2>2, <2>12
    <3>2. Lacks(sdisk.meta, log, n) => Found(n)
      BY ZenonT(30), <2>12 DEF Fetched
    <3> QED
      BY ZenonT(30), <2>7, <3>1, <3>2
  <2> QED
    BY ZenonT(60), <2>1, <2>3, <2>10, <2>11, <2>12 DEF Fetched
\* The metadata goes out with the changelogs it needs, and then the changelogs.
<1>FetchedStart.
  ASSUME RInv, FlagTypes, MasterCovers, Fetched, DownloadStart
  PROVE  Fetched'
  <2> USE <1>FetchedStart
  <2>1. /\ UNCHANGED <<log, mdisk, dump, failures, sdisk, state, downloading, loading, overwritten>>
        /\ eptr'.registered = eptr.registered /\ Absent(toShadow, "file")
        /\ torn' = IF downloading = "metadata" THEN Rotations > 1 ELSE torn
        /\ \A n : (Sent(toShadow', n) <=> Sent(toShadow, n)) /\ ~Carries(toShadow, n)
    BY ZenonT(30), OpenEffect
  <2>2. PICK p \in ToShadowPacket :
          /\ toShadow' = Append(toShadow, p) /\ p.op = "file"
          /\ \/ /\ downloading = "metadata" /\ p.data = mdisk.meta
                /\ eptr'.chain1 = mdisk.cur /\ eptr'.chain2 = mdisk.log1
             \/ /\ downloading = "changelog" /\ p.data = eptr.chain1
                /\ eptr'.chain1 = <<>> /\ eptr'.chain2 = eptr.chain2
             \/ /\ downloading = "changelog1" /\ p.data = eptr.chain2
                /\ eptr'.chain1 = eptr.chain1 /\ eptr'.chain2 = <<>>
             \/ downloading = "sessions" /\ eptr'.chain1 = <<>> /\ eptr'.chain2 = <<>>
    BY ZenonT(30), OpenEffect
  <2>3. \A f : Carries(toShadow', f) <=> p.data = f
    <3>1. toShadow \in Seq(ToShadowPacket)
      BY ZenonT(30) DEF RInv, Types
    <3>2. \A r, n : Carries(Append(toShadow, r), n) <=> Carries(toShadow, n) \/ (r.op = "file" /\ r.data = n)
      BY ZenonT(30), <3>1, SentSteps
    <3> QED
      BY ZenonT(30), <2>1, <2>2, <3>2
  <2>4. CASE downloading = "metadata"
    <3>1. p.data = mdisk.meta /\ eptr'.chain1 = mdisk.cur /\ eptr'.chain2 = mdisk.log1
      BY ZenonT(30), <2>2, <2>4
    <3>2. torn' = (Rotations > 1) /\ ~FollowUp'
      BY ZenonT(30), <2>1, <2>4 DEF FollowUp
    <3>3. ~(Rotations > 1) => Rotations = 0 \/ Rotations = 1
      BY DEF Rotations, FlagTypes
    <3>4. ~(Rotations > 1) => \A n : Lacks(mdisk.meta, log, n) => Has(mdisk.cur, n) \/ Has(mdisk.log1, n)
      BY ZenonT(30), <3>3 DEF MasterCovers
    <3>5. ~torn' => ~(Rotations > 1)
      BY ZenonT(30), <3>2
    <3> QED
      BY ZenonT(30), <2>1, <2>3, <3>1, <3>2, <3>4, <3>5 DEF Fetched
  <2>5. CASE downloading # "metadata"
    <3>1. torn' = torn
      BY ZenonT(30), <2>1, <2>5
    <3>2. ASSUME NEW n, Found(n), FollowUp PROVE Found(n)'
      <4>1. ~(\E f : Carries(toShadow, f) /\ Has(f, n))
        BY ZenonT(30), <2>1
      <4>2. CASE Sent(toShadow, n) \/ Has(sdisk.cur, n)
        BY ZenonT(30), <2>1, <4>2 DEF Found
      <4>3. CASE downloading = "changelog" /\ Has(eptr.chain2, n)
        <5>1. eptr'.chain2 = eptr.chain2
          BY ZenonT(30), <2>2, <4>3
        <5> QED
          BY ZenonT(30), <2>1, <4>3, <5>1 DEF Found
      <4>4. CASE downloading = "changelog" /\ Has(eptr.chain1, n)
        <5>1. p.data = eptr.chain1 /\ downloading \in {"changelog", "changelog1"}
          BY ZenonT(30), <2>2, <4>4
        <5> QED
          BY ZenonT(30), <2>1, <2>3, <4>4, <5>1 DEF Found
      <4>5. CASE downloading = "changelog1" /\ Has(eptr.chain2, n)
        <5>1. p.data = eptr.chain2 /\ downloading \in {"changelog", "changelog1"}
          BY ZenonT(30), <2>2, <4>5
        <5> QED
          BY ZenonT(30), <2>1, <2>3, <4>5, <5>1 DEF Found
      <4>6. CASE \/ downloading \in {"changelog1", "sessions"} /\ Has(sdisk.log1, n)
                 \/ downloading = "sessions" /\ Has(sdisk.log2, n)
        BY ZenonT(30), <2>1, <4>6 DEF Found
      <4> QED
        BY ZenonT(30), <3>2, <4>1, <4>2, <4>3, <4>4, <4>5, <4>6 DEF Found
    <3>3. (FollowUp' => FollowUp) /\ downloading' # "metadata"
      BY ZenonT(30), <2>1, <2>5 DEF FollowUp
    <3>4. /\ state' = state /\ sdisk' = sdisk /\ log' = log
          /\ ~loading' => ~loading
          /\ ~torn' => ~torn
          /\ ~overwritten' => ~overwritten
          /\ eptr'.registered => eptr.registered
      BY <2>1, <3>1
    <3> QED
      BY ZenonT(30), <3>2, <3>3, <3>4 DEF Fetched
  <2> QED
    BY ZenonT(30), <2>4, <2>5
\* A change is stored while files are downloaded.
<1>FetchedStore.
  ASSUME RInv, Fetched, MetachangesLog
  PROVE  Fetched'
  <2> USE <1>FetchedStore
  <2> DEFINE p == Head(toShadow)
             line == [id |-> p.id, change |-> p.change]
  <2>1. /\ toShadow # <<>> /\ line \in Line /\ line.id = p.id /\ toShadow' = Tail(toShadow)
        /\ UNCHANGED <<log, eptr, downloading, loading, torn, overwritten>>
        /\ \A n : /\ Sent(toShadow, n) <=> Sent(toShadow', n) \/ p.id = n
                  /\ After(toShadow', n) <=> After(toShadow, n)
                  /\ Carries(toShadow', n) <=> Carries(toShadow, n)
    BY ZenonT(30), ReceiveEffect
  <2>2. \/ state' = "dumpPending"
        \/ /\ state' = state
           /\ sdisk'.meta = sdisk.meta /\ sdisk'.cur = Append(sdisk.cur, line)
           /\ sdisk'.log1 = sdisk.log1 /\ sdisk'.log2 = sdisk.log2
    BY ZenonT(30), ReceiveEffect
  <2>3. CASE state' = "dumpPending"
    <3>1. state' # "downloading"
      BY ZenonT(30), <2>3
    <3> QED
      BY ZenonT(30), <3>1 DEF Fetched
  <2>4. CASE /\ state' = state
             /\ sdisk'.meta = sdisk.meta /\ sdisk'.cur = Append(sdisk.cur, line)
             /\ sdisk'.log1 = sdisk.log1 /\ sdisk'.log2 = sdisk.log2
    <3> HIDE DEF line, p
    <3>1. sdisk.cur \in Seq(Line) /\ toShadow \in Seq(ToShadowPacket)
      BY ZenonT(30) DEF RInv, Types, Disk
    <3>2. \A n : Has(sdisk'.cur, n) <=> Has(sdisk.cur, n) \/ p.id = n
      <4>1. \A n : Has(Append(sdisk.cur, line), n) <=> Has(sdisk.cur, n) \/ line.id = n
        BY ZenonT(30), <2>1, <3>1, HasSteps
      <4> QED
        BY ZenonT(30), <2>1, <2>4, <4>1
    <3>3. Absent(toShadow, "file") => Absent(toShadow', "file")
      BY ZenonT(30), <2>1, <3>1, Taken
    <3>4. ASSUME NEW n, Found(n) PROVE Found(n)'
      BY ZenonT(60), <2>1, <2>4, <3>2, <3>3, <3>4 DEF Found
    <3>5. FollowUp' => FollowUp
      BY ZenonT(30), <2>1 DEF FollowUp
    <3> QED
      BY ZenonT(60), <2>1, <2>4, <3>4, <3>5 DEF Fetched
  <2> QED
    BY ZenonT(30), <2>2, <2>3, <2>4
\* A file takes its place.
<1>FetchedNext.
  ASSUME RInv, Registration, Fetched, DownloadNext
  PROVE  Fetched'
  <2> USE <1>FetchedNext
  <2> DEFINE data == Head(toShadow).data
  <2>1. /\ toShadow # <<>> /\ toShadow' = Tail(toShadow) /\ Absent(toShadow', "file") /\ ~loading
        /\ UNCHANGED <<log, eptr, state, torn>>
        /\ \A n : /\ Sent(toShadow', n) <=> Sent(toShadow, n)
                  /\ After(toShadow, n) <=> Sent(toShadow', n)
                  /\ ~Carries(toShadow', n)
                  /\ Carries(toShadow, n) <=> n = data
    BY ZenonT(30), FileEffect
  <2>2. ~Absent(toShadow, "file")
    BY ZenonT(30), <2>1, CarriesFile
  <2> HIDE DEF data
  <2>3. CASE /\ downloading = "metadata" /\ downloading' = "changelog"
             /\ sdisk'.meta = data /\ loading' = loading
    <3>1. downloading' # "metadata"
      BY ZenonT(30), <2>3
    <3>2. \A n : Has(eptr.chain1, n) \/ Has(eptr.chain2, n) \/ After(toShadow, n) => Found(n)'
      BY ZenonT(30), <2>1, <2>3 DEF Found
    <3> QED
      BY ZenonT(30), <2>1, <2>3, <3>1, <3>2 DEF Fetched
  <2>4. CASE /\ downloading = "changelog" /\ downloading' = "changelog1"
             /\ sdisk'.meta = sdisk.meta /\ sdisk'.cur = sdisk.cur
             /\ sdisk'.log1 = data /\ UNCHANGED <<loading, overwritten>>
    <3>1. /\ downloading' # "metadata" /\ downloading # "changelog1" /\ downloading # "sessions" /\ FollowUp
          /\ downloading' \in {"changelog1", "sessions"}
      BY ZenonT(30), <2>4 DEF FollowUp
    <3>2. ASSUME NEW n, Found(n) PROVE Found(n)'
      <4>1. downloading \notin {"changelog1", "sessions"}
        BY ZenonT(30), <3>1
      <4> QED
        BY ZenonT(30), <2>1, <2>2, <2>4, <3>1, <3>2, <4>1 DEF Found
    <3> QED
      BY ZenonT(30), <2>1, <2>4, <3>1, <3>2 DEF Fetched
  <2>5. CASE /\ downloading = "changelog1" /\ downloading' = "sessions"
             /\ sdisk'.meta = sdisk.meta /\ sdisk'.cur = sdisk.cur
             /\ sdisk'.log1 = sdisk.log1 /\ sdisk'.log2 = data /\ UNCHANGED <<loading, overwritten>>
    <3>1. /\ downloading' # "metadata" /\ downloading # "changelog" /\ downloading # "sessions" /\ FollowUp
          /\ downloading' \in {"changelog1", "sessions"}
      BY ZenonT(30), <2>5 DEF FollowUp
    <3>2. ASSUME NEW n, Found(n) PROVE Found(n)'
      BY ZenonT(30), <2>1, <2>2, <2>5, <3>1, <3>2 DEF Found
    <3> QED
      BY ZenonT(30), <2>1, <2>5, <3>1, <3>2 DEF Fetched
  <2>6. CASE downloading' = "nothing"
    <3>1. downloading' # "metadata" /\ ~FollowUp'
      BY ZenonT(30), <2>6 DEF FollowUp
    <3> QED
      BY ZenonT(30), <3>1 DEF Fetched
  <2> QED
    BY ZenonT(30), <2>3, <2>4, <2>5, <2>6, FileEffect DEF data
<1> USE DEF master, link, loader, shadow, ghosts
<1>1. toShadow \in Seq(ToShadowPacket) /\ toMaster \in Seq(ToMasterPacket) /\ Fetched
  BY ZenonT(30) DEF RInv, Types
<1>2. CASE ~(state' = "downloading" /\ ~loading' /\ eptr'.registered)
  BY ZenonT(30), <1>2 DEF Fetched
<1>3. CASE Close
  BY ZenonT(30), <1>2, <1>3, CloseEffect
<1>4. CASE PeriodicDump \/ FinishDump \/ FailDump \/ PeriodPasses \/ ChangelogApplyErrorRequest
  <2>1. /\ UNCHANGED <<log, sdisk, state, downloading, loading, torn, overwritten>>
        /\ eptr'.registered = eptr.registered
        /\ eptr'.chain1 = eptr.chain1 /\ eptr'.chain2 = eptr.chain2 /\ SameFlow(toShadow, toShadow')
    BY ZenonT(30), <1>4, DumpEffect
  <2>2. Absent(toShadow, "file") => Absent(toShadow', "file")
    <3>1. CASE toShadow' = toShadow
      BY ZenonT(30), <3>1
    <3>2. ASSUME NEW p \in ToShadowPacket, p.op = "applyError", toShadow' = Append(toShadow, p)
          PROVE  Absent(toShadow, "file") => Absent(toShadow', "file")
      <4>1. p.op # "file"
        BY ZenonT(30), <3>2
      <4> QED
        BY ZenonT(30), <1>1, <3>2, <4>1, AbsentBefore
    <3> QED
      BY ZenonT(30), <1>4, <3>1, <3>2, DumpEffect
  <2> QED
    BY ZenonT(30), <2>1, <2>2, <1>FetchedSame
<1>5. CASE RegisterShadow
  <2>1. /\ UNCHANGED <<downloading, state>> /\ toMaster # <<>> /\ Head(toMaster).op = "register"
    BY ZenonT(30), <1>5 DEF RegisterShadow, FromShadow
  <2>2. toShadow = <<>> /\ ~eptr.registered
    BY ZenonT(30), <1>1, <2>1, Taken DEF Registration
  <2>3. state = "downloading" => ~FollowUp
    <3>1. state = "downloading" => downloading \in {"metadata", "nothing"}
      BY ZenonT(30), <2>2 DEF Registration
    <3> QED
      BY ZenonT(30), <3>1 DEF FollowUp
  <2>4. toShadow' \in Seq(ToShadowPacket)
    BY ZenonT(30), InvStep DEF RInv, Types
  <2>5. \A n : ~Carries(toShadow', n)
    BY ZenonT(30), <1>5, <2>2, <2>4, RegisterFacts, SentMore
  <2>6. FollowUp' <=> FollowUp
    BY ZenonT(30), <2>1 DEF FollowUp
  <2> QED
    BY ZenonT(30), <2>1, <2>3, <2>5, <2>6 DEF Fetched
<1>6. CASE Connect
  <2>1. ~up /\ eptr' = eptr
    BY ZenonT(30), <1>6 DEF Connect
  <2>2. ~eptr'.registered
    BY ZenonT(30), <2>1 DEF RInv, Traffic
  <2> QED
    BY ZenonT(30), <1>2, <2>2
<1>7. CASE OnRegistered \/ ChangelogApplyError
  <2>1. CASE ForceMetadataDownload
    BY ZenonT(30), <1>3, <2>1 DEF ForceMetadataDownload
  <2>2. CASE state' = "limbo"
    <3>1. state' # "downloading"
      BY ZenonT(30), <2>2
    <3> QED
      BY ZenonT(30), <1>2, <3>1
  <2>3. CASE /\ toShadow # <<>> /\ Head(toShadow).op = "registered" /\ toShadow' = Tail(toShadow)
             /\ UNCHANGED <<log, eptr, sdisk, state, downloading, loading, torn, overwritten>>
    <3>1. Head(toShadow).op \notin {"change", "file"}
      BY ZenonT(30), <2>3
    <3>2. SameFlow(toShadow, toShadow') /\ (Absent(toShadow, "file") => Absent(toShadow', "file"))
      BY ZenonT(30), <1>1, <2>3, <3>1, <1>OtherTaken
    <3> QED
      BY ZenonT(30), <2>3, <3>2, <1>FetchedSame
  <2> QED
    BY ZenonT(30), <1>7, <2>1, <2>2, <2>3 DEF OnRegistered, ChangelogApplyError, FromMaster, Consumed
<1>8. CASE OpenChangelog \/ LoadLine \/ FinishLoad \/ RetryDumpRequest
  <2>1. (loading' = loading /\ loading) \/ state' = "dumpPending" \/ state' = "sync"
    BY ZenonT(30), <1>8 DEF OpenChangelog, LoadLine, FinishLoad, RetryDumpRequest, RequestMetadataDump
  <2>2. loading' \/ state' # "downloading"
    BY ZenonT(30), <2>1
  <2> QED
    BY ZenonT(30), <1>2, <2>2
<1>9. CASE SessionsDownload
  <2>1. state' # "downloading"
    BY ZenonT(30), <1>9 DEF SessionsDownload
  <2> QED
    BY ZenonT(30), <1>2, <2>1
<1>10. CASE ShadowDump
  <2>1. /\ UNCHANGED <<log, eptr, toShadow, state, downloading, loading, torn>>
        /\ overwritten' = (overwritten \/ (state = "downloading" /\ downloading # "metadata"))
    BY ZenonT(30), <1>10 DEF ShadowDump
  <2>2. state = "downloading" /\ FollowUp => overwritten'
    BY ZenonT(30), <2>1 DEF FollowUp
  <2>3. FollowUp' <=> FollowUp
    BY ZenonT(30), <2>1 DEF FollowUp
  <2> QED
    BY ZenonT(30), <1>1, <2>1, <2>2, <2>3 DEF Fetched
<1>11. CASE DownloadFails
  <2>1. downloading' # "metadata" /\ ~FollowUp'
    BY ZenonT(30), <1>11 DEF DownloadFails, FollowUp
  <2> QED
    BY ZenonT(30), <2>1 DEF Fetched
<1>12. CASE Disconnect \/ MasterRestart \/ ShadowRestart \/ Promote
  BY ZenonT(30), <1>3, <1>12 DEF Disconnect, MasterRestart, ShadowRestart, Promote, FreshShadow
<1>13. CASE UNCHANGED vars
  BY ZenonT(30), <1>1, <1>13, <1>FetchedSame DEF vars, SameFlow
<1> QED
  BY ZenonT(30), <1>4, <1>5, <1>6, <1>7, <1>8, <1>9, <1>10, <1>11, <1>12, <1>13, <1>FetchedChange,
     <1>FetchedStart, <1>FetchedStore, <1>FetchedNext DEF Next

-----------------------------------------------------------------------------
(* The replay *)

\* What is left to replay when a changelog is opened, and when a load begins.
LEMMA LeftSteps ==
  ASSUME NEW t \in Seq(Seq(Line)), NEW n
  PROVE  /\ t # <<>> => ((\E i \in 1..Len(t) : Has(t[i], n)) =>
                           Has(Head(t), n) \/ \E i \in 1..Len(Tail(t)) : Has(Tail(t)[i], n))
         /\ \A a, b, c : t = <<a, b, c>> /\ (Has(a, n) \/ Has(b, n) \/ Has(c, n)) =>
                           \E i \in 1..Len(t) : Has(t[i], n)
<1>1. ASSUME t # <<>>, NEW i \in 1..Len(t), Has(t[i], n)
      PROVE  Has(Head(t), n) \/ \E j \in 1..Len(Tail(t)) : Has(Tail(t)[j], n)
  <2>1. CASE i = 1
    <3>1. t[i] = Head(t)
      BY <1>1, <2>1
    <3> QED
      BY Zenon, <1>1, <3>1
  <2>2. CASE i # 1
    <3>1. i - 1 \in 1..Len(Tail(t)) /\ Tail(t)[i - 1] = t[i]
      BY <1>1, <2>2
    <3> QED
      BY Zenon, <1>1, <3>1
  <2> QED
    BY ZenonT(30), <2>1, <2>2
<1>2. ASSUME NEW a, NEW b, NEW c, t = <<a, b, c>>
      PROVE  1 \in 1..Len(t) /\ 2 \in 1..Len(t) /\ 3 \in 1..Len(t) /\ t[1] = a /\ t[2] = b /\ t[3] = c
  BY <1>2
<1>3. ASSUME NEW a, NEW b, NEW c, t = <<a, b, c>>, Has(a, n) \/ Has(b, n) \/ Has(c, n)
      PROVE  \E i \in 1..Len(t) : Has(t[i], n)
  <2>1. 1 \in 1..Len(t) /\ 2 \in 1..Len(t) /\ 3 \in 1..Len(t) /\ t[1] = a /\ t[2] = b /\ t[3] = c
    BY Zenon, <1>2, <1>3
  <2> QED
    BY Zenon, <1>3, <2>1
<1> QED
  BY Zenon, <1>1, <1>3

\* What the metadata being loaded lacks is still to come.
LEMMA ReplayedStep ==
  ASSUME RInv, FlagTypes, ~LostChanges, Registration, AllCapped, Stored, LeftOver, Fetched, Replayed,
         [Next]_vars
  PROVE  Replayed'
\* What is left stays when nothing is replayed and no change is made or taken.
<1>ReplayedSame.
  ASSUME Replayed, UNCHANGED <<log, mem, cursor, lines, todo, torn, overwritten>>,
         loading' => loading, eptr'.registered => eptr.registered,
         up' => up, up' => eptr'.registered = eptr.registered,
         eptr'.registered => \A n : Sent(toShadow, n) => Sent(toShadow', n)
  PROVE  Replayed'
  <2> USE <1>ReplayedSame
  <2>1. \A n : Left(n) => Left(n)'
    BY ZenonT(30) DEF Left
  <2>2. High(mem)' <=> High(mem)
    BY ZenonT(30) DEF High, Zero
  <2>3. (loading /\ up => eptr.registered)'
    BY ZenonT(30) DEF Replayed
  <2>4. ASSUME loading', ~torn', ~overwritten', High(mem)' PROVE Left(cursor.current + 1)'
    <3>1. Left(cursor.current + 1)
      BY ZenonT(30), <2>2, <2>4 DEF Replayed
    <3> QED
      BY ZenonT(30), <3>1 DEF Left
  <2>5. ASSUME loading', ~torn', ~overwritten', ~High(mem)', eptr'.registered, NEW n, Lacks(mem', log', n)
        PROVE  Left(n)' \/ Sent(toShadow', n)
    <3>1. Left(n) \/ Sent(toShadow, n)
      BY ZenonT(30), <2>2, <2>5 DEF Replayed
    <3> QED
      BY ZenonT(30), <2>1, <2>5, <3>1
  <2> QED
    BY ZenonT(30), <2>3, <2>4, <2>5 DEF Replayed
\* A new change is sent.
<1>ReplayedChange.
  ASSUME RInv, Replayed, MasterChange
  PROVE  Replayed'
  <2> USE <1>ReplayedChange
  <2>1. /\ UNCHANGED <<up, mem, cursor, loading, todo, lines, torn, overwritten>>
        /\ log \in Seq(Nat) /\ Len(log') = Len(log) + 1 /\ eptr'.registered = eptr.registered
    BY ZenonT(30), ChangeEffect
  <2>2. \A n : Lacks(mem, log', n) => Lacks(mem, log, n) \/ n = Len(log) + 1
    BY <2>1 DEF Lacks
  <2>3. eptr.registered => \A n : Sent(toShadow', n) <=> Sent(toShadow, n) \/ n = Len(log) + 1
    BY ZenonT(30), ChangeFlow
  <2>4. /\ \A n : Left(n) => Left(n)'
        /\ High(mem)' <=> High(mem)
        /\ loading' => loading
        /\ ~torn' => ~torn
        /\ ~overwritten' => ~overwritten
        /\ eptr'.registered <=> eptr.registered
        /\ up' => up
        /\ mem' = mem
    BY ZenonT(30), <2>1 DEF Left, High, Zero
  <2>5. Left(cursor.current + 1) => Left(cursor.current + 1)'
    BY ZenonT(30), <2>1 DEF Left
  <2> QED
    BY ZenonT(60), <2>2, <2>3, <2>4, <2>5 DEF Replayed
\* The load begins with the changelogs downloaded and stored.
<1>ReplayedNext.
  ASSUME RInv, Registration, Stored, LeftOver, Fetched, Replayed, RInv', DownloadNext
  PROVE  Replayed'
  <2> USE <1>ReplayedNext
  <2>1. /\ toShadow # <<>> /\ toShadow' = Tail(toShadow) /\ ~loading
        /\ UNCHANGED <<log, eptr, state, cursor, lines, torn>>
        /\ \A n : Sent(toShadow', n) <=> Sent(toShadow, n)
    BY ZenonT(30), FileEffect
  <2>2. eptr.registered
    BY ZenonT(30), <2>1, ConsumedKeeps
  <2>3. CASE ~loading'
    BY ZenonT(30), <2>3 DEF Replayed
  <2>4. CASE /\ downloading = "sessions" /\ UNCHANGED <<sdisk, overwritten>>
             /\ state = "downloading" /\ loading' /\ mem' = sdisk.meta
             /\ todo' = <<sdisk.log2, sdisk.log1, sdisk.cur>>
    <3>1. FollowUp /\ downloading \notin {"changelog", "changelog1"}
      BY ZenonT(30), <2>4 DEF FollowUp
    <3>2. \A n : Found(n) => Sent(toShadow, n) \/ Has(sdisk.cur, n) \/ Has(sdisk.log1, n) \/ Has(sdisk.log2, n)
      <4>1. downloading # "changelog" /\ downloading # "changelog1"
        BY ZenonT(30), <2>4
      <4> QED
        BY ZenonT(30), <3>1, <4>1 DEF Found
    <3>3. todo' \in Seq(Seq(Line))
      BY ZenonT(30) DEF RInv, Types
    <3>4. \A n : Has(sdisk.cur, n) \/ Has(sdisk.log1, n) \/ Has(sdisk.log2, n) =>
                 \E i \in 1..Len(todo') : Has(todo'[i], n)
      BY ZenonT(30), <2>4, <3>3, LeftSteps
    <3>5. ~torn' /\ ~overwritten' => ~torn /\ ~overwritten
      BY ZenonT(30), <2>1, <2>4
    <3>6. ~torn /\ ~overwritten => \A n : Lacks(sdisk.meta, log, n) => Found(n)
      BY ZenonT(30), <2>1, <2>2, <2>4, <3>1 DEF Fetched
    <3>7. ASSUME ~torn', ~overwritten', NEW n, Lacks(sdisk.meta, log, n)
          PROVE  (\E i \in 1..Len(todo') : Has(todo'[i], n)) \/ Sent(toShadow, n)
      BY ZenonT(30), <3>2, <3>4, <3>5, <3>6, <3>7
    <3>8. ASSUME ~torn', ~overwritten', High(mem)' PROVE Left(cursor.current + 1)'
      <4>1. ~Zero /\ Len(sdisk.meta) < cursor.current
        BY ZenonT(30), <2>1, <2>4, <3>8 DEF High, Zero
      <4>2. cursor.current < Len(log) /\ ~Sent(toShadow, cursor.current + 1)
        BY ZenonT(30), <2>1, <2>4, <3>1, <4>1 DEF LeftOver
      <4>3. log \in Seq(Nat) /\ cursor.current \in Nat /\ sdisk.meta \in Seq(Nat)
        BY ZenonT(30) DEF RInv, Types, Disk
      <4>4. Lacks(sdisk.meta, log, cursor.current + 1)
        BY <4>1, <4>2, <4>3 DEF Lacks
      <4>5. \E i \in 1..Len(todo') : Has(todo'[i], cursor.current + 1)
        BY ZenonT(30), <3>7, <3>8, <4>2, <4>4
      <4> QED
        BY ZenonT(30), <2>1, <4>5 DEF Left
    <3>9. ASSUME ~torn', ~overwritten', NEW n, Lacks(mem', log', n) PROVE Left(n)' \/ Sent(toShadow', n)
      <4>1. Lacks(sdisk.meta, log, n)
        BY ZenonT(30), <2>1, <2>4, <3>9
      <4> QED
        BY ZenonT(30), <2>1, <3>7, <3>9, <4>1 DEF Left
    <3> QED
      BY ZenonT(30), <2>1, <2>2, <3>8, <3>9 DEF Replayed
  <2> QED
    BY ZenonT(30), <2>1, <2>3, <2>4, FileEffect
\* A changelog that is not opened has no line that the metadata lacks.
<1>ReplayedOpen.
  ASSUME RInv, AllCapped, Replayed, OpenChangelog
  PROVE  Replayed'
  <2> USE <1>ReplayedOpen
  <2> DEFINE f == Head(todo)
  <2>1. /\ f \in Seq(Line) /\ Capped(f) /\ loading /\ lines = <<>> /\ todo # <<>>
        /\ lines' = IF Needed(f, mem) THEN f ELSE <<>>
        /\ todo' = Tail(todo) /\ mem \in Seq(Nat) /\ todo \in Seq(Seq(Line))
        /\ UNCHANGED <<log, mem, cursor, loading, eptr, up, toShadow, torn, overwritten>>
    BY ZenonT(30), CappedInOrder
  <2>2. \A n : (\E i \in 1..Len(todo) : Has(todo[i], n)) =>
                 Has(f, n) \/ \E i \in 1..Len(todo') : Has(todo'[i], n)
    BY ZenonT(30), <2>1, LeftSteps
  <2> HIDE DEF f
  <2>3. \A n : Has(f, n) /\ Len(mem) < n => Has(lines', n)
    <3>1. CASE Needed(f, mem)
      BY ZenonT(30), <2>1, <3>1
    <3>2. CASE f = <<>>
      BY ZenonT(30), <2>1, <3>2, HasSteps
    <3>3. CASE ~Needed(f, mem) /\ f # <<>>
      <4>1. f[Len(f)].id \in Nat
        <5>1. f[Len(f)] \in Line
          BY <2>1, <3>3
        <5> QED
          BY ZenonT(30), <5>1 DEF Line
      <4>2. f[Len(f)].id <= Len(mem)
        BY <2>1, <3>3, <4>1 DEF Needed, Version
      <4>3. \A n : Has(f, n) => n <= f[Len(f)].id /\ n \in Nat
        BY ZenonT(30), <2>1, <3>3, HasSteps
      <4> QED
        BY <2>1, <4>1, <4>2, <4>3
    <3> QED
      BY ZenonT(30), <3>1, <3>2, <3>3
  <2>4. \A n : ~Has(lines, n)
    BY ZenonT(30), <2>1, HasSteps
  <2>5. \A n : Left(n) /\ Len(mem) < n => Has(lines', n) \/ \E i \in 1..Len(todo') : Has(todo'[i], n)
    BY ZenonT(30), <2>2, <2>3, <2>4 DEF Left
  <2>6. (High(mem)' <=> High(mem)) /\ mem' = mem /\ log' = log
    BY ZenonT(30), <2>1 DEF High, Zero
  <2>7. High(mem) => Len(mem) < cursor.current + 1
    BY <2>1 DEF High, RInv, Types
  <2>8. ASSUME ~torn', ~overwritten', High(mem)' PROVE Left(cursor.current + 1)'
    <3>1. Left(cursor.current + 1)
      BY ZenonT(30), <2>1, <2>6, <2>8 DEF Replayed
    <3> QED
      BY ZenonT(30), <2>1, <2>5, <2>6, <2>7, <2>8, <3>1 DEF Left
  <2>9. ASSUME ~torn', ~overwritten', ~High(mem)', eptr'.registered, NEW n, Lacks(mem', log', n)
        PROVE  Left(n)' \/ Sent(toShadow', n)
    <3>1. Left(n) \/ Sent(toShadow, n)
      BY ZenonT(30), <2>1, <2>6, <2>9 DEF Replayed
    <3>2. Len(mem) < n
      BY ZenonT(30), <2>6, <2>9 DEF Lacks
    <3> QED
      BY ZenonT(30), <2>1, <2>5, <3>1, <3>2 DEF Left
  <2>10. (loading /\ up => eptr.registered)'
    BY ZenonT(30), <2>1 DEF Replayed
  <2> QED
    BY ZenonT(30), <2>8, <2>9, <2>10 DEF Replayed
\* A line is replayed, or was before, or the replay fails.
<1>ReplayedLine.
  ASSUME RInv, LeftOver, Replayed, LoadLine
  PROVE  Replayed'
  <2> USE <1>ReplayedLine
  <2> DEFINE id == Head(lines).id
             x == ReplayLine([ok |-> TRUE, mem |-> mem, cursor |-> cursor], Head(lines))
  <2>1. /\ loading /\ lines # <<>> /\ UNCHANGED <<log, eptr, up, toShadow, torn, overwritten>>
        /\ \/ x.ok /\ lines' = Tail(lines) /\ todo' = todo
           \/ ~x.ok /\ ~loading'
    BY ZenonT(30) DEF LoadLine, RequestMetadataDump, master, link, ghosts
  <2>2. CASE ~loading'
    BY ZenonT(30), <2>2 DEF Replayed
  <2>3. CASE x.ok /\ lines' = Tail(lines) /\ todo' = todo
    <3>1. /\ mem \in Seq(Nat) /\ lines \in Seq(Line)
          /\ \/ id <= Len(mem) /\ mem' = mem /\ cursor' = cursor
             \/ High(mem) /\ Len(mem) < id /\ mem' = mem /\ id # cursor.current + 1 /\ cursor' = cursor
             \/ ~High(mem) /\ ~x.ok
             \/ /\ ~High(mem) /\ id = Len(mem) + 1
                /\ cursor'.current = Len(mem) + 1 /\ Len(mem') = Len(mem) + 1
      BY ZenonT(30), <2>3, ReplayCursor
    <3>2. \A n : Has(lines, n) => Has(lines', n) \/ id = n
      BY ZenonT(30), <2>1, <2>3, <3>1, HasSteps
    <3> HIDE DEF x, id
    <3>3. \A n : Left(n) => id = n \/ Has(lines', n) \/ \E i \in 1..Len(todo') : Has(todo'[i], n)
      BY ZenonT(30), <2>3, <3>2 DEF Left
    <3>4. (loading /\ up => eptr.registered)'
      BY ZenonT(30), <2>1 DEF Replayed
    <3>5. cursor.current \in Nat
      BY ZenonT(30) DEF RInv, Types
    <3>6. CASE /\ mem' = mem /\ cursor' = cursor
               /\ id <= Len(mem) \/ (High(mem) /\ id # cursor.current + 1)
      <4>1. (High(mem)' <=> High(mem)) /\ log' = log
        BY ZenonT(30), <2>1, <3>6 DEF High, Zero
      <4>2. ASSUME ~torn', ~overwritten', High(mem)' PROVE Left(cursor.current + 1)'
        <5>1. Left(cursor.current + 1)
          BY ZenonT(30), <2>1, <4>1, <4>2 DEF Replayed
        <5>2. Len(mem) < cursor.current
          BY ZenonT(30), <4>1, <4>2 DEF High
        <5>3. id # cursor.current + 1
          BY <3>1, <3>5, <3>6, <5>2
        <5> QED
          BY ZenonT(30), <3>3, <3>6, <5>1, <5>3 DEF Left
      <4>3. ASSUME ~torn', ~overwritten', ~High(mem)', eptr'.registered, NEW n, Lacks(mem', log', n)
            PROVE  Left(n)' \/ Sent(toShadow', n)
        <5>1. Left(n) \/ Sent(toShadow, n)
          BY ZenonT(30), <2>1, <3>6, <4>1, <4>3 DEF Replayed
        <5>2. id <= Len(mem)
          BY ZenonT(30), <3>6, <4>1, <4>3
        <5>3. id # n
          BY <3>1, <3>6, <4>3, <5>2 DEF Lacks
        <5> QED
          BY ZenonT(30), <2>1, <3>3, <5>1, <5>3 DEF Left
      <4> QED
        BY ZenonT(30), <3>4, <4>2, <4>3 DEF Replayed
    <3>7. CASE /\ ~High(mem) /\ id = Len(mem) + 1
               /\ cursor'.current = Len(mem) + 1 /\ Len(mem') = Len(mem) + 1
      <4>1. ~High(mem)'
        BY <3>1, <3>7 DEF High
      <4>2. ASSUME ~torn', ~overwritten', eptr'.registered, NEW n, Lacks(mem', log', n)
            PROVE  Left(n)' \/ Sent(toShadow', n)
        <5>1. Lacks(mem, log, n) /\ id # n
          BY <2>1, <3>1, <3>7, <4>2 DEF Lacks
        <5>2. Left(n) \/ Sent(toShadow, n)
          BY ZenonT(30), <2>1, <3>7, <4>2, <5>1 DEF Replayed
        <5> QED
          BY ZenonT(30), <2>1, <3>3, <5>1, <5>2 DEF Left
      <4> QED
        BY ZenonT(30), <3>4, <4>1, <4>2 DEF Replayed
    <3> QED
      BY ZenonT(30), <2>3, <3>1, <3>6, <3>7
  <2> QED
    BY ZenonT(30), <2>1, <2>2, <2>3
<1> USE DEF master, link, loader, shadow, ghosts
<1>1. toMaster \in Seq(ToMasterPacket) /\ toShadow \in Seq(ToShadowPacket) /\ Replayed
  BY ZenonT(30) DEF RInv, Types
<1>2. CASE ~loading'
  BY ZenonT(30), <1>2 DEF Replayed
<1>3. CASE PeriodicDump \/ FinishDump \/ FailDump \/ PeriodPasses \/ ChangelogApplyErrorRequest
  <2>1. /\ UNCHANGED <<log, up, mem, cursor, loading, todo, lines, torn, overwritten>>
        /\ eptr'.registered = eptr.registered /\ SameFlow(toShadow, toShadow')
    BY ZenonT(30), <1>3, DumpEffect
  <2>2. /\ loading' => loading
        /\ eptr'.registered => eptr.registered
        /\ up' => up
    BY ZenonT(30), <2>1
  <2> QED
    BY ZenonT(30), <2>1, <2>2, <1>ReplayedSame DEF SameFlow
<1>4. CASE RegisterShadow
  <2>1. loading' = loading /\ toMaster # <<>> /\ Head(toMaster).op = "register"
    BY ZenonT(30), <1>4 DEF RegisterShadow, FromShadow
  <2>2. ~eptr.registered
    BY ZenonT(30), <1>1, <2>1, Taken DEF Registration
  <2>3. up
    BY ZenonT(30), <2>1 DEF RInv, Traffic
  <2>4. ~loading
    BY ZenonT(30), <2>2, <2>3 DEF Replayed
  <2> QED
    BY ZenonT(30), <1>2, <2>1, <2>4
<1>5. CASE DownloadStart
  <2>1. /\ UNCHANGED <<log, up, mem, cursor, loading, todo, lines, downloading, overwritten>>
        /\ eptr'.registered = eptr.registered /\ Head(toMaster).file = downloading
        /\ torn' = IF downloading = "metadata" THEN Rotations > 1 ELSE torn
        /\ \A n : Sent(toShadow', n) <=> Sent(toShadow, n)
    BY ZenonT(30), <1>5, OpenEffect
  <2>2. CASE ~loading
    BY ZenonT(30), <1>2, <2>1, <2>2
  <2>3. CASE loading
    <3>1. downloading = "nothing"
      BY ZenonT(30), <2>3 DEF RInv, Service
    <3>2. /\ torn' = torn
          /\ eptr'.registered => eptr.registered
          /\ up' => up
      BY ZenonT(30), <2>1, <3>1
    <3> QED
      BY ZenonT(30), <2>1, <2>3, <3>2, <1>ReplayedSame
  <2> QED
    BY ZenonT(30), <2>2, <2>3
<1>6. CASE \/ Connect \/ OnRegistered \/ MetachangesLog \/ ChangelogApplyError \/ RetryDumpRequest
           \/ SessionsDownload \/ ShadowDump \/ DownloadFails \/ FinishLoad \/ ShadowRestart \/ Promote
  <2>1. CASE MetachangesLog
    BY ZenonT(30), <1>2, <2>1, ReceiveEffect
  <2>2. CASE OnRegistered \/ ChangelogApplyError
    <3>1. ~loading /\ loading' = loading
      BY ZenonT(30), <2>2 DEF OnRegistered, ChangelogApplyError, FromMaster, ForceMetadataDownload
    <3> QED
      BY ZenonT(30), <1>2, <3>1
  <2>3. CASE Connect \/ RetryDumpRequest \/ SessionsDownload \/ ShadowDump \/ DownloadFails
    <3>1. ~loading /\ loading' = loading
      BY ZenonT(30), <2>3 DEF Connect, RetryDumpRequest, SessionsDownload, ShadowDump, DownloadFails
    <3> QED
      BY ZenonT(30), <1>2, <3>1
  <2>4. CASE FinishLoad \/ ShadowRestart \/ Promote
    <3>1. loading' = FALSE
      BY ZenonT(30), <2>4 DEF FinishLoad, ShadowRestart, Promote, FreshShadow
    <3> QED
      BY ZenonT(30), <1>2, <3>1
  <2> QED
    BY ZenonT(30), <1>6, <2>1, <2>2, <2>3, <2>4
<1>7. CASE Disconnect \/ MasterRestart
  <2>1. UNCHANGED <<log, mem, cursor, loading, todo, lines, torn, overwritten>> /\ Close
    BY ZenonT(30), <1>7 DEF Disconnect, MasterRestart
  <2>2. ~up' /\ ~eptr'.registered
    BY ZenonT(30), <2>1, CloseEffect
  <2>3. loading' => loading
    BY ZenonT(30), <2>1
  <2> QED
    BY ZenonT(30), <2>1, <2>2, <2>3, <1>ReplayedSame
<1>8. CASE UNCHANGED vars
  <2>1. UNCHANGED <<log, mem, cursor, loading, todo, lines, torn, overwritten, up, eptr, toShadow>>
    BY ZenonT(30), <1>8 DEF vars
  <2>2. (loading' => loading) /\ (up' => up) /\ (eptr'.registered => eptr.registered)
    BY ZenonT(30), <2>1
  <2> QED
    BY ZenonT(30), <2>1, <2>2, <1>ReplayedSame
<1> QED
  BY ZenonT(30), <1>3, <1>4, <1>5, <1>6, <1>7, <1>8, InvStep, <1>ReplayedChange, <1>ReplayedNext,
     <1>ReplayedOpen, <1>ReplayedLine DEF Next

-----------------------------------------------------------------------------
(* The metadata in service *)

\* What the metadata in service lacks was sent.
LEMMA ServedStep ==
  ASSUME RInv, FlagTypes, ~LostChanges, Registration, Stored, LeftOver, Replayed, Served, [Next]_vars
  PROVE  Served'
\* What was sent stays sent when no change is made or applied.
<1>ServedSame.
  ASSUME Served, UNCHANGED <<log, mem, cursor>>,
         state' = "sync" => state = "sync", ~torn' => ~torn, ~overwritten' => ~overwritten,
         eptr'.registered /\ Absent(toShadow', "registered") =>
           /\ eptr.registered /\ Absent(toShadow, "registered")
           /\ \A n : Sent(toShadow, n) => Sent(toShadow', n)
  PROVE  Served'
  <2> USE <1>ServedSame
  <2>1. High(mem)' <=> High(mem)
    BY ZenonT(30) DEF High, Zero
  <2>2. ASSUME state' = "sync", ~torn', ~overwritten' PROVE ~High(mem)'
    BY ZenonT(30), <2>1, <2>2 DEF Served
  <2>3. ASSUME state' = "sync", ~torn', ~overwritten', eptr'.registered, Absent(toShadow', "registered"),
               NEW n, Lacks(mem', log', n)
        PROVE  Sent(toShadow', n)
    BY ZenonT(30), <2>3 DEF Served
  <2> QED
    BY ZenonT(30), <2>2, <2>3 DEF Served
\* A new change is sent.
<1>ServedChange.
  ASSUME RInv, Served, MasterChange
  PROVE  Served'
  <2> USE <1>ServedChange
  <2>1. /\ UNCHANGED <<mem, cursor, state, torn, overwritten>>
        /\ log \in Seq(Nat) /\ Len(log') = Len(log) + 1 /\ eptr'.registered = eptr.registered
    BY ZenonT(30), ChangeEffect
  <2>2. \A n : Lacks(mem, log', n) => Lacks(mem, log, n) \/ n = Len(log) + 1
    BY <2>1 DEF Lacks
  <2>3. eptr.registered => \A n : Sent(toShadow', n) <=> Sent(toShadow, n) \/ n = Len(log) + 1
    BY ZenonT(30), ChangeFlow
  <2>4. /\ High(mem)' <=> High(mem)
        /\ ~torn' => ~torn
        /\ ~overwritten' => ~overwritten
        /\ eptr'.registered <=> eptr.registered
        /\ mem' = mem
    BY ZenonT(30), <2>1 DEF High, Zero
  <2>5. Absent(toShadow', "registered") => Absent(toShadow, "registered")
    <3>1. toShadow \in Seq(ToShadowPacket)
      BY ZenonT(30) DEF RInv, Types
    <3>2. ASSUME NEW r \in Line, toShadow' = Append(toShadow, [op |-> "change", id |-> r.id, change |-> r.change])
          PROVE  Absent(toShadow', "registered") => Absent(toShadow, "registered")
      <4>1. r.id \in Nat /\ r.change \in Nat
        BY ZenonT(30) DEF Line
      <4>2. [op |-> "change", id |-> r.id, change |-> r.change] \in ToShadowPacket
        BY ZenonT(30), <4>1, PacketTypes
      <4>3. \A p \in ToShadowPacket : Absent(Append(toShadow, p), "registered") => Absent(toShadow, "registered")
        BY ZenonT(30), <3>1, AbsentBefore
      <4> QED
        BY ZenonT(30), <3>2, <4>2, <4>3
    <3> QED
      BY ZenonT(30), <3>2, ChangeEffect
  <2> QED
    BY ZenonT(60), <2>1, <2>2, <2>3, <2>4, <2>5 DEF Served
\* A change is applied to the metadata in service.
<1>ServedReceive.
  ASSUME RInv, FlagTypes, Registration, Stored, LeftOver, Served, MetachangesLog
  PROVE  Served'
  <2> USE <1>ServedReceive
  <2> DEFINE p == Head(toShadow)
             line == [id |-> p.id, change |-> p.change]
             x == Restore(mem, cursor, line)
  <2>1. /\ toShadow # <<>> /\ p.op = "change" /\ line \in Line /\ line.id = p.id /\ LineOf(line, log)
        /\ UNCHANGED <<log, torn, overwritten>>
        /\ \A n : Sent(toShadow, n) <=> Sent(toShadow', n) \/ p.id = n
        /\ toShadow' = Tail(toShadow)
    BY ZenonT(30), ReceiveEffect
  <2>2. CASE state' # "sync"
    BY ZenonT(30), <2>2 DEF Served
  <2>3. CASE /\ state = "sync" /\ x.ok /\ mem' = x.mem /\ cursor' = x.cursor
             /\ lastLogVersion = 0 \/ p.id = lastLogVersion + 1
    <3>1. p.op # "registered" /\ toShadow \in Seq(ToShadowPacket)
      BY ZenonT(30), <2>1 DEF RInv, Types
    <3>2. eptr.registered /\ Absent(toShadow, "registered")
      BY ZenonT(30), <2>1, <3>1, ConsumedKeeps, FirstSteps DEF Registration
    <3> HIDE DEF line
    <3>3. ~High(mem) => /\ mem' = Append(mem, line.change) /\ line.id = Len(mem) + 1
                        /\ cursor'.current = Len(mem) + 1
      BY ZenonT(30), <2>1, <2>3, ReceiveCursor
    <3>4. mem \in Seq(Nat) /\ line.change \in Nat
      BY ZenonT(30), <2>1, <2>3 DEF RInv, Service, Line
    <3> HIDE DEF x, p
    <3>5. SUFFICES ASSUME ~torn, ~overwritten PROVE Served'
      BY ZenonT(30), <2>1 DEF Served
    <3>6. ~High(mem)
      BY ZenonT(30), <2>3, <3>5 DEF Served
    <3>7. Len(mem') = Len(mem) + 1 /\ cursor'.current = Len(mem') /\ p.id = Len(mem) + 1
      BY <2>1, <3>3, <3>4, <3>6
    <3>8. ~High(mem)'
      BY <3>4, <3>7 DEF High
    <3>9. ASSUME NEW n, Lacks(mem', log', n) PROVE Sent(toShadow', n)
      <4>1. Lacks(mem, log, n) /\ n # p.id
        BY <2>1, <3>4, <3>7, <3>9 DEF Lacks
      <4>2. Sent(toShadow, n)
        BY ZenonT(30), <2>3, <3>2, <3>5, <4>1 DEF Served
      <4> QED
        BY ZenonT(30), <2>1, <4>1, <4>2
    <3> QED
      BY ZenonT(30), <3>8, <3>9 DEF Served
  <2>4. CASE state' = "dumpPending"
    <3>1. state' # "sync"
      BY ZenonT(30), <2>4
    <3> QED
      BY ZenonT(30), <2>2, <3>1
  <2>5. CASE state' = state /\ state # "sync"
    BY ZenonT(30), <2>2, <2>5
  <2> HIDE DEF line, x
  <2> QED
    BY ZenonT(30), <2>3, <2>4, <2>5, ReceiveEffect DEF line, x
\* The reply to the registration has the version that the shadow has, or the metadata is
\* given up.
<1>ServedRegistered.
  ASSUME RInv, Registration, Served, OnRegistered
  PROVE  Served'
  <2> USE <1>ServedRegistered
  <2> USE DEF master, link, loader, shadow, ghosts
  <2>1. toShadow \in Seq(ToShadowPacket)
    BY ZenonT(30) DEF RInv, Types
  <2>2. CASE ForceMetadataDownload
    <3>1. state' # "sync"
      BY ZenonT(30), <2>2 DEF ForceMetadataDownload
    <3> QED
      BY ZenonT(30), <3>1 DEF Served
  <2>3. CASE /\ toShadow # <<>> /\ Head(toShadow).op = "registered" /\ toShadow' = Tail(toShadow)
             /\ state # "sync" \/ Version(mem) = Head(toShadow).version
             /\ UNCHANGED <<log, mem, cursor, state, eptr, torn, overwritten>>
    <3>1. CASE state # "sync"
      BY ZenonT(30), <2>3, <3>1 DEF Served
    <3>2. CASE state = "sync"
      <4>1. Version(mem) = Head(toShadow).version /\ Head(toShadow).op # "change"
        BY ZenonT(30), <2>3, <3>2
      <4>2. \A n \in 1..Len(log) : n >= Version(mem) => Sent(toShadow, n)
        BY ZenonT(30), <2>3, <4>1 DEF Registration
      <4>3. mem \in Seq(Nat) /\ log \in Seq(Nat)
        BY ZenonT(30), <3>2 DEF RInv, Types, Service
      <4>4. \A n : Lacks(mem, log, n) => n \in 1..Len(log) /\ n >= Version(mem)
        BY <4>3 DEF Lacks, Version
      <4>5. \A n : Sent(toShadow, n) => Sent(toShadow', n)
        <5>1. \A n : Sent(toShadow, n) <=> Sent(Tail(toShadow), n) \/ (Head(toShadow).op = "change" /\ Head(toShadow).id = n)
          BY ZenonT(30), <2>1, <2>3, SentSteps
        <5> QED
          BY ZenonT(30), <2>3, <4>1, <5>1
      <4>6. (High(mem)' <=> High(mem)) /\ (~torn' => ~torn) /\ (~overwritten' => ~overwritten)
        BY ZenonT(30), <2>3 DEF High, Zero
      <4>7. mem' = mem /\ log' = log
        BY ZenonT(30), <2>3
      <4>8. ASSUME NEW n, Lacks(mem', log', n) PROVE Sent(toShadow', n)
        BY ZenonT(30), <4>2, <4>4, <4>5, <4>7, <4>8
      <4> QED
        BY ZenonT(30), <3>2, <4>6, <4>8 DEF Served
    <3> QED
      BY ZenonT(30), <3>1, <3>2
  <2> QED
    BY ZenonT(30), <2>2, <2>3 DEF OnRegistered, FromMaster, Consumed
<1> USE DEF master, link, loader, shadow, ghosts
<1>1. toMaster \in Seq(ToMasterPacket) /\ toShadow \in Seq(ToShadowPacket) /\ Served
  BY ZenonT(30) DEF RInv, Types
<1>2. CASE state' # "sync"
  BY ZenonT(30), <1>2 DEF Served
<1>3. CASE PeriodicDump \/ FinishDump \/ FailDump \/ PeriodPasses \/ ChangelogApplyErrorRequest
  <2>1. /\ UNCHANGED <<log, mem, cursor, state, torn, overwritten>>
        /\ eptr'.registered = eptr.registered /\ SameFlow(toShadow, toShadow')
    BY ZenonT(30), <1>3, DumpEffect
  <2>2. /\ ~torn' => ~torn
        /\ ~overwritten' => ~overwritten
        /\ eptr'.registered => eptr.registered
    BY ZenonT(30), <2>1
  <2>3. Absent(toShadow', "registered") => Absent(toShadow, "registered")
    BY ZenonT(30), <1>1, <1>3, DumpEffect, AbsentBefore
  <2> QED
    BY ZenonT(30), <2>1, <2>2, <2>3, <1>ServedSame DEF SameFlow
<1>4. CASE RegisterShadow
  <2>1. /\ UNCHANGED <<log, mem, cursor, state, torn, overwritten>>
        /\ toMaster # <<>> /\ Head(toMaster).op = "register"
    BY ZenonT(30), <1>4 DEF RegisterShadow, FromShadow
  <2>2. toShadow = <<>>
    BY ZenonT(30), <1>1, <2>1, Taken DEF Registration
  <2>3. toShadow' \in Seq(ToShadowPacket)
    BY ZenonT(30), InvStep DEF RInv, Types
  <2>4. ~Absent(toShadow', "registered")
    BY ZenonT(30), <1>4, <2>2, <2>3, RegisterFacts, Taken
  <2>5. (~torn' => ~torn) /\ (~overwritten' => ~overwritten)
    BY ZenonT(30), <2>1
  <2> QED
    BY ZenonT(30), <2>1, <2>4, <2>5, <1>ServedSame
<1>5. CASE DownloadStart
  <2>1. /\ UNCHANGED <<log, mem, cursor, state, overwritten>>
        /\ eptr'.registered = eptr.registered
        /\ torn' = IF downloading = "metadata" THEN Rotations > 1 ELSE torn
        /\ \A n : Sent(toShadow', n) <=> Sent(toShadow, n)
    BY ZenonT(30), <1>5, OpenEffect
  <2>2. CASE state # "sync"
    BY ZenonT(30), <1>2, <2>1, <2>2
  <2>3. CASE state = "sync"
    <3>1. downloading # "metadata"
      BY ZenonT(30), <2>3 DEF RInv, Service
    <3>2. /\ ~torn' => ~torn
          /\ ~overwritten' => ~overwritten
          /\ eptr'.registered => eptr.registered
      BY ZenonT(30), <2>1, <3>1
    <3>3. Absent(toShadow', "registered") => Absent(toShadow, "registered")
      BY ZenonT(30), <1>1, <1>5, OpenEffect, AbsentBefore
    <3> QED
      BY ZenonT(30), <2>1, <2>3, <3>2, <3>3, <1>ServedSame
  <2> QED
    BY ZenonT(30), <2>2, <2>3
<1>6. CASE Connect
  <2>1. UNCHANGED <<log, mem, cursor, eptr, torn, overwritten>> /\ ~up /\ state' \in {state, "downloading"}
    BY ZenonT(30), <1>6 DEF Connect
  <2>2. ~eptr'.registered
    BY ZenonT(30), <2>1 DEF RInv, Traffic
  <2>3. (state' = "sync" => state = "sync") /\ (~torn' => ~torn) /\ (~overwritten' => ~overwritten)
    BY ZenonT(30), <2>1
  <2> QED
    BY ZenonT(30), <2>1, <2>2, <2>3, <1>ServedSame
<1>7. CASE ChangelogApplyError \/ RetryDumpRequest \/ ShadowRestart \/ Promote
  <2>1. state' \in {"none", "limbo", "dumpPending"}
    BY ZenonT(30), <1>7 DEF ChangelogApplyError, ForceMetadataDownload, RetryDumpRequest, RequestMetadataDump,
       ShadowRestart, Promote, FreshShadow
  <2>2. state' # "sync"
    BY ZenonT(30), <2>1
  <2> QED
    BY ZenonT(30), <1>2, <2>2
<1>8. CASE DownloadNext
  <2>1. /\ toShadow # <<>> /\ Head(toShadow).op = "file" /\ toShadow' = Tail(toShadow)
        /\ UNCHANGED <<log, cursor, eptr, state, torn>>
        /\ \A n : Sent(toShadow', n) <=> Sent(toShadow, n)
    BY ZenonT(30), <1>8, FileEffect
  <2>2. CASE state # "sync"
    BY ZenonT(30), <1>2, <2>1, <2>2
  <2>3. CASE state = "sync"
    <3>1. downloading \in {"nothing", "sessions"} /\ Head(toShadow).op # "registered" /\ state # "downloading"
      BY ZenonT(30), <2>1, <2>3 DEF RInv, Service
    <3>2. downloading # "metadata" /\ downloading # "changelog" /\ downloading # "changelog1"
      BY ZenonT(30), <3>1
    <3>3. UNCHANGED <<mem, overwritten>>
      BY ZenonT(30), <1>8, <3>1, <3>2, FileEffect
    <3>4. eptr.registered /\ Absent(toShadow, "registered")
      BY ZenonT(30), <1>1, <2>1, <3>1, ConsumedKeeps, FirstSteps DEF Registration
    <3>5. (~torn' => ~torn) /\ (~overwritten' => ~overwritten)
      BY ZenonT(30), <2>1, <3>3
    <3> QED
      BY ZenonT(30), <2>1, <2>3, <3>3, <3>4, <3>5, <1>ServedSame
  <2> QED
    BY ZenonT(30), <2>2, <2>3
<1>9. CASE OpenChangelog \/ LoadLine
  <2>1. loading /\ state' \in {state, "dumpPending"}
    BY ZenonT(30), <1>9 DEF OpenChangelog, LoadLine, RequestMetadataDump
  <2>2. state' # "sync"
    BY ZenonT(30), <2>1 DEF RInv, Service
  <2> QED
    BY ZenonT(30), <1>2, <2>2
<1>10. CASE FinishLoad
  <2>1. /\ loading /\ lines = <<>> /\ todo = <<>>
        /\ UNCHANGED <<log, mem, cursor, eptr, toShadow, torn, overwritten>>
    BY ZenonT(30), <1>10 DEF FinishLoad
  <2>2. \A n : ~Left(n)
    BY <2>1 DEF Left, Has
  <2>3. ~torn /\ ~overwritten => ~High(mem)
    BY ZenonT(30), <2>1, <2>2 DEF Replayed
  <2>4. ~torn /\ ~overwritten /\ eptr.registered => \A n : Lacks(mem, log, n) => Sent(toShadow, n)
    BY ZenonT(30), <2>1, <2>2, <2>3 DEF Replayed
  <2>5. (High(mem)' <=> High(mem)) /\ (~torn' => ~torn) /\ (~overwritten' => ~overwritten)
    BY ZenonT(30), <2>1 DEF High, Zero
  <2>6. eptr' = eptr /\ mem' = mem /\ log' = log /\ toShadow' = toShadow
    BY ZenonT(30), <2>1
  <2> QED
    BY ZenonT(30), <2>3, <2>4, <2>5, <2>6 DEF Served
<1>11. CASE SessionsDownload \/ ShadowDump \/ UNCHANGED vars
  <2>1. /\ UNCHANGED <<log, mem, cursor, state, eptr, toShadow, torn>>
        /\ overwritten' = overwritten \/ ShadowDump
    BY ZenonT(30), <1>11 DEF SessionsDownload, ShadowDump, vars
  <2>2. ~overwritten' => ~overwritten
    <3>1. CASE ShadowDump
      BY ZenonT(30), <3>1 DEF ShadowDump
    <3> QED
      BY ZenonT(30), <2>1, <3>1
  <2>3. (~torn' => ~torn) /\ (eptr'.registered => eptr.registered)
    BY ZenonT(30), <2>1
  <2> QED
    BY ZenonT(30), <2>1, <2>2, <2>3, <1>ServedSame
<1>12. CASE Disconnect \/ MasterRestart
  <2>1. UNCHANGED <<log, mem, cursor, state, torn, overwritten>> /\ Close
    BY ZenonT(30), <1>12 DEF Disconnect, MasterRestart
  <2>2. ~eptr'.registered
    BY ZenonT(30), <2>1, CloseEffect
  <2>3. (~torn' => ~torn) /\ (~overwritten' => ~overwritten)
    BY ZenonT(30), <2>1
  <2> QED
    BY ZenonT(30), <2>1, <2>2, <2>3, <1>ServedSame
<1>13. CASE DownloadFails
  <2>1. /\ toShadow # <<>> /\ Head(toShadow).op = "file" /\ toShadow' = Tail(toShadow)
        /\ UNCHANGED <<log, mem, cursor, state, eptr, torn, overwritten>>
    BY ZenonT(30), <1>13 DEF DownloadFails, Consumed
  <2>2. Head(toShadow).op # "change" /\ Head(toShadow).op # "registered"
    BY ZenonT(30), <2>1
  <2>3. eptr.registered /\ Absent(toShadow, "registered")
    BY ZenonT(30), <1>1, <2>1, <2>2, ConsumedKeeps, FirstSteps DEF Registration
  <2>4. \A n : Sent(toShadow, n) => Sent(toShadow', n)
    <3>1. \A n : Sent(toShadow, n) <=> Sent(Tail(toShadow), n) \/ (Head(toShadow).op = "change" /\ Head(toShadow).id = n)
      BY ZenonT(30), <1>1, <2>1, SentSteps
    <3> QED
      BY ZenonT(30), <2>1, <2>2, <3>1
  <2>5. (~torn' => ~torn) /\ (~overwritten' => ~overwritten)
    BY ZenonT(30), <2>1
  <2> QED
    BY ZenonT(30), <2>1, <2>3, <2>4, <2>5, <1>ServedSame
<1> QED
  BY ZenonT(30), <1>3, <1>4, <1>5, <1>6, <1>7, <1>8, <1>9, <1>10, <1>11, <1>12, <1>13, <1>ServedChange,
     <1>ServedReceive, <1>ServedRegistered DEF Next

-----------------------------------------------------------------------------
(* The theorem *)

\* The invariant holds initially.
LEMMA CurrentInit ==
  ASSUME Init
  PROVE  CInv
<1> USE DEF Init
<1>1. /\ \A n : ~Has(<<>>, n)
      /\ \A op : First(<<>>, op) /\ Absent(<<>>, op)
      /\ \A n : ~Sent(<<>>, n) /\ ~Carries(<<>>, n) /\ ~After(<<>>, n)
      /\ Capped(<<>>)
      /\ \A h, n : ~Lacks(h, <<>>, n)
  BY DEF Has, First, Absent, Sent, Carries, After, Capped, Lacks
<1>2. /\ ~eptr.registered /\ ~eptr.queued /\ eptr.chain1 = <<>> /\ eptr.chain2 = <<>>
      /\ mdisk.cur = <<>> /\ mdisk.log1 = <<>> /\ mdisk.log2 = <<>>
      /\ sdisk.cur = <<>> /\ sdisk.log1 = <<>> /\ sdisk.log2 = <<>>
      /\ Zero
  BY ZenonT(30) DEF Closed, EmptyDisk, Zero, NoCursor
<1>3. state # "downloading" /\ state # "sync" /\ downloading \notin {"changelog", "changelog1"}
  BY ZenonT(30)
<1>4. Registration
  BY ZenonT(30), <1>1, <1>2, <1>3 DEF Registration
<1>5. MasterCovers
  BY ZenonT(30), <1>1 DEF MasterCovers
<1>6. AllCapped
  <2>1. \A i \in 1..Len(todo) : Capped(todo[i])
    OBVIOUS
  <2> QED
    BY ZenonT(30), <1>1, <1>2, <1>3, <2>1 DEF AllCapped, DiskCapped
<1>7. Stored
  <2>1. ~(lastLogVersion > 0)
    OBVIOUS
  <2> QED
    BY ZenonT(30), <1>1, <1>2, <1>3, <2>1 DEF Stored
<1>8. LeftOver /\ Fetched /\ Replayed /\ Served
  BY ZenonT(30), <1>2, <1>3 DEF LeftOver, Fetched, Replayed, Served
<1> QED
  BY ZenonT(30), <1>4, <1>5, <1>6, <1>7, <1>8 DEF CInv

\* A synchronized shadow that has handled everything it was sent has the master's history
\* (masterconn.cc after masterconn_metachanges_log): the invariant says that what it lacks
\* was sent, and nothing is left of that.
THEOREM ReplicationCurrent ==
  ASSUME ~LostChanges
  PROVE  Spec => []SynchronizedIsCurrent
<1>1. Init => FlagTypes /\ CInv
  <2>1. Init => FlagTypes
    BY ZenonT(30), 0 \in Nat DEF Init, FlagTypes
  <2> QED
    BY ZenonT(30), <2>1, CurrentInit
<1>2. RInv /\ FlagTypes /\ CInv /\ [Next]_vars => FlagTypes' /\ CInv'
  <2> SUFFICES ASSUME RInv, FlagTypes, CInv, [Next]_vars PROVE FlagTypes' /\ CInv'
    BY Zenon
  <2>1. /\ Registration /\ MasterCovers /\ AllCapped /\ Stored /\ LeftOver
        /\ Fetched /\ Replayed /\ Served
    BY ZenonT(30) DEF CInv
  <2>2. FlagTypes' /\ Registration' /\ MasterCovers' /\ AllCapped' /\ Stored' /\ LeftOver'
    BY ZenonT(30), <2>1, FlagTypesStep, RegistrationStep, MasterCoversStep, AllCappedStep, StoredStep,
       LeftOverStep
  <2>3. Fetched' /\ Replayed' /\ Served'
    BY ZenonT(30), <2>1, FetchedStep, ReplayedStep, ServedStep
  <2> QED
    BY ZenonT(30), <2>2, <2>3 DEF CInv
<1>3. RInv /\ CInv => SynchronizedIsCurrent
  <2> SUFFICES ASSUME RInv, CInv, state = "sync", eptr.registered, toShadow = <<>>, ~torn, ~overwritten
               PROVE  mem = log
    BY Zenon DEF SynchronizedIsCurrent
  <2>1. mem \in Seq(Nat) /\ log \in Seq(Nat) /\ Replica!Prefix(mem, log)
    BY ZenonT(30) DEF RInv, Types, Service, Part
  <2>2. Absent(toShadow, "registered") /\ \A n : ~Sent(toShadow, n)
    BY DEF Absent, Sent
  <2>3. \A n : ~Lacks(mem, log, n)
    BY ZenonT(30), <2>2 DEF CInv, Served
  <2>4. Len(mem) = Len(log)
    <3>1. Len(mem) <= Len(log) /\ Len(mem) \in Nat /\ Len(log) \in Nat
      BY <2>1 DEF Replica!Prefix
    <3>2. ~Lacks(mem, log, Len(log))
      BY ZenonT(30), <2>3
    <3> QED
      BY <3>1, <3>2 DEF Lacks
  <2> QED
    BY <2>1, <2>4 DEF Replica!Prefix
<1> QED
  BY <1>1, <1>2, <1>3, HistoryEverywhere, PTL DEF Spec

=============================================================================
