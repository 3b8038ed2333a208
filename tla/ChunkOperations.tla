--------------------------- MODULE ChunkOperations ---------------------------
(***************************************************************************)
(* One chunk of one file: the copies that the master believes in, the      *)
(* copies that chunkservers have on disk, and the commands, statuses and   *)
(* reports that travel between them (master/chunks.cc, the callers in      *)
(* master/matoclserv.cc and the jobs of chunkserver/hddspacemgr.cc).       *)
(*                                                                         *)
(* The goal is a number of full copies, the chunk belongs to one file, and *)
(* chunkserver-side locks are off (USE_CHUNKSERVER_SIDE_CHUNK_LOCK = 0, the *)
(* default), so that no part is ever marked as being written.              *)
(***************************************************************************)
EXTENDS Naturals, Sequences, FiniteSets

CONSTANTS
    Server,        \* the chunkservers
    Goal,          \* the number of copies the goal asks for
    ZombieRace,    \* may a chunkserver be back before its parts are forgotten?
    MaxRequests,   \* bound on the write and truncate requests of clients
    MaxFaults      \* bound on lost connections, I/O errors and lost copies

ASSUME ChunkAssumption ==
    /\ Goal \in Nat \ {0}
    /\ ZombieRace \in BOOLEAN
    /\ MaxRequests \in Nat
    /\ MaxFaults \in Nat

VARIABLES
    chunk,     \* the master's Chunk, with the clients that it has to answer
    conn,      \* the chunkservers that are connected to the master
    jobs,      \* per chunkserver, the commands sent and not yet executed
    replies,   \* per chunkserver, the packets on their way to the master
    disk,      \* per chunkserver, the version of its copy, 0 for none
    current,   \* the copies that hold all data acknowledged to clients
    dropped,   \* copies reported damaged or lost during an operation
    requests,  \* the client requests so far
    faults     \* the faults so far

vars == <<chunk, conn, jobs, replies, disk, current, dropped, requests, faults>>

NoPart == [state |-> "none", version |-> 0]
NoSession == [version |-> 0, locations |-> {}]
Operation == {"none", "create", "set_version", "truncate"}

Valid(c) == {s \in Server : c.parts[s].state \in {"busy", "valid"}}
Busy(c) == {s \in Server : c.parts[s].state = "busy"}
Invalid(c) == {s \in Server : c.parts[s].state \in {"invalid", "del"}}
IsWritable(c) == Valid(c) # {}

Init ==
    /\ chunk = [version |-> 0, operation |-> "none", interrupted |-> FALSE,
                needVersionIncrease |-> TRUE, locked |-> FALSE,
                inFile |-> FALSE, parts |-> [s \in Server |-> NoPart],
                waiting |-> "none", session |-> NoSession]
    /\ conn = Server
    /\ jobs = [s \in Server |-> {}]
    /\ replies = [s \in Server |-> <<>>]
    /\ disk = [s \in Server |-> 0]
    /\ current = Server
    /\ dropped = {}
    /\ requests = 0
    /\ faults = 0

-----------------------------------------------------------------------------
(* Operations on the chunk                                                 *)

\* Mutant: the chunk keeps its version.
MutStartOperation(c, operation, S) ==
    [c EXCEPT !.operation = operation,
              !.interrupted = FALSE,
              !.parts = [s \in Server |->
                           IF s \in S
                           THEN [state |-> "busy", version |-> c.version + 1]
                           ELSE c.parts[s]]]

\* A version move: every copy in S is told the new version.
StartOperation(c, operation, S) ==
    [c EXCEPT !.version = @ + 1,
              !.operation = operation,
              !.interrupted = FALSE,
              !.parts = [s \in Server |->
                           IF s \in S
                           THEN [state |-> "busy", version |-> c.version + 1]
                           ELSE c.parts[s]]]

EmergencyIncreaseVersion(c) == StartOperation(c, "set_version", Valid(c))

\* The client that waits for the operation is answered.  A failed request
\* gives up its lock, a truncation does so in any case.
ChunkStatus(c, ok) ==
    LET answered == [c EXCEPT !.waiting = "none"] IN
    CASE c.waiting = "none" -> c
      [] c.waiting = "write" /\ ok ->
           [answered EXCEPT !.session = [version |-> c.version,
                                         locations |-> Valid(c)]]
      [] c.waiting = "write" /\ ~ok ->
           [answered EXCEPT !.locked = FALSE,
                            !.inFile = @ /\ c.operation # "create"]
      [] c.waiting = "truncate" -> [answered EXCEPT !.locked = FALSE]

FinalizeFailedOperation(c) ==
    [ChunkStatus(c, FALSE) EXCEPT !.operation = "none"]

\* No copy is busy any more.
OperationEnd(c) ==
    IF ~IsWritable(c) THEN FinalizeFailedOperation(c)
    ELSE IF c.interrupted THEN EmergencyIncreaseVersion(c)
    ELSE [ChunkStatus(c, TRUE) EXCEPT !.operation = "none",
                                      !.needVersionIncrease = FALSE]

\* The parts of chunkservers that are not among those that are up.
Disconnected(c, up) == {s \in Server \ up : c.parts[s] # NoPart}

\* Mutant: an operation is left to the statuses, though none may come.
MutHandleDisconnectedCopies(c, up) ==
    IF Disconnected(c, up) = {} THEN c
    ELSE [c EXCEPT !.needVersionIncrease = TRUE,
                   !.interrupted = @ \/ c.operation # "none",
                   !.parts = [s \in Server |->
                                IF s \in up THEN c.parts[s] ELSE NoPart]]

HandleDisconnectedCopies(c, up) ==
    LET left == [c EXCEPT !.needVersionIncrease = TRUE,
                          !.parts = [s \in Server |->
                                       IF s \in up THEN c.parts[s] ELSE NoPart]]
    IN  IF Disconnected(c, up) = {} THEN c
        ELSE IF c.operation = "none" THEN left
        ELSE IF Busy(left) # {} THEN [left EXCEPT !.interrupted = TRUE]
        ELSE IF IsWritable(left) THEN EmergencyIncreaseVersion(left)
        ELSE FinalizeFailedOperation(left)

InvalidateCopy(c, s) ==
    [c EXCEPT !.parts[s] = [state |-> "invalid", version |-> 0]]

\* Mutant: every status is taken for a success.
MutOperationStatus(c, s, ok) ==
    LET noted ==
          IF s \in Busy(c) THEN [c EXCEPT !.parts[s].state = "valid"] ELSE c
    IN  IF Busy(noted) = {} THEN OperationEnd(noted) ELSE noted

OperationStatus(c, s, ok) ==
    LET noted ==
          IF c.parts[s] = NoPart THEN c
          ELSE IF ~ok THEN [InvalidateCopy(c, s) EXCEPT !.interrupted = TRUE]
          ELSE IF s \in Busy(c) THEN [c EXCEPT !.parts[s].state = "valid"]
          ELSE c
    IN  IF Busy(noted) = {} THEN OperationEnd(noted) ELSE noted

\* chunk becomes c; a version move sends a command to every busy part.  When
\* a truncation is acknowledged the copies without it are out of date.
Become(c) ==
    /\ chunk' = c
    /\ jobs' = [s \in Server |->
                  IF c.version # chunk.version /\ s \in Busy(c)
                  THEN jobs[s] \cup {[op |-> c.operation, from |-> chunk.version,
                                      to |-> c.version]}
                  ELSE jobs[s]]
    /\ current' = IF chunk.waiting = "truncate" /\ c.waiting = "none" /\ IsWritable(c)
                  THEN {s \in current : disk[s] \in {0, c.version}}
                  ELSE current

\* chunk_find forgets the parts of disconnected chunkservers before any
\* handler sees the chunk.  FindChunk is that step, and the zombie loop's.
Found == Disconnected(chunk, conn) = {}

FindChunk ==
    /\ ~Found
    /\ Become(HandleDisconnectedCopies(chunk, conn))
    /\ UNCHANGED <<conn, replies, disk, dropped, requests, faults>>

-----------------------------------------------------------------------------
(* Client requests                                                         *)

Request ==
    /\ Found
    /\ requests < MaxRequests
    /\ requests' = requests + 1

CreateChunk(S) ==
    /\ Request
    /\ chunk.version = 0
    /\ S # {}
    /\ S \subseteq conn
    /\ Become([StartOperation(chunk, "create", S) EXCEPT !.locked = TRUE,
                                                         !.inFile = TRUE,
                                                         !.waiting = "write"])
    /\ UNCHANGED <<conn, replies, disk, dropped, faults>>

\* A client that holds the lock presents it, any other finds the chunk locked.
WriteChunk ==
    /\ Request
    /\ chunk.inFile
    /\ chunk.locked => chunk.session # NoSession
    /\ IsWritable(chunk)
    /\ chunk.operation = "none"
    /\ LET c == [chunk EXCEPT !.locked = TRUE, !.session = NoSession,
                              !.waiting = "write"]
       IN  Become(IF chunk.needVersionIncrease
                  THEN StartOperation(c, "set_version", Valid(c))
                  ELSE ChunkStatus([c EXCEPT !.interrupted = FALSE], TRUE))
    /\ UNCHANGED <<conn, replies, disk, dropped, faults>>

TruncateChunk ==
    /\ Request
    /\ chunk.inFile
    /\ IsWritable(chunk)
    /\ ~chunk.locked
    /\ chunk.operation = "none"
    /\ Become(StartOperation([chunk EXCEPT !.locked = TRUE, !.waiting = "truncate"],
                             "truncate", Valid(chunk)))
    /\ UNCHANGED <<conn, replies, disk, dropped, faults>>

\* The client writes through the chain of all its locations; each checks the
\* version.  Only then the write is acknowledged.
WriteData ==
    /\ chunk.session # NoSession
    /\ \A s \in chunk.session.locations : disk[s] = chunk.session.version
    /\ current' = current \cap chunk.session.locations
    /\ UNCHANGED <<chunk, conn, jobs, replies, disk, dropped, requests, faults>>

WriteChunkEnd ==
    /\ Found
    /\ chunk.session # NoSession
    /\ Become([chunk EXCEPT !.locked = FALSE, !.session = NoSession])
    /\ UNCHANGED <<conn, replies, disk, dropped, requests, faults>>

\* A client stops writing within 30 seconds of its grant (kMaximumTime of
\* mount/writedata.cc) and the lock lasts 120: it never expires under a writer,
\* provided that the operation before the grant did not take the difference.
ClientStops ==
    /\ chunk.session # NoSession
    /\ chunk' = [chunk EXCEPT !.session = NoSession]
    /\ UNCHANGED <<conn, jobs, replies, disk, current, dropped, requests, faults>>

LockExpires ==
    /\ chunk.locked
    /\ chunk.session = NoSession
    /\ chunk.waiting = "none"
    /\ chunk' = [chunk EXCEPT !.locked = FALSE]
    /\ UNCHANGED <<conn, jobs, replies, disk, current, dropped, requests, faults>>

-----------------------------------------------------------------------------
(* Chunkservers                                                            *)

Fault ==
    /\ faults < MaxFaults
    /\ faults' = faults + 1

Reply(s, op, ok, version) ==
    replies' = [replies EXCEPT ![s] = Append(@, [op |-> op, ok |-> ok,
                                                 version |-> version])]

Done(s, j) == jobs' = [jobs EXCEPT ![s] = @ \ {j}]

\* hddInternalCreate, hddInternalUpdateVersion, hddTruncate: the copy must
\* have the version that the master names.
ExecuteOperation(s, j) ==
    /\ j.op \in Operation
    /\ Done(s, j)
    /\ disk' = IF disk[s] = j.from THEN [disk EXCEPT ![s] = j.to] ELSE disk
    /\ Reply(s, "status", disk[s] = j.from, j.to)
    /\ UNCHANGED <<chunk, conn, current, dropped, requests, faults>>

\* An I/O error, before or after the file got its new name.
FailOperation(s, j) ==
    /\ j.op \in Operation
    /\ Fault
    /\ Done(s, j)
    /\ disk' \in {disk, [disk EXCEPT ![s] = IF @ = j.from THEN j.to ELSE @]}
    /\ Reply(s, "status", FALSE, j.to)
    /\ UNCHANGED <<chunk, conn, current, dropped, requests>>

\* Version 0 deletes any copy; the master does not look at the status.
ExecuteDelete(s, j) ==
    /\ j.op = "delete"
    /\ Done(s, j)
    /\ disk' = IF j.from \in {0, disk[s]} THEN [disk EXCEPT ![s] = 0] ELSE disk
    /\ Reply(s, "delete", TRUE, 0)
    /\ UNCHANGED <<chunk, conn, current, dropped, requests, faults>>

\* A new copy is read from one of the sources that still has the version,
\* if this chunkserver has none.
ExecuteReplicate(s, j) ==
    /\ j.op = "replicate"
    /\ Done(s, j)
    /\ \/ /\ disk[s] = 0
          /\ \E source \in j.sources :
               /\ disk[source] = j.from
               /\ disk' = [disk EXCEPT ![s] = j.from]
               /\ current' = IF source \in current THEN current \cup {s}
                             ELSE current \ {s}
          /\ Reply(s, "replicate", TRUE, j.from)
       \/ /\ disk[s] # 0 \/ \A source \in j.sources : disk[source] # j.from
          /\ Reply(s, "replicate", FALSE, j.from)
          /\ UNCHANGED <<disk, current>>
    /\ UNCHANGED <<chunk, conn, dropped, requests, faults>>

\* A copy fails its checksum test, or its file is gone.
FindDamaged(s) ==
    /\ Fault
    /\ s \in conn
    /\ disk[s] # 0
    /\ Reply(s, "damaged", TRUE, 0)
    /\ UNCHANGED <<chunk, conn, jobs, disk, current, dropped, requests>>

FindLost(s) ==
    /\ Fault
    /\ s \in conn
    /\ disk[s] # 0
    /\ disk' = [disk EXCEPT ![s] = 0]
    /\ Reply(s, "lost", TRUE, 0)
    /\ UNCHANGED <<chunk, conn, jobs, current, dropped, requests>>

\* Is such a packet in this queue?
Pending(q, op) == \E i \in DOMAIN q : q[i].op = op

\* Jobs that wait are disabled and packets are lost; reports of a damaged or
\* lost copy that had not left the chunkserver go back to its two lists, from
\* which damaged copies are reported first.
Report(op, kept) ==
    IF op \in kept THEN <<[op |-> op, ok |-> TRUE, version |-> 0]>> ELSE <<>>

Disconnect(s) ==
    /\ Fault
    /\ s \in conn
    /\ conn' = conn \ {s}
    /\ jobs' = [jobs EXCEPT ![s] = {}]
    /\ \E kept \in SUBSET {op \in {"damaged", "lost"} : Pending(replies[s], op)} :
         replies' = [replies EXCEPT ![s] = Report("damaged", kept) \o Report("lost", kept)]
    /\ UNCHANGED <<chunk, disk, current, dropped, requests>>

\* chunk_server_has_chunk, for the copy that a chunkserver registers.
ServerHasChunk(c, s, version) ==
    LET state == IF version = c.version THEN "valid" ELSE "invalid" IN
    CASE c.parts[s] = NoPart ->
           [c EXCEPT !.parts[s] = [state |-> state, version |-> version]]
      [] c.parts[s].state = "del" -> InvalidateCopy(c, s)
      [] c.parts[s].state = "invalid" -> c
      [] s \in Valid(c) ->
           [c EXCEPT !.parts[s] = [state |-> IF version = c.version THEN @.state
                                             ELSE "invalid",
                                   version |-> version]]

\* A chunkserver keeps its csid: one that is back before its parts were
\* forgotten (ZombieRace) finds them as they were.
Connect(s) ==
    /\ s \notin conn
    /\ ZombieRace \/ chunk.parts[s] = NoPart
    /\ conn' = conn \cup {s}
    /\ Become(IF disk[s] = 0 THEN chunk
              ELSE ServerHasChunk(HandleDisconnectedCopies(chunk, conn'), s, disk[s]))
    /\ UNCHANGED <<replies, disk, dropped, requests, faults>>

-----------------------------------------------------------------------------
(* Packets from chunkservers                                               *)

Receive(s, op) ==
    /\ Found
    /\ s \in conn
    /\ replies[s] # <<>>
    /\ Head(replies[s]).op = op
    /\ replies' = [replies EXCEPT ![s] = Tail(@)]
    /\ UNCHANGED <<conn, disk, requests, faults>>

GotOperationStatus(s) ==
    /\ Receive(s, "status")
    /\ Become(OperationStatus(chunk, s, Head(replies[s]).ok))
    /\ UNCHANGED dropped

GotDeleteStatus(s) ==
    /\ Receive(s, "delete")
    /\ Become([chunk EXCEPT !.parts[s] = NoPart])
    /\ UNCHANGED dropped

ReplicateStatus(c, s, version) ==
    IF c.parts[s] # NoPart
    THEN IF c.parts[s].state = "valid" /\ version # c.version
         THEN [c EXCEPT !.parts[s] = [state |-> "invalid", version |-> version]]
         ELSE c
    ELSE [c EXCEPT !.parts[s] =
            [state |-> IF c.locked \/ version # c.version THEN "invalid" ELSE "valid",
             version |-> version]]

GotReplicateStatus(s) ==
    /\ Receive(s, "replicate")
    /\ Become(IF Head(replies[s]).ok
              THEN ReplicateStatus(chunk, s, Head(replies[s]).version)
              ELSE chunk)
    /\ UNCHANGED dropped

NoteDropped(s) ==
    dropped' = IF chunk.operation = "none" THEN dropped ELSE dropped \cup {s}

ChunkDamaged(s) ==
    /\ Receive(s, "damaged")
    /\ Become([InvalidateCopy(chunk, s) EXCEPT !.needVersionIncrease = TRUE])
    /\ NoteDropped(s)

ChunkLost(s) ==
    /\ Receive(s, "lost")
    /\ Become(IF chunk.parts[s] = NoPart THEN chunk
              ELSE [chunk EXCEPT !.parts[s] = NoPart,
                                 !.needVersionIncrease = TRUE])
    /\ NoteDropped(s)

-----------------------------------------------------------------------------
(* The maintenance loop                                                    *)

Outstanding(s, op) ==
    \/ \E j \in jobs[s] : j.op = op
    \/ Pending(replies[s], op)

\* The loop is back at a chunk after CHUNKS_LOOP_MIN_TIME, 300 seconds: its
\* commands of the last round have been answered.
Settled(s) == ~Outstanding(s, "delete") /\ ~Outstanding(s, "replicate")

Deletable(c) == {s \in Invalid(c) : Settled(s)}

DeleteCopies(c, S) ==
    [c EXCEPT !.parts = [s \in Server |->
                IF s \in S THEN [c.parts[s] EXCEPT !.state = "del"] ELSE c.parts[s]]]

\* Step 3 deletes invalid parts; what the later steps then see.
DeleteInvalidChunkParts(c) == DeleteCopies(c, Deletable(c))

\* Steps 4 and 5: an operation, a lock or a busy part ends the round.
Idle(c) ==
    /\ c.operation = "none"
    /\ ~c.locked
    /\ Busy(c) = {}

\* Steps 0 to 3, then chunk becomes c with one more command for each of S.
DoChunkJobs(c, S, job) ==
    /\ Found
    /\ ~(~IsWritable(chunk) /\ Invalid(chunk) # {} /\ chunk.inFile)
    /\ chunk' = c
    /\ jobs' = [s \in Server |->
                  CASE s \in S -> jobs[s] \cup {job}
                    [] s \in Deletable(chunk) ->
                         jobs[s] \cup {[op |-> "delete", from |-> 0]}
                    [] OTHER -> jobs[s]]
    /\ UNCHANGED <<conn, replies, disk, current, dropped, requests, faults>>

\* A round that only deletes invalid parts.
DeleteInvalid ==
    /\ Deletable(chunk) # {}
    /\ DoChunkJobs(DeleteInvalidChunkParts(chunk), {}, {})

\* Step 6: the chunk is in no file.
DeleteAllChunkParts ==
    LET c == DeleteInvalidChunkParts(chunk)
        S == {s \in Valid(c) : Settled(s)}
    IN  /\ Idle(c)
        /\ ~c.inFile
        /\ S # {}
        /\ DoChunkJobs([DeleteCopies(c, S) EXCEPT !.needVersionIncrease = TRUE],
                       S, [op |-> "delete", from |-> c.version])

\* Mutant: the next write need not leave the new copy behind.
MutTryReplication(s) ==
    LET c == DeleteInvalidChunkParts(chunk) IN
    /\ Idle(c)
    /\ c.inFile
    /\ IsWritable(c)
    /\ s \in conn
    /\ c.parts[s] = NoPart
    /\ Settled(s)
    /\ DoChunkJobs(c, {s}, [op |-> "replicate", from |-> c.version,
                            sources |-> Valid(c)])

\* A copy too few (step 7), or one to be moved (steps 9 to 11).
TryReplication(s) ==
    LET c == DeleteInvalidChunkParts(chunk) IN
    /\ Idle(c)
    /\ c.inFile
    /\ IsWritable(c)
    /\ s \in conn
    /\ c.parts[s] = NoPart
    /\ Settled(s)
    /\ DoChunkJobs([c EXCEPT !.needVersionIncrease = TRUE],
                   {s}, [op |-> "replicate", from |-> c.version,
                         sources |-> Valid(c)])

\* A copy too many (step 8).
RemoveUnneededChunkPart(s) ==
    LET c == DeleteInvalidChunkParts(chunk) IN
    /\ Idle(c)
    /\ c.inFile
    /\ Cardinality(Valid(c)) > Goal
    /\ s \in Valid(c)
    /\ Settled(s)
    /\ DoChunkJobs([DeleteCopies(c, {s}) EXCEPT !.needVersionIncrease = TRUE],
                   {s}, [op |-> "delete", from |-> 0])

-----------------------------------------------------------------------------
ServerNext(s) ==
    \/ \E j \in jobs[s] :
         \/ ExecuteOperation(s, j)
         \/ FailOperation(s, j)
         \/ ExecuteDelete(s, j)
         \/ ExecuteReplicate(s, j)
    \/ FindDamaged(s)
    \/ FindLost(s)
    \/ Disconnect(s)
    \/ Connect(s)
    \/ GotOperationStatus(s)
    \/ GotDeleteStatus(s)
    \/ GotReplicateStatus(s)
    \/ ChunkDamaged(s)
    \/ ChunkLost(s)
    \/ TryReplication(s)
    \/ RemoveUnneededChunkPart(s)

Next ==
    \/ \E S \in SUBSET Server : CreateChunk(S)
    \/ WriteChunk
    \/ TruncateChunk
    \/ WriteData
    \/ WriteChunkEnd
    \/ ClientStops
    \/ LockExpires
    \/ FindChunk
    \/ DeleteInvalid
    \/ DeleteAllChunkParts
    \/ \E s \in Server : ServerNext(s)

Spec == Init /\ [][Next]_vars

-----------------------------------------------------------------------------
(* Properties                                                              *)

\* Types of the chunk record, the parts and the commands.
TypeOK ==
    /\ chunk.version \in Nat
    /\ chunk.operation \in Operation
    /\ chunk.parts \in [Server -> [state : {"none", "invalid", "del", "busy", "valid"},
                                   version : 0..chunk.version]]
    /\ chunk.waiting \in {"none", "write", "truncate"}
    /\ chunk.session \in [version : 0..chunk.version, locations : SUBSET Server]
    /\ conn \subseteq Server
    /\ disk \in [Server -> 0..chunk.version]
    /\ current \subseteq Server

\* Readers are sent to every copy that is not INVALID or DEL
\* (chunk_getversionandlocations).  No such copy misses data that a client
\* was told is written or truncated, however many chunkservers left, came
\* back, failed or were replaced meanwhile; copies that were reported damaged
\* or lost during an operation are the exception.
CopiesAreCurrent ==
    dropped = {} => Valid(chunk) \cap conn \subseteq current

\* A chunk in an operation is not idle for ever: a status is on its way, or
\* the loss of a chunkserver is about to be noticed (chunk_operation_status,
\* chunk_handle_disconnected_copies).
OperationIsAnswered ==
    dropped = {} /\ chunk.operation # "none" =>
       \/ ~Found
       \/ \E s \in conn : \/ Outstanding(s, chunk.operation)
                          \/ Outstanding(s, "status")

\* What the master believes of a copy that it has nothing to say to and
\* nothing to hear from is what is on the disk.
MasterKnowsDisk ==
    \A s \in Valid(chunk) \cap conn :
       jobs[s] = {} /\ replies[s] = <<>> /\ chunk.operation = "none"
          => disk[s] = chunk.version
-----------------------------------------------------------------------------
(* The inductive invariant behind these properties, when chunkservers are  *)
(* forgotten before they are back (ZombieRace = FALSE).  Most of it is     *)
(* about one chunkserver: the part s of the chunk c, the jobs J and the    *)
(* queue q to the master, the version d on disk, and whether it is up.     *)

PartState == {"none", "invalid", "del", "busy", "valid"}
ChunkType ==
    [version : Nat, operation : Operation, interrupted : BOOLEAN,
     needVersionIncrease : BOOLEAN, locked : BOOLEAN, inFile : BOOLEAN,
     parts : [Server -> [state : PartState, version : Nat]],
     waiting : {"none", "write", "truncate"},
     session : [version : Nat, locations : SUBSET Server]]

Job == [op : Operation \ {"none"}, from : Nat, to : Nat]
         \cup [op : {"delete"}, from : Nat]
         \cup [op : {"replicate"}, from : Nat, sources : SUBSET Server]

Packet == [op : {"status", "delete", "replicate", "damaged", "lost"},
           ok : BOOLEAN, version : Nat]

Types ==
    /\ chunk \in ChunkType
    /\ conn \subseteq Server
    /\ jobs \in [Server -> SUBSET Job]
    /\ replies \in [Server -> Seq(Packet)]
    /\ disk \in [Server -> Nat]
    /\ current \subseteq Server
    /\ dropped \subseteq Server
    /\ requests \in Nat /\ faults \in Nat

\* The commands of the loop, which the master does not repeat.
LoopCommand == {"delete", "replicate"}

OperationJobs(J) == {j \in J : j.op \in Operation}

\* The versions of the copies that are being made, or reported.
Replications(J, q) ==
    {j.from : j \in {k \in J : k.op = "replicate"}}
      \cup {q[i].version : i \in {k \in DOMAIN q : q[k].op = "replicate" /\ q[k].ok}}

NoCommand(J, q) ==
    /\ \A j \in J : j.op \notin LoopCommand
    /\ \A i \in DOMAIN q : q[i].op \notin LoopCommand

\* No more than one packet of the queue is one of these.
Once(q, ops) == \A i, k \in DOMAIN q : q[i].op \in ops /\ q[k].op \in ops => i = k

OneCommand(J, q) ==
    /\ \A j, k \in J : j.op \in LoopCommand /\ k.op \in LoopCommand => j = k
    /\ Once(q, LoopCommand)
    /\ \A j \in J : j.op \in LoopCommand => NoCommand({}, q)

\* What makes the master give up the copy when it hears of it.
BadNews(p, d) == (p.op = "status" /\ ~p.ok) \/ (p.op = "lost" /\ d = 0)

\* No version is ahead of the chunk's, and what operations change is known.
Bounds(c, s, J, q, d) ==
    /\ d <= c.version /\ c.parts[s].version <= c.version
    /\ c.parts[s].state = "none" => c.parts[s] = NoPart
    /\ \A j \in OperationJobs(J) : j.to = j.from + 1 /\ j.to <= c.version
    /\ \A v \in Replications(J, q) :
         0 < v /\ v <= c.version /\ \A j \in OperationJobs(J) : j.from < v

\* A creation is the first command that a chunkserver gets.
CreatesFirst(c, s, J, q, d) ==
    \A j \in OperationJobs(J) : j.from = 0 =>
        J = {j} /\ q = <<>> /\ s \in Busy(c) /\ c.version = 1 /\ d = 0

\* What the master believes of a copy is true, or a command will make it so,
\* or the master will hear otherwise.
Truth(c, s, J, q, d) ==
    s \in Valid(c) =>
        \/ d = c.version
        \/ \E j \in OperationJobs(J) : j.to = c.version
        \/ \E i \in DOMAIN q : BadNews(q[i], d)

\* And so is what it will hear of a replication.
ReplicaIsThere(q, d) ==
    \A i \in DOMAIN q : q[i].op = "replicate" /\ q[i].ok =>
        d = q[i].version \/ \E k \in DOMAIN q : k > i /\ BadNews(q[k], d)

ServerInv(c, s, J, q, d, up) ==
    /\ Bounds(c, s, J, q, d)
    /\ ~up => J = {} /\ \A i \in DOMAIN q : q[i].op \in {"damaged", "lost"}
    /\ OneCommand(J, q)
    /\ s \in Valid(c) => NoCommand(J, q)
    /\ CreatesFirst(c, s, J, q, d)
    /\ up => Truth(c, s, J, q, d)
    /\ ReplicaIsThere(q, d)

\* There is nothing before the chunk is created.
Fresh(c, J, q, cur) ==
    c.version = 0 =>
        /\ c.operation = "none" /\ c.session = NoSession /\ ~c.inFile
        /\ c.needVersionIncrease /\ cur = Server
        /\ \A s \in Server : c.parts[s] = NoPart /\ J[s] = {} /\ q[s] = <<>>

ChunkInv(c) ==
    /\ c.session.version <= c.version
    /\ c.operation = "none" => Busy(c) = {}

DiskInv ==
    /\ Types /\ ChunkInv(chunk) /\ Fresh(chunk, jobs, replies, current)
    /\ \A s \in Server :
         ServerInv(chunk, s, jobs[s], replies[s], disk[s], s \in conn)

\* A busy copy owes one status, and no other copy owes any.
OneStatus(c, s, J, q) ==
    /\ \A j, k \in OperationJobs(J) : j = k
    /\ Once(q, {"status"})
    /\ \A j \in OperationJobs(J) : j.op = c.operation /\ ~Pending(q, "status")
    /\ s \in Busy(c) <=> OperationJobs(J) # {} \/ Pending(q, "status")

\* A copy of the present version holds all data.
Holding(c, s, q, d, up, cur) ==
    /\ up /\ s \in Valid(c) => s \in cur
    /\ d = c.version => s \in cur
    /\ \A i \in DOMAIN q :
         q[i].op = "replicate" /\ q[i].ok /\ q[i].version = c.version => s \in cur

\* A client that writes does so to all copies of the present version.
Writing(c, s, d, up) ==
    c.session # NoSession =>
        /\ up /\ s \in Valid(c) => s \in c.session.locations
        /\ d = c.version => s \in c.session.locations

\* needVersionIncrease is set when a copy that the master does not count on
\* has the present version, or may get it.
Increase(c, s, J, q, d) ==
    /\ ~c.needVersionIncrease \/ c.operation # "none" \/ c.session # NoSession
         => \A v \in Replications(J, q) : v < c.version
    /\ c.operation # "none" /\ ~c.interrupted /\ d = c.version => s \in Valid(c)
    /\ ~c.needVersionIncrease /\ d = c.version =>
         /\ c.parts[s] # NoPart /\ ~Pending(q, "delete")
         /\ c.operation = "none" /\ IsWritable(c) => s \in Valid(c)
    /\ \A j \in J : j.op = "delete" /\ j.from # 0 => ~c.inFile

CopyInv(c, s, J, q, d, up, cur) ==
    /\ up => OneStatus(c, s, J, q)
    /\ Holding(c, s, q, d, up, cur)
    /\ Writing(c, s, d, up)
    /\ Increase(c, s, J, q, d)

OperationInv(c) ==
    /\ c.operation # "none" => Busy(c) # {} /\ c.inFile
    /\ c.waiting # "none" => c.operation # "none" /\ c.locked
    /\ c.session # NoSession =>
         c.operation = "none" /\ c.locked /\ c.session.version = c.version
    /\ ~c.needVersionIncrease => c.inFile /\ c.operation # "create"

ChunkIndInv ==
    /\ DiskInv
    /\ dropped = {} =>
         /\ OperationInv(chunk)
         /\ \A s \in Server :
              CopyInv(chunk, s, jobs[s], replies[s], disk[s], s \in conn, current)
=============================================================================
