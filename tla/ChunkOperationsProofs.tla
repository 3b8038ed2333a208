----------------------- MODULE ChunkOperationsProofs ------------------------
(***************************************************************************)
(* What the master believes of the copies of a chunk is what is on disk,   *)
(* operations end, and no reader is sent to a copy that misses data: for   *)
(* every number of chunkservers, requests and faults.  Every handler of    *)
(* the master keeps ChunkIndInv, and so does every step of a chunkserver   *)
(* (ChunkOperationsLemmas); the theorems follow from that.                 *)
(***************************************************************************)
EXTENDS ChunkOperationsLemmas

-----------------------------------------------------------------------------
(* The handlers of the master: answers, connections and loops              *)

\* The queues after a packet of chunkserver s was received.
Received(Q, s) == [Q EXCEPT ![s] = Tail(@)]

\* The master hears of one copy.
LEMMA ReceivedKnows ==
    ASSUME NEW c \in ChunkType, NEW m \in ChunkType, NEW s \in Server,
           NEW J \in [Server -> SUBSET Job], NEW Q \in [Server -> Seq(Packet)],
           NEW D \in [Server -> Nat], NEW U, s \in U, Q[s] # <<>>,
           Knows(c, J, Q, D, U), m.version = c.version,
           \A t \in Server : t # s => m.parts[t] = c.parts[t],
           m.parts[s].version <= m.version, m.parts[s].state = "none" => m.parts[s] = NoPart,
           s \in Valid(m) =>
              NoCommand(J[s], Tail(Q[s])) /\ Truth(m, s, J[s], Tail(Q[s]), D[s])
    PROVE  Knows(m, J, Received(Q, s), D, U)
<1>1. ASSUME NEW t \in Server
      PROVE  ServerInv(m, t, J[t], Received(Q, s)[t], D[t], t \in U)
  <2>1. /\ ServerInv(c, t, J[t], Q[t], D[t], t \in U)
        /\ J[t] \in SUBSET Job /\ Q[t] \in Seq(Packet) /\ D[t] \in Nat
    BY ZenonT(60) DEF Knows
  <2>2. CASE t = s
    <3>1. ServerInv(c, s, J[s], Q[s], D[s], TRUE)
      BY ZenonT(60), <2>1, <2>2, UpOrDown
    <3>2. ServerInv(m, s, J[s], Tail(Q[s]), D[s], TRUE)
      BY ZenonT(60), <2>1, <2>2, <3>1, ReceivePart
    <3>3. Received(Q, s)[t] = Tail(Q[s])
      BY ZenonT(60), <2>2 DEF Received
    <3>4. QED
      BY ZenonT(60), <2>2, <3>2, <3>3, UpOrDown
  <2>3. CASE t # s
    <3>1. Received(Q, s)[t] = Q[t] /\ m.parts[t] = c.parts[t]
      BY ZenonT(60), <2>3 DEF Received
    <3>2. ServerInv(m, t, J[t], Q[t], D[t], t \in U)
      BY ZenonT(60), <2>1, <3>1, SamePart
    <3>3. QED
      BY ZenonT(60), <3>1, <3>2
  <2>4. QED
    BY ZenonT(60), <2>2, <2>3
<1>2. QED
  BY ZenonT(60), <1>1 DEF Knows

\* And the copies hold what they held.
LEMMA ReceivedHolds ==
    ASSUME NEW c \in ChunkType, NEW m \in ChunkType, NEW s \in Server,
           NEW J \in [Server -> SUBSET Job], NEW Q \in [Server -> Seq(Packet)],
           NEW D \in [Server -> Nat], NEW U, NEW cur, s \in U, Q[s] # <<>>,
           Holds(c, J, Q, D, U, cur),
           m.version = c.version, m.operation = c.operation, m.session = c.session,
           m.inFile = c.inFile, ~m.needVersionIncrease => ~c.needVersionIncrease,
           ~m.interrupted => c.operation = "none" \/ ~c.interrupted,
           ~m.needVersionIncrease /\ m.operation = "none" /\ IsWritable(m) => IsWritable(c),
           \A t \in Server : t # s => m.parts[t] = c.parts[t],
           s \in Busy(m) <=> s \in Busy(c) /\ Head(Q[s]).op # "status",
           s \in Valid(m) => s \in cur,
           s \in Valid(m) /\ m.session # NoSession => s \in m.session.locations,
           m.operation # "none" /\ ~m.interrupted /\ D[s] = m.version => s \in Valid(m),
           ~m.needVersionIncrease /\ D[s] = m.version =>
              /\ m.parts[s] # NoPart
              /\ m.operation = "none" /\ IsWritable(m) => s \in Valid(m)
    PROVE  Holds(m, J, Received(Q, s), D, U, cur)
<1>1. ASSUME NEW t \in Server
      PROVE  CopyInv(m, t, J[t], Received(Q, s)[t], D[t], t \in U, cur)
  <2>1. /\ CopyInv(c, t, J[t], Q[t], D[t], t \in U, cur)
        /\ J[t] \in SUBSET Job /\ Q[t] \in Seq(Packet) /\ D[t] \in Nat
    BY ZenonT(60) DEF Holds
  <2>2. CASE t = s
    <3>1. CopyInv(c, s, J[s], Q[s], D[s], TRUE, cur)
      BY ZenonT(60), <2>1, <2>2, UpOrDown
    <3>2. CopyInv(m, s, J[s], Tail(Q[s]), D[s], TRUE, cur)
      BY ZenonT(60), <2>1, <2>2, <3>1, ReceiveCopy
    <3>3. Received(Q, s)[t] = Tail(Q[s])
      BY ZenonT(60), <2>2 DEF Received
    <3>4. QED
      BY ZenonT(60), <2>2, <3>2, <3>3, UpOrDown
  <2>3. CASE t # s
    <3>1. Received(Q, s)[t] = Q[t] /\ m.parts[t] = c.parts[t]
      BY ZenonT(60), <2>3 DEF Received
    <3>2. m.session \in {c.session, NoSession}
      BY ZenonT(60)
    <3>3. CopyInv(m, t, J[t], Q[t], D[t], t \in U, cur)
      BY ZenonT(60), <2>1, <3>1, <3>2, SameCopy
    <3>4. QED
      BY ZenonT(60), <3>1, <3>3
  <2>4. QED
    BY ZenonT(60), <2>2, <2>3
<1>2. QED
  BY ZenonT(60), <1>1 DEF Holds

\* A packet is received.
LEMMA ReceiveFacts ==
    ASSUME ChunkIndInv, NEW s \in Server, NEW op, Receive(s, op)
    PROVE  /\ Found /\ s \in conn /\ replies[s] # <<>> /\ Head(replies[s]).op = op
           /\ Head(replies[s]) \in Packet /\ Head(replies[s]).version \in Nat
           /\ replies' = Received(replies, s) /\ replies' \in [Server -> Seq(Packet)]
           /\ conn' = conn /\ disk' = disk /\ requests' \in Nat /\ faults' \in Nat
           /\ chunk.version # 0 /\ Valid(chunk) \subseteq conn
<1>1. /\ Types /\ replies \in [Server -> Seq(Packet)] /\ Fresh(chunk, jobs, replies, current)
  BY ZenonT(30), MasterFacts
<1>2. Found /\ s \in conn /\ replies[s] # <<>> /\ Head(replies[s]).op = op
      /\ replies' = Received(replies, s) /\ conn' = conn /\ disk' = disk
      /\ requests' = requests /\ faults' = faults
  BY ZenonT(30) DEF Receive, Received
<1>3. replies[s] \in Seq(Packet)
  BY ZenonT(30), <1>1
<1>4. Head(replies[s]) \in Packet /\ Tail(replies[s]) \in Seq(Packet)
  BY ZenonT(30), <1>2, <1>3, Receives
<1>5. replies' \in [Server -> Seq(Packet)]
  BY ZenonT(30), <1>1, <1>2, <1>4 DEF Received
<1>6. Valid(chunk) \subseteq conn
  BY ZenonT(30), <1>2, FoundParts DEF Valid
<1>7. chunk.version # 0
  BY ZenonT(30), <1>1, <1>2 DEF Fresh
<1>8. QED
  BY ZenonT(30), <1>1, <1>2, <1>4, <1>5, <1>6, <1>7 DEF Types, Packet

\* A packet changes what the master believes of a copy, and no operation.
LEMMA NotedSteps ==
    ASSUME ChunkIndInv, NEW s \in Server, NEW op, Receive(s, op), op # "status",
           NEW m \in ChunkType, Become(m),
           dropped' \in SUBSET Server, dropped' = {} => dropped = {},
           m.version = chunk.version, m.operation = chunk.operation, m.session = chunk.session,
           m.inFile = chunk.inFile, m.waiting = chunk.waiting, m.locked = chunk.locked,
           m.interrupted = chunk.interrupted, ~m.needVersionIncrease => ~chunk.needVersionIncrease,
           \A t \in Server : t # s => m.parts[t] = chunk.parts[t],
           m.parts[s].version <= m.version, m.parts[s].state = "none" => m.parts[s] = NoPart,
           s \in Valid(m) =>
              /\ NoCommand(jobs[s], Tail(replies[s]))
              /\ Truth(m, s, jobs[s], Tail(replies[s]), disk[s]),
           s \in Busy(m) => s \in Busy(chunk),
           dropped' = {} =>
              /\ s \in Busy(chunk) => s \in Busy(m)
              /\ ~m.needVersionIncrease /\ IsWritable(m) => IsWritable(chunk)
              /\ s \in Valid(m) => s \in current
              /\ s \in Valid(m) /\ m.session # NoSession => s \in m.session.locations
              /\ m.operation # "none" /\ ~m.interrupted /\ disk[s] = m.version => s \in Valid(m)
              /\ ~m.needVersionIncrease /\ disk[s] = m.version =>
                   /\ m.parts[s] # NoPart
                   /\ m.operation = "none" /\ IsWritable(m) => s \in Valid(m)
    PROVE  ChunkIndInv'
<1>1. /\ Types /\ chunk \in ChunkType /\ chunk.version \in Nat /\ conn \in SUBSET Server
      /\ jobs \in [Server -> SUBSET Job] /\ replies \in [Server -> Seq(Packet)]
      /\ disk \in [Server -> Nat] /\ current \in SUBSET Server
      /\ ChunkInv(chunk) /\ Fresh(chunk, jobs, replies, current)
      /\ Knows(chunk, jobs, replies, disk, conn)
      /\ dropped = {} => OperationInv(chunk) /\ Holds(chunk, jobs, replies, disk, conn, current)
  BY ZenonT(60), MasterFacts
<1>2. /\ Found /\ s \in conn /\ replies[s] # <<>> /\ Head(replies[s]).op = op
      /\ replies' = Received(replies, s) /\ replies' \in [Server -> Seq(Packet)]
      /\ conn' = conn /\ disk' = disk /\ requests' \in Nat /\ faults' \in Nat
      /\ chunk.version # 0
  BY ZenonT(60), ReceiveFacts
<1>3. chunk' = m /\ jobs' = jobs /\ current' = CurrentAfter(chunk, m, disk, current)
  BY ZenonT(60), <1>1, Becomes
<1>4. current' = current
  BY ZenonT(60), <1>3 DEF CurrentAfter
<1>5. Knows(m, jobs, replies', disk, conn)
  BY ZenonT(60), <1>1, <1>2, ReceivedKnows
<1>6. Busy(m) \subseteq Busy(chunk)
  BY ZenonT(60) DEF Busy
<1>7. ChunkInv(m)
  BY ZenonT(60), <1>1, <1>6 DEF ChunkInv
<1>8. ASSUME dropped' = {}
      PROVE  OperationInv(m) /\ Holds(m, jobs, replies', disk, conn, current)
  <2>1. dropped = {}
    BY ZenonT(60), <1>8
  <2>2. OperationInv(chunk) /\ Holds(chunk, jobs, replies, disk, conn, current)
    BY ZenonT(60), <1>1, <2>1
  <2>3. s \in Busy(chunk) => s \in Busy(m)
    BY ZenonT(60), <1>8
  <2>4. Busy(m) = Busy(chunk)
    BY ZenonT(60), <2>3 DEF Busy
  <2>5. OperationInv(m)
    BY ZenonT(60), <2>2, <2>4 DEF OperationInv
  <2>6. /\ s \in Busy(m) <=> s \in Busy(chunk) /\ Head(replies[s]).op # "status"
        /\ ~m.interrupted => chunk.operation = "none" \/ ~chunk.interrupted
    BY ZenonT(60), <1>2, <2>4
  <2>7. /\ ~m.needVersionIncrease /\ m.operation = "none" /\ IsWritable(m) => IsWritable(chunk)
        /\ s \in Valid(m) => s \in current
        /\ s \in Valid(m) /\ m.session # NoSession => s \in m.session.locations
        /\ m.operation # "none" /\ ~m.interrupted /\ disk[s] = m.version => s \in Valid(m)
        /\ ~m.needVersionIncrease /\ disk[s] = m.version =>
             /\ m.parts[s] # NoPart
             /\ m.operation = "none" /\ IsWritable(m) => s \in Valid(m)
    BY ZenonT(60), <1>8
  <2>8. Holds(m, jobs, Received(replies, s), disk, conn, current)
    BY ZenonT(60), <1>1, <1>2, <2>2, <2>6, <2>7, ReceivedHolds
  <2>9. QED
    BY ZenonT(60), <1>2, <2>5, <2>8
<1>9. QED
  BY ZenonT(30), <1>1, <1>2, <1>3, <1>4, <1>5, <1>7, <1>8, MasterSteps

\* What the master knows of a chunkserver that sent a packet.
LEMMA SenderFacts ==
    ASSUME ChunkIndInv, NEW s \in Server, NEW op, Receive(s, op)
    PROVE  /\ ServerInv(chunk, s, jobs[s], replies[s], disk[s], TRUE)
           /\ dropped = {} =>
                /\ OperationInv(chunk)
                /\ CopyInv(chunk, s, jobs[s], replies[s], disk[s], TRUE, current)
           /\ jobs[s] \in SUBSET Job /\ replies[s] \in Seq(Packet) /\ disk[s] \in Nat
           /\ 1 \in DOMAIN replies[s] /\ replies[s][1].op = op
           /\ op \in LoopCommand => s \notin Valid(chunk)
           /\ chunk.parts[s].version <= chunk.version
           /\ chunk.parts[s].state = "none" => chunk.parts[s] = NoPart
           /\ chunk.operation = "none" => s \notin Busy(chunk)
<1>1. s \in conn /\ replies[s] # <<>> /\ Head(replies[s]).op = op
  BY ZenonT(30), ReceiveFacts
<1>2. /\ jobs[s] \in SUBSET Job /\ replies[s] \in Seq(Packet) /\ disk[s] \in Nat
      /\ ServerInv(chunk, s, jobs[s], replies[s], disk[s], TRUE) /\ ChunkInv(chunk)
      /\ dropped = {} =>
           /\ OperationInv(chunk)
           /\ CopyInv(chunk, s, jobs[s], replies[s], disk[s], TRUE, current)
  BY ZenonT(60), <1>1, ServerFacts
<1>3. 1 \in DOMAIN replies[s] /\ replies[s][1].op = op
  BY ZenonT(60), <1>1, <1>2, Receives
<1>4. op \in LoopCommand => s \notin Valid(chunk)
  BY ZenonT(60), <1>2, <1>3 DEF ServerInv, NoCommand
<1>5. QED
  BY ZenonT(60), <1>2, <1>3, <1>4 DEF ServerInv, Bounds, ChunkInv

\* The chunk with another part of chunkserver s.
WithPart(c, s, p) == [c EXCEPT !.parts[s] = p]

\* One part changes.
LEMMA PartFields ==
    ASSUME NEW c \in ChunkType, NEW s \in Server, NEW p \in [state : PartState, version : Nat],
           NEW m, m = WithPart(c, s, p)
    PROVE  /\ m \in ChunkType /\ m.version = c.version /\ m.operation = c.operation
           /\ m.session = c.session /\ m.inFile = c.inFile /\ m.waiting = c.waiting
           /\ m.locked = c.locked /\ m.interrupted = c.interrupted
           /\ m.needVersionIncrease = c.needVersionIncrease
           /\ m.parts[s] = p /\ \A t \in Server : t # s => m.parts[t] = c.parts[t]
<1>. DEFINE P == [c.parts EXCEPT ![s] = p]
<1>1. P \in [Server -> [state : PartState, version : Nat]] /\ P[s] = p
      /\ \A t \in Server : t # s => P[t] = c.parts[t]
  BY ZenonT(30) DEF ChunkType
<1>2. m = [c EXCEPT !.parts = P]
  BY ZenonT(30) DEF WithPart
<1>. HIDE DEF P
<1>3. /\ m \in ChunkType /\ m.version = c.version /\ m.operation = c.operation
      /\ m.session = c.session /\ m.inFile = c.inFile /\ m.waiting = c.waiting
      /\ m.locked = c.locked /\ m.interrupted = c.interrupted
      /\ m.needVersionIncrease = c.needVersionIncrease /\ m.parts = P
  BY ZenonT(30), <1>1, <1>2 DEF ChunkType
<1>4. QED
  BY ZenonT(30), <1>1, <1>3

\* A deletion was done.
LEMMA DeleteStatusSteps ==
    ASSUME ChunkIndInv, NEW s \in Server, GotDeleteStatus(s)
    PROVE  ChunkIndInv'
<1>. DEFINE m == WithPart(chunk, s, NoPart)
<1>1. Receive(s, "delete") /\ Become(m) /\ dropped' = dropped
  BY ZenonT(30) DEF GotDeleteStatus, WithPart
<1>2. /\ 1 \in DOMAIN replies[s] /\ replies[s][1].op = "delete" /\ s \notin Valid(chunk)
      /\ dropped = {} => CopyInv(chunk, s, jobs[s], replies[s], disk[s], TRUE, current)
  BY ZenonT(60), <1>1, SenderFacts DEF LoopCommand
<1>3. chunk \in ChunkType /\ chunk.version \in Nat /\ dropped \in SUBSET Server
  BY ZenonT(30), MasterFacts DEF Types
<1>4. NoPart \in [state : PartState, version : Nat]
  BY ZenonT(30) DEF NoPart, PartState
<1>5. /\ m \in ChunkType /\ m.version = chunk.version /\ m.operation = chunk.operation
      /\ m.session = chunk.session /\ m.inFile = chunk.inFile /\ m.waiting = chunk.waiting
      /\ m.locked = chunk.locked /\ m.interrupted = chunk.interrupted
      /\ m.needVersionIncrease = chunk.needVersionIncrease
      /\ m.parts[s] = NoPart /\ \A t \in Server : t # s => m.parts[t] = chunk.parts[t]
  BY SMTT(60), <1>3, <1>4, PartFields
<1>. HIDE DEF m
<1>6. s \notin Valid(m) /\ s \notin Busy(m) /\ s \notin Busy(chunk) /\ Valid(m) = Valid(chunk)
  BY ZenonT(60), <1>2, <1>5, PartSets DEF Valid
<1>7. m.parts[s].version <= m.version
  BY SMTT(60), <1>3, <1>5 DEF NoPart
<1>8. ASSUME dropped = {}
      PROVE  /\ ~(m.operation # "none" /\ ~m.interrupted /\ disk[s] = m.version)
             /\ ~(~m.needVersionIncrease /\ disk[s] = m.version)
  <2>1. Pending(replies[s], "delete")
    BY ZenonT(30), <1>2 DEF Pending
  <2>2. QED
    BY ZenonT(30), <1>2, <1>5, <1>8, <2>1 DEF CopyInv, Increase
<1>9. IsWritable(m) => IsWritable(chunk)
  BY ZenonT(30), <1>6 DEF IsWritable
<1>10. QED
  BY ZenonT(30), <1>1, <1>3, <1>5, <1>6, <1>7, <1>8, <1>9, NotedSteps

\* A copy is damaged, or gone.
LEMMA BadCopySteps ==
    ASSUME ChunkIndInv, NEW s \in Server, ChunkDamaged(s) \/ ChunkLost(s)
    PROVE  ChunkIndInv'
<1>1. PICK op \in {"damaged", "lost"} : Receive(s, op)
  BY ZenonT(30) DEF ChunkDamaged, ChunkLost
<1>2. chunk \in ChunkType /\ chunk.version \in Nat /\ dropped \in SUBSET Server
  BY ZenonT(30), MasterFacts DEF Types
<1>3. /\ ServerInv(chunk, s, jobs[s], replies[s], disk[s], TRUE)
      /\ dropped = {} =>
           CopyInv(chunk, s, jobs[s], replies[s], disk[s], TRUE, current)
      /\ chunk.parts[s].version <= chunk.version
      /\ chunk.parts[s].state = "none" => chunk.parts[s] = NoPart
      /\ chunk.operation = "none" => s \notin Busy(chunk)
  BY ZenonT(30), <1>1, SenderFacts
<1>4. /\ dropped' \in SUBSET Server
      /\ dropped' = {} => dropped = {} /\ chunk.operation = "none"
  BY ZenonT(30), <1>2 DEF ChunkDamaged, ChunkLost, NoteDropped
<1>5. op # "status"
  BY ZenonT(30)
<1>6. ASSUME NEW p \in {NoPart, [state |-> "invalid", version |-> 0]},
             Become([chunk EXCEPT !.parts[s] = p, !.needVersionIncrease = TRUE])
      PROVE  ChunkIndInv'
  <2>. DEFINE n == WithPart(chunk, s, p)
              m == [n EXCEPT !.needVersionIncrease = TRUE]
  <2>1. p \in [state : PartState, version : Nat] /\ p.version = 0
        /\ p.state \notin {"busy", "valid"} /\ (p.state = "none" => p = NoPart)
    BY DEF NoPart, PartState
  <2>2. Become(m)
    BY ZenonT(30), <1>6 DEF WithPart
  <2>3. /\ n \in ChunkType /\ n.version = chunk.version /\ n.operation = chunk.operation
        /\ n.session = chunk.session /\ n.inFile = chunk.inFile /\ n.waiting = chunk.waiting
        /\ n.locked = chunk.locked /\ n.interrupted = chunk.interrupted
        /\ n.parts[s] = p /\ \A t \in Server : t # s => n.parts[t] = chunk.parts[t]
    BY SMTT(60), <1>2, <2>1, PartFields
  <2>. HIDE DEF n
  <2>4. /\ m \in ChunkType /\ m.version = n.version /\ m.operation = n.operation
        /\ m.session = n.session /\ m.inFile = n.inFile /\ m.waiting = n.waiting
        /\ m.locked = n.locked /\ m.interrupted = n.interrupted
        /\ m.parts = n.parts /\ m.needVersionIncrease
    BY ZenonT(30), <2>3 DEF ChunkType
  <2>. HIDE DEF m
  <2>5. s \notin Valid(m) /\ s \notin Busy(m)
    BY ZenonT(60), <2>1, <2>3, <2>4, PartSets
  <2>6. m.parts[s].version <= m.version /\ (m.parts[s].state = "none" => m.parts[s] = NoPart)
    BY SMTT(60), <1>2, <2>1, <2>3, <2>4
  <2>7. /\ m.version = chunk.version /\ m.operation = chunk.operation
        /\ m.session = chunk.session /\ m.inFile = chunk.inFile /\ m.waiting = chunk.waiting
        /\ m.locked = chunk.locked /\ m.interrupted = chunk.interrupted
        /\ \A t \in Server : t # s => m.parts[t] = chunk.parts[t]
    BY ZenonT(30), <2>3, <2>4
  <2>8. QED
    BY ZenonT(30), <1>1, <1>3, <1>4, <1>5, <2>2, <2>4, <2>5, <2>6, <2>7, NotedSteps
<1>7. CASE ChunkDamaged(s)
  BY ZenonT(30), <1>6, <1>7 DEF ChunkDamaged, InvalidateCopy
<1>8. CASE ChunkLost(s) /\ chunk.parts[s] # NoPart
  BY ZenonT(30), <1>6, <1>8 DEF ChunkLost
<1>9. CASE ChunkLost(s) /\ chunk.parts[s] = NoPart
  <2>1. Become(chunk)
    BY ZenonT(30), <1>9 DEF ChunkLost
  <2>2. s \notin Valid(chunk)
    BY ZenonT(60), <1>9, PartSets
  <2>3. dropped = {} =>
          /\ chunk.operation # "none" /\ ~chunk.interrupted /\ disk[s] = chunk.version
                => s \in Valid(chunk)
          /\ ~chunk.needVersionIncrease /\ disk[s] = chunk.version =>
               /\ chunk.parts[s] # NoPart
               /\ chunk.operation = "none" /\ IsWritable(chunk) => s \in Valid(chunk)
    BY ZenonT(60), <1>3 DEF CopyInv, Increase
  <2>4. QED
    BY ZenonT(30), <1>1, <1>2, <1>3, <1>4, <1>5, <2>1, <2>2, <2>3, NotedSteps
<1>10. QED
  BY ZenonT(30), <1>7, <1>8, <1>9

\* What a report of a new copy implies.
LEMMA ReplicaReport ==
    ASSUME NEW c \in ChunkType, NEW m, NEW s \in Server, NEW J \in SUBSET Job,
           NEW q \in Seq(Packet), NEW d, q # <<>>,
           ServerInv(c, s, J, q, d, TRUE), Head(q).op = "replicate", Head(q).ok
    PROVE  /\ Head(q).version \in Replications(J, q)
           /\ 0 < Head(q).version /\ Head(q).version <= c.version
           /\ NoCommand(J, Tail(q))
           /\ m.version = Head(q).version => Truth(m, s, J, Tail(q), d)
<1>1. /\ 1 \in DOMAIN q /\ q[1] = Head(q)
      /\ \A i \in DOMAIN q : i # 1 => i - 1 \in DOMAIN Tail(q) /\ Tail(q)[i - 1] = q[i]
  BY ZenonT(30), Receives
<1>2. Head(q).version \in Replications(J, q)
  BY SMTT(30), <1>1 DEF Replications
<1>3. 0 < Head(q).version /\ Head(q).version <= c.version
  BY ZenonT(30), <1>2 DEF ServerInv, Bounds
<1>4. NoCommand(J, Tail(q))
  <2>1. Head(q).op \in LoopCommand /\ Once(q, LoopCommand)
    BY ZenonT(30) DEF ServerInv, OneCommand, LoopCommand
  <2>2. \A i \in DOMAIN Tail(q) : Tail(q)[i].op \notin LoopCommand
    BY ZenonT(30), <2>1, ReceivedPackets
  <2>3. \A j \in J : j.op \notin LoopCommand
    BY ZenonT(60), <1>1, <2>1 DEF ServerInv, OneCommand, NoCommand
  <2>4. QED
    BY ZenonT(30), <2>2, <2>3 DEF NoCommand
<1>5. d = Head(q).version \/ \E k \in DOMAIN Tail(q) : BadNews(Tail(q)[k], d)
  <2>1. d = q[1].version \/ \E k \in DOMAIN q : k > 1 /\ BadNews(q[k], d)
    BY ZenonT(30), <1>1 DEF ServerInv, ReplicaIsThere
  <2>2. ASSUME NEW k \in DOMAIN q, k > 1, BadNews(q[k], d)
        PROVE  \E i \in DOMAIN Tail(q) : BadNews(Tail(q)[i], d)
    <3>1. k # 1
      BY SMTT(30), <2>2
    <3>2. k - 1 \in DOMAIN Tail(q) /\ Tail(q)[k - 1] = q[k]
      BY ZenonT(30), <1>1, <3>1
    <3>3. BadNews(Tail(q)[k - 1], d)
      BY ZenonT(30), <2>2, <3>2
    <3>4. QED
      BY ZenonT(30), <3>2, <3>3
  <2>3. QED
    BY ZenonT(60), <1>1, <2>1, <2>2
<1>6. QED
  BY ZenonT(60), <1>2, <1>3, <1>4, <1>5 DEF Truth

\* A replication was done.
LEMMA ReplicateStatusSteps ==
    ASSUME ChunkIndInv, NEW s \in Server, GotReplicateStatus(s)
    PROVE  ChunkIndInv'
<1>. DEFINE h == Head(replies[s])
            v == h.version
<1>1. /\ Receive(s, "replicate") /\ dropped' = dropped
      /\ Become(IF h.ok THEN ReplicateStatus(chunk, s, v) ELSE chunk)
  BY ZenonT(30) DEF GotReplicateStatus
<1>2. /\ ServerInv(chunk, s, jobs[s], replies[s], disk[s], TRUE)
      /\ dropped = {} =>
           /\ OperationInv(chunk)
           /\ CopyInv(chunk, s, jobs[s], replies[s], disk[s], TRUE, current)
      /\ jobs[s] \in SUBSET Job /\ replies[s] \in Seq(Packet)
      /\ 1 \in DOMAIN replies[s]
      /\ s \notin Valid(chunk) /\ s \notin Busy(chunk)
      /\ chunk.parts[s].version <= chunk.version
      /\ chunk.parts[s].state = "none" => chunk.parts[s] = NoPart
  BY ZenonT(60), <1>1, SenderFacts, PartSets DEF LoopCommand
<1>3. replies[s] # <<>> /\ h.op = "replicate" /\ v \in Nat
  BY ZenonT(60), <1>1, ReceiveFacts
<1>4. chunk \in ChunkType /\ chunk.version \in Nat /\ dropped \in SUBSET Server
  BY ZenonT(30), MasterFacts DEF Types
<1>5. dropped = {} =>
        /\ ~(chunk.operation # "none" /\ ~chunk.interrupted /\ disk[s] = chunk.version)
        /\ ~chunk.needVersionIncrease /\ disk[s] = chunk.version =>
             /\ chunk.parts[s] # NoPart
             /\ chunk.operation = "none" /\ IsWritable(chunk) => s \in Valid(chunk)
  BY ZenonT(60), <1>2 DEF CopyInv, Increase
<1>. HIDE DEF h, v
<1>6. CASE ~h.ok \/ chunk.parts[s] # NoPart
  <2>1. Become(chunk)
    BY ZenonT(30), <1>1, <1>2, <1>6, PartSets DEF ReplicateStatus
  <2>2. QED
    BY ZenonT(30), <1>1, <1>2, <1>4, <1>5, <2>1, NotedSteps
<1>7. CASE h.ok /\ chunk.parts[s] = NoPart
  <2>. DEFINE p == [state |-> IF chunk.locked \/ v # chunk.version THEN "invalid" ELSE "valid",
                    version |-> v]
              m == WithPart(chunk, s, p)
  <2>1. Become(m)
    BY ZenonT(30), <1>1, <1>7 DEF ReplicateStatus, WithPart
  <2>2. /\ p \in [state : PartState, version : Nat] /\ p.version = v
        /\ p.state \in {"invalid", "valid"}
        /\ p.state = "valid" => ~chunk.locked /\ v = chunk.version
    BY ZenonT(60), <1>3 DEF PartState
  <2>. HIDE DEF p
  <2>3. /\ m \in ChunkType /\ m.version = chunk.version /\ m.operation = chunk.operation
        /\ m.session = chunk.session /\ m.inFile = chunk.inFile /\ m.waiting = chunk.waiting
        /\ m.locked = chunk.locked /\ m.interrupted = chunk.interrupted
        /\ m.needVersionIncrease = chunk.needVersionIncrease
        /\ m.parts[s] = p /\ \A t \in Server : t # s => m.parts[t] = chunk.parts[t]
    BY SMTT(60), <1>4, <2>2, PartFields
  <2>. HIDE DEF m
  <2>4. /\ v \in Replications(jobs[s], replies[s]) /\ v <= chunk.version
        /\ NoCommand(jobs[s], Tail(replies[s]))
        /\ m.version = v => Truth(m, s, jobs[s], Tail(replies[s]), disk[s])
    BY ZenonT(30), <1>2, <1>3, <1>4, <1>7, ReplicaReport DEF h, v
  <2>5. /\ s \notin Busy(m)
        /\ s \in Valid(m) => ~chunk.locked /\ v = chunk.version
    BY ZenonT(30), <2>2, <2>3, PartSets
  <2>6. s \notin Valid(m) => Valid(m) = Valid(chunk)
    BY ZenonT(60), <1>2, <2>3 DEF Valid
  <2>7. ASSUME dropped = {}, s \in Valid(m)
        PROVE  s \in current /\ m.session = NoSession /\ m.needVersionIncrease
    <3>1. replies[s][1].op = "replicate" /\ replies[s][1].ok /\ replies[s][1].version = chunk.version
      BY ZenonT(60), <1>2, <1>3, <1>7, <2>5, <2>7, Receives DEF h, v
    <3>2. s \in current
      BY ZenonT(60), <1>2, <2>7, <3>1 DEF CopyInv, Holding
    <3>3. m.session = NoSession
      BY ZenonT(30), <1>2, <2>3, <2>5, <2>7 DEF OperationInv
    <3>4. ~(v < chunk.version)
      BY SMTT(30), <1>4, <2>5, <2>7
    <3>5. chunk.needVersionIncrease
      BY ZenonT(30), <1>2, <2>4, <2>7, <3>4 DEF CopyInv, Increase
    <3>6. QED
      BY ZenonT(30), <2>3, <3>2, <3>3, <3>5
  <2>8. m.parts[s].version <= m.version /\ m.parts[s].state # "none"
    BY ZenonT(60), <2>2, <2>3, <2>4
  <2>9. dropped = {} =>
          /\ ~m.needVersionIncrease /\ IsWritable(m) => IsWritable(chunk)
          /\ ~(m.operation # "none" /\ ~m.interrupted /\ disk[s] = m.version)
          /\ ~(~m.needVersionIncrease /\ disk[s] = m.version)
    BY ZenonT(60), <1>5, <1>7, <2>3, <2>6, <2>7 DEF IsWritable
  <2>10. QED
    BY ZenonT(30), <1>1, <1>2, <1>4, <2>1, <2>3, <2>4, <2>5, <2>7, <2>8, <2>9, NotedSteps
<1>8. QED
  BY ZenonT(30), <1>6, <1>7

\* A status is noted; without a busy copy the operation is over.
LEMMA EndSteps ==
    ASSUME ChunkIndInv, NEW s \in Server, Receive(s, "status"), dropped' = dropped,
           NEW n \in ChunkType, Become(IF Busy(n) = {} THEN OperationEnd(n) ELSE n),
           n.version = chunk.version, n.operation = chunk.operation, n.session = chunk.session,
           n.inFile = chunk.inFile, n.waiting = chunk.waiting, n.locked = chunk.locked,
           n.needVersionIncrease = chunk.needVersionIncrease,
           Busy(n) \subseteq Busy(chunk), Valid(n) \subseteq Valid(chunk),
           Knows(n, jobs, Received(replies, s), disk, conn),
           dropped = {} => /\ chunk.operation # "none"
                           /\ Holds(n, jobs, Received(replies, s), disk, conn, current)
    PROVE  ChunkIndInv'
<1>1. /\ Types /\ chunk \in ChunkType /\ chunk.version \in Nat /\ conn \in SUBSET Server
      /\ jobs \in [Server -> SUBSET Job] /\ replies \in [Server -> Seq(Packet)]
      /\ disk \in [Server -> Nat] /\ current \in SUBSET Server
      /\ ChunkInv(chunk)
      /\ dropped = {} => OperationInv(chunk)
  BY ZenonT(30), MasterFacts
<1>. DEFINE Q == Received(replies, s)
<1>2. /\ replies' = Q /\ Q \in [Server -> Seq(Packet)]
      /\ conn' = conn /\ disk' = disk /\ requests' \in Nat /\ faults' \in Nat
      /\ chunk.version # 0 /\ Valid(chunk) \subseteq conn
  BY ZenonT(60), ReceiveFacts
<1>3. dropped' \in SUBSET Server
  BY ZenonT(30), <1>1 DEF Types
<1>4. ChunkInv(n)
  BY ZenonT(60), <1>1 DEF ChunkInv
<1>5. dropped = {} => Underway(n)
  BY ZenonT(60), <1>1 DEF OperationInv, Underway
<1>. HIDE DEF Q
<1>6. Knows(n, jobs, Q, disk, conn) /\ (dropped = {} => Holds(n, jobs, Q, disk, conn, current))
  BY ZenonT(30) DEF Q
<1>7. CASE Busy(n) = {}
  <2>. DEFINE m == OperationEnd(n)
  <2>1. m = OperationEnd(n) /\ Become(m) /\ n.version # 0 /\ Valid(n) \subseteq conn
    BY ZenonT(30), <1>2, <1>7
  <2>. HIDE DEF m
  <2>2. /\ m \in ChunkType /\ m.version # 0 /\ ChunkInv(m)
        /\ After(jobs, n, m) \in [Server -> SUBSET Job]
        /\ Knows(m, After(jobs, n, m), Q, disk, conn)
        /\ Underway(n) /\ Holds(n, jobs, Q, disk, conn, current)
             => /\ OperationInv(m)
                /\ Holds(m, After(jobs, n, m), Q, disk, conn, CurrentAfter(n, m, disk, current))
    BY ZenonT(60), <1>1, <1>2, <1>4, <1>6, <1>7, <2>1, EndPhase
  <2>3. /\ chunk' = m /\ jobs' = After(jobs, chunk, m)
        /\ current' = CurrentAfter(chunk, m, disk, current) /\ current' \in SUBSET Server
    BY ZenonT(30), <1>1, <2>1, Becomes
  <2>4. After(jobs, chunk, m) = After(jobs, n, m)
    BY ZenonT(30) DEF After, Told, Given, Command
  <2>5. CurrentAfter(chunk, m, disk, current) = CurrentAfter(n, m, disk, current)
    BY ZenonT(30) DEF CurrentAfter
  <2>6. QED
    BY ZenonT(30), <1>1, <1>2, <1>3, <1>5, <1>6, <2>2, <2>3, <2>4, <2>5, MasterSteps
<1>8. CASE Busy(n) # {}
  <2>1. Become(n)
    BY ZenonT(30), <1>8
  <2>2. /\ chunk' = n /\ jobs' = jobs
        /\ current' = CurrentAfter(chunk, n, disk, current)
    BY ZenonT(30), <1>1, <2>1, Becomes
  <2>3. current' = current
    BY ZenonT(30), <2>2 DEF CurrentAfter
  <2>4. dropped = {} => OperationInv(n)
    BY ZenonT(60), <1>1, <1>8 DEF OperationInv
  <2>5. QED
    BY ZenonT(30), <1>1, <1>2, <1>3, <1>4, <1>6, <2>2, <2>3, <2>4, MasterSteps
<1>9. QED
  BY ZenonT(30), <1>7, <1>8

\* A successful status is no bad news.
LEMMA StatusTruth ==
    ASSUME NEW c, NEW m, NEW s \in Server, NEW J \in SUBSET Job,
           NEW q \in Seq(Packet), NEW d, q # <<>>, s \in Valid(c),
           ServerInv(c, s, J, q, d, TRUE), Head(q).op = "status", Head(q).ok,
           m.version = c.version
    PROVE  NoCommand(J, Tail(q)) /\ Truth(m, s, J, Tail(q), d)
<1>1. NoCommand(J, Tail(q))
  BY ZenonT(30), ReceivedPackets DEF ServerInv
<1>2. /\ 1 \in DOMAIN q /\ q[1] = Head(q)
      /\ \A i \in DOMAIN q : i # 1 => i - 1 \in DOMAIN Tail(q) /\ Tail(q)[i - 1] = q[i]
  BY ZenonT(30), Receives
<1>3. ASSUME NEW i \in DOMAIN q, BadNews(q[i], d)
      PROVE  \E k \in DOMAIN Tail(q) : BadNews(Tail(q)[k], d)
  <2>1. i # 1
    BY ZenonT(30), <1>2, <1>3 DEF BadNews
  <2>2. i - 1 \in DOMAIN Tail(q) /\ Tail(q)[i - 1] = q[i]
    BY ZenonT(30), <1>2, <2>1
  <2>3. BadNews(Tail(q)[i - 1], d)
    BY ZenonT(30), <1>3, <2>2
  <2>4. QED
    BY ZenonT(30), <2>2, <2>3
<1>4. Truth(c, s, J, q, d)
  BY ZenonT(60) DEF ServerInv
<1>5. Truth(m, s, J, Tail(q), d)
  BY ZenonT(30), <1>3, <1>4 DEF Truth
<1>6. QED
  BY ZenonT(60), <1>1, <1>5

\* A status of an operation.
LEMMA StatusSteps ==
    ASSUME ChunkIndInv, NEW s \in Server, GotOperationStatus(s)
    PROVE  ChunkIndInv'
<1>. DEFINE h == Head(replies[s])
<1>1. /\ Receive(s, "status") /\ dropped' = dropped
      /\ Become(OperationStatus(chunk, s, h.ok))
  BY ZenonT(60) DEF GotOperationStatus
<1>2. /\ ServerInv(chunk, s, jobs[s], replies[s], disk[s], TRUE)
      /\ dropped = {} =>
           /\ OperationInv(chunk)
           /\ CopyInv(chunk, s, jobs[s], replies[s], disk[s], TRUE, current)
      /\ jobs[s] \in SUBSET Job /\ replies[s] \in Seq(Packet)
      /\ 1 \in DOMAIN replies[s] /\ replies[s][1].op = "status"
      /\ chunk.parts[s].version <= chunk.version
      /\ chunk.parts[s].state = "none" => chunk.parts[s] = NoPart
      /\ chunk.operation = "none" => s \notin Busy(chunk)
  BY ZenonT(60), <1>1, SenderFacts
<1>3. replies[s] # <<>> /\ h.op = "status" /\ s \in conn
  BY ZenonT(60), <1>1, ReceiveFacts
<1>4. /\ chunk \in ChunkType /\ chunk.version \in Nat /\ jobs \in [Server -> SUBSET Job]
      /\ replies \in [Server -> Seq(Packet)] /\ disk \in [Server -> Nat]
      /\ Knows(chunk, jobs, replies, disk, conn)
      /\ dropped = {} => Holds(chunk, jobs, replies, disk, conn, current)
  BY ZenonT(30), MasterFacts
<1>5. dropped = {} =>
        /\ s \in Busy(chunk) /\ s \in Valid(chunk) /\ s \in current
        /\ chunk.operation # "none" /\ chunk.session = NoSession
  <2>1. Pending(replies[s], "status")
    BY ZenonT(60), <1>2 DEF Pending
  <2>2. QED
    BY ZenonT(30), <1>2, <2>1, PartSets DEF CopyInv, OneStatus, Holding, OperationInv
<1>6. s \in Valid(chunk) /\ h.ok =>
        /\ NoCommand(jobs[s], Tail(replies[s]))
        /\ \A m : m.version = chunk.version =>
             Truth(m, s, jobs[s], Tail(replies[s]), disk[s])
  BY ZenonT(60), <1>2, <1>3, StatusTruth
<1>. DEFINE End(n) == IF Busy(n) = {} THEN OperationEnd(n) ELSE n
<1>7. ASSUME s \in Busy(chunk), h.ok PROVE ChunkIndInv'
  <2>. DEFINE p == [chunk.parts[s] EXCEPT !.state = "valid"]
              n == WithPart(chunk, s, p)
  <2>1. Become(End(n))
    BY ZenonT(30), <1>1, <1>7, PartSets DEF OperationStatus, WithPart
  <2>2. p \in [state : PartState, version : Nat] /\ p.version = chunk.parts[s].version
        /\ p.state = "valid" /\ p # NoPart
    BY ZenonT(30), <1>4 DEF PartState, ChunkType, NoPart
  <2>. HIDE DEF p
  <2>3. /\ n \in ChunkType /\ n.version = chunk.version /\ n.operation = chunk.operation
        /\ n.session = chunk.session /\ n.inFile = chunk.inFile /\ n.waiting = chunk.waiting
        /\ n.locked = chunk.locked /\ n.interrupted = chunk.interrupted
        /\ n.needVersionIncrease = chunk.needVersionIncrease
        /\ n.parts[s] = p /\ \A t \in Server : t # s => n.parts[t] = chunk.parts[t]
    BY SMTT(60), <1>4, <2>2, PartFields
  <2>. HIDE DEF n
  <2>4. s \in Valid(n) /\ s \notin Busy(n) /\ s \in Valid(chunk)
    BY ZenonT(30), <1>7, <2>2, <2>3, PartSets
  <2>5. Busy(n) \subseteq Busy(chunk) /\ Valid(n) \subseteq Valid(chunk)
    BY ZenonT(30), <2>3, <2>4 DEF Busy, Valid
  <2>6. Knows(n, jobs, Received(replies, s), disk, conn)
    <3>1. /\ n.parts[s].version <= n.version /\ (n.parts[s].state = "none" => n.parts[s] = NoPart)
          /\ NoCommand(jobs[s], Tail(replies[s]))
          /\ Truth(n, s, jobs[s], Tail(replies[s]), disk[s])
      BY ZenonT(30), <1>2, <1>6, <1>7, <2>2, <2>3, <2>4
    <3>2. QED
      BY ZenonT(30), <1>3, <1>4, <2>3, <3>1, ReceivedKnows
  <2>7. dropped = {} => Holds(n, jobs, Received(replies, s), disk, conn, current)
    BY ZenonT(60), <1>3, <1>4, <1>5, <2>2, <2>3, <2>4, ReceivedHolds
  <2>8. QED
    BY ZenonT(30), <1>1, <1>5, <2>1, <2>3, <2>5, <2>6, <2>7, EndSteps
<1>8. ASSUME chunk.parts[s] # NoPart, ~h.ok PROVE ChunkIndInv'
  <2>. DEFINE p == [state |-> "invalid", version |-> 0]
              b == WithPart(chunk, s, p)
              n == [b EXCEPT !.interrupted = TRUE]
  <2>1. Become(End(n))
    BY ZenonT(30), <1>1, <1>8 DEF OperationStatus, WithPart, InvalidateCopy
  <2>2. p \in [state : PartState, version : Nat] /\ p.version = 0
        /\ p.state = "invalid" /\ p # NoPart
    BY ZenonT(30) DEF PartState, NoPart
  <2>. HIDE DEF p
  <2>3. /\ b \in ChunkType /\ b.version = chunk.version /\ b.operation = chunk.operation
        /\ b.session = chunk.session /\ b.inFile = chunk.inFile /\ b.waiting = chunk.waiting
        /\ b.locked = chunk.locked
        /\ b.needVersionIncrease = chunk.needVersionIncrease
        /\ b.parts[s] = p /\ \A t \in Server : t # s => b.parts[t] = chunk.parts[t]
    BY SMTT(60), <1>4, <2>2, PartFields
  <2>. HIDE DEF b
  <2>4. /\ n \in ChunkType /\ n.version = b.version /\ n.operation = b.operation
        /\ n.session = b.session /\ n.inFile = b.inFile /\ n.waiting = b.waiting
        /\ n.locked = b.locked /\ n.interrupted
        /\ n.needVersionIncrease = b.needVersionIncrease /\ n.parts = b.parts
    BY ZenonT(30), <2>3 DEF ChunkType
  <2>. HIDE DEF n
  <2>5. /\ n.version = chunk.version /\ n.operation = chunk.operation
        /\ n.session = chunk.session /\ n.inFile = chunk.inFile /\ n.waiting = chunk.waiting
        /\ n.locked = chunk.locked
        /\ n.needVersionIncrease = chunk.needVersionIncrease
        /\ n.parts[s] = p /\ \A t \in Server : t # s => n.parts[t] = chunk.parts[t]
    BY ZenonT(60), <2>3, <2>4
  <2>6. s \notin Valid(n) /\ s \notin Busy(n)
    BY ZenonT(60), <2>2, <2>5, PartSets
  <2>7. Busy(n) \subseteq Busy(chunk) /\ Valid(n) \subseteq Valid(chunk)
    BY ZenonT(60), <2>5, <2>6 DEF Busy, Valid
  <2>8. Knows(n, jobs, Received(replies, s), disk, conn)
    <3>1. n.parts[s].version <= n.version /\ (n.parts[s].state = "none" => n.parts[s] = NoPart)
      BY SMTT(60), <1>4, <2>2, <2>5
    <3>2. QED
      BY ZenonT(30), <1>3, <1>4, <2>4, <2>5, <2>6, <3>1, ReceivedKnows
  <2>9. dropped = {} => Holds(n, jobs, Received(replies, s), disk, conn, current)
    BY ZenonT(30), <1>3, <1>4, <1>5, <2>2, <2>4, <2>5, <2>6, ReceivedHolds
  <2>10. QED
    BY ZenonT(30), <1>1, <1>5, <2>1, <2>4, <2>5, <2>7, <2>8, <2>9, EndSteps
<1>9. ASSUME s \notin Busy(chunk), h.ok \/ chunk.parts[s] = NoPart PROVE ChunkIndInv'
  <2>1. Become(End(chunk))
    BY ZenonT(30), <1>1, <1>9 DEF OperationStatus
  <2>2. s \in Valid(chunk) => h.ok
    BY ZenonT(30), <1>9, PartSets
  <2>3. Knows(chunk, jobs, Received(replies, s), disk, conn)
    BY ZenonT(30), <1>2, <1>3, <1>4, <1>6, <2>2, ReceivedKnows
  <2>4. dropped # {}
    BY ZenonT(30), <1>5, <1>9
  <2>5. QED
    BY ZenonT(30), <1>1, <1>4, <2>1, <2>3, <2>4, EndSteps
<1>10. chunk.parts[s] = NoPart => s \notin Busy(chunk)
  BY ZenonT(30), PartSets
<1>11. QED
  BY ZenonT(30), <1>7, <1>8, <1>9, <1>10

\* A chunkserver of which the master has no part is back.
LEMMA BackPhase ==
    ASSUME NEW c \in ChunkType, NEW m \in ChunkType, NEW s \in Server,
           NEW J, NEW Q, NEW D \in [Server -> Nat], NEW U, s \notin U, NEW cur,
           Knows(c, J, Q, D, U), c.parts[s] = NoPart,
           m.version = c.version, m.operation = c.operation, m.session = c.session,
           m.inFile = c.inFile, m.needVersionIncrease = c.needVersionIncrease,
           m.interrupted = c.interrupted,
           \A t \in Server : t # s => m.parts[t] = c.parts[t],
           IF D[s] = 0 THEN m.parts[s] = NoPart
           ELSE m.parts[s] = [state |-> IF D[s] = m.version THEN "valid" ELSE "invalid",
                              version |-> D[s]],
           c.version # 0 \/ (c.operation = "none" /\ c.needVersionIncrease)
    PROVE  /\ Knows(m, J, Q, D, U \cup {s})
           /\ Holds(c, J, Q, D, U, cur) => Holds(m, J, Q, D, U \cup {s}, cur)
<1>0. D[s] \in Nat
  BY ZenonT(60)
<1>. DEFINE V == U \cup {s}
<1>1. s \in V /\ \A t : t # s => (t \in V <=> t \in U)
  BY ZenonT(60)
<1>. HIDE DEF V
<1>2. /\ ServerInv(m, s, J[s], Q[s], D[s], s \in V)
      /\ CopyInv(c, s, J[s], Q[s], D[s], s \in U, cur) => CopyInv(m, s, J[s], Q[s], D[s], s \in V, cur)
  <2>1. ServerInv(c, s, J[s], Q[s], D[s], FALSE)
    BY ZenonT(60), UpOrDown DEF Knows
  <2>2. /\ ServerInv(m, s, J[s], Q[s], D[s], TRUE)
        /\ CopyInv(c, s, J[s], Q[s], D[s], FALSE, cur) => CopyInv(m, s, J[s], Q[s], D[s], TRUE, cur)
    BY ZenonT(60), <1>0, <2>1, BackCopy
  <2>3. QED
    BY ZenonT(60), <1>1, <2>2, UpOrDown
<1>3. ASSUME NEW t \in Server, t # s
      PROVE  ServerInv(m, t, J[t], Q[t], D[t], t \in V)
  <2>1. ServerInv(c, t, J[t], Q[t], D[t], t \in V)
    BY ZenonT(60), <1>1, <1>3, UpOrDown DEF Knows
  <2>2. m.parts[t] = c.parts[t]
    BY ZenonT(60), <1>3
  <2>3. QED
    BY ZenonT(60), <2>1, <2>2, SamePart
<1>4. ASSUME Holds(c, J, Q, D, U, cur), NEW t \in Server, t # s
      PROVE  CopyInv(m, t, J[t], Q[t], D[t], t \in V, cur)
  <2>1. CopyInv(c, t, J[t], Q[t], D[t], t \in V, cur)
    BY ZenonT(60), <1>1, <1>4, UpOrDown DEF Holds
  <2>2. m.parts[t] = c.parts[t] /\ m.session \in {c.session, NoSession}
    BY ZenonT(60), <1>4
  <2>3. ~m.needVersionIncrease /\ m.operation = "none" /\ IsWritable(m) => IsWritable(c)
    <3>1. ASSUME ~c.needVersionIncrease PROVE s \notin Valid(m)
      <4>1. CopyInv(c, s, J[s], Q[s], D[s], s \in U, cur)
        BY ZenonT(60), <1>4 DEF Holds
      <4>2. D[s] # c.version
        BY ZenonT(60), <3>1, <4>1 DEF CopyInv, Increase
      <4>3. m.parts[s].state \in {"none", "invalid"}
        BY SMTT(60), <4>2 DEF NoPart
      <4>4. QED
        BY ZenonT(60), <4>3, PartSets
    <3>2. ASSUME s \notin Valid(m), NEW u \in Valid(m) PROVE u \in Valid(c)
      BY ZenonT(60), <3>2 DEF Valid
    <3>3. QED
      BY ZenonT(60), <3>1, <3>2 DEF IsWritable
  <2>4. QED
    BY ZenonT(60), <2>1, <2>2, <2>3, SameCopy
<1>5. QED
  BY ZenonT(60), <1>2, <1>3, <1>4 DEF Knows, Holds, V

\* A chunkserver connects, after its parts were forgotten.
LEMMA ConnectSteps ==
    ASSUME ~ZombieRace, ChunkIndInv, NEW s \in Server, Connect(s)
    PROVE  ChunkIndInv'
\* A truncation that failed, and the copies without it.
<1>TruncatedPhase.
    ASSUME NEW m, NEW J, NEW Q, NEW D, NEW U, NEW cur, NEW cur2,
           Holds(m, J, Q, D, U, cur),
           \A t \in cur : D[t] \in {0, m.version} => t \in cur2,
           \A t \in Valid(m) : D[t] \in {0, m.version},
           \A t \in Server : m.version \notin Replications(J[t], Q[t])
    PROVE  Holds(m, J, Q, D, U, cur2)
  <2> USE <1>TruncatedPhase
  <2>1. ASSUME NEW t \in Server
        PROVE  CopyInv(m, t, J[t], Q[t], D[t], t \in U, cur2)
    <3>1. /\ CopyInv(m, t, J[t], Q[t], D[t], t \in U, cur)
          /\ m.version \notin Replications(J[t], Q[t])
          /\ t \in cur /\ D[t] \in {0, m.version} => t \in cur2
          /\ t \in U /\ t \in Valid(m) => D[t] \in {0, m.version}
      BY ZenonT(30) DEF Holds
    <3>2. QED
      BY ZenonT(60), <3>1, TruncatedCopy
  <2>2. QED
    BY ZenonT(60), <2>1 DEF Holds
<1>1. /\ Types /\ chunk \in ChunkType /\ chunk.version \in Nat /\ conn \in SUBSET Server
      /\ jobs \in [Server -> SUBSET Job] /\ replies \in [Server -> Seq(Packet)]
      /\ disk \in [Server -> Nat] /\ current \in SUBSET Server
      /\ ChunkInv(chunk) /\ Fresh(chunk, jobs, replies, current)
      /\ Knows(chunk, jobs, replies, disk, conn)
      /\ dropped = {} => OperationInv(chunk) /\ Holds(chunk, jobs, replies, disk, conn, current)
  BY ZenonT(30), MasterFacts
<1>2. /\ s \notin conn /\ chunk.parts[s] = NoPart /\ conn' = conn \cup {s}
      /\ conn' \in SUBSET Server
      /\ replies' = replies /\ disk' = disk /\ dropped' = dropped
      /\ requests' \in Nat /\ faults' \in Nat /\ dropped' \in SUBSET Server
  BY ZenonT(30), <1>1 DEF Connect, Types
<1>3. CASE disk[s] = 0
  <2>1. Become(chunk)
    BY ZenonT(60), <1>3 DEF Connect
  <2>2. /\ chunk' = chunk /\ jobs' = jobs
        /\ current' = CurrentAfter(chunk, chunk, disk, current)
    BY ZenonT(30), <1>1, <2>1, Becomes
  <2>3. current' = current
    BY ZenonT(30), <2>2 DEF CurrentAfter
  <2>4. chunk.version # 0 \/ (chunk.operation = "none" /\ chunk.needVersionIncrease)
    BY ZenonT(30), <1>1 DEF Fresh
  <2>5. IF disk[s] = 0 THEN chunk.parts[s] = NoPart
        ELSE chunk.parts[s] = [state |-> IF disk[s] = chunk.version THEN "valid" ELSE "invalid",
                               version |-> disk[s]]
    BY ZenonT(30), <1>2, <1>3
  <2>6. /\ Knows(chunk, jobs, replies, disk, conn')
        /\ Holds(chunk, jobs, replies, disk, conn, current)
             => Holds(chunk, jobs, replies, disk, conn', current)
    BY ZenonT(30), <1>1, <1>2, <2>4, <2>5, BackPhase
  <2>7. QED
    BY ZenonT(30), <1>1, <1>2, <2>2, <2>3, <2>6, MasterSteps
<1>4. CASE disk[s] # 0
  <2>. DEFINE n == HandleDisconnectedCopies(chunk, conn)
              p == [state |-> IF disk[s] = n.version THEN "valid" ELSE "invalid",
                    version |-> disk[s]]
              m == WithPart(n, s, p)
              K == After(jobs, chunk, n)
  <2>1. n = HandleDisconnectedCopies(chunk, conn') /\ n = HandleDisconnectedCopies(chunk, conn)
    <3>1. /\ [t \in Server |-> IF t \in conn THEN chunk.parts[t] ELSE NoPart]
               = [t \in Server |-> IF t \in conn' THEN chunk.parts[t] ELSE NoPart]
          /\ Disconnected(chunk, conn) = Disconnected(chunk, conn')
      BY ZenonT(30), <1>2 DEF Disconnected
    <3>2. QED
      BY ZenonT(30), <3>1 DEF HandleDisconnectedCopies
  <2>2. Become(ServerHasChunk(HandleDisconnectedCopies(chunk, conn'), s, disk[s]))
    BY ZenonT(30), <1>4 DEF Connect
  <2>. HIDE DEF n
  <2>3. chunk.version # 0
    BY ZenonT(60), <1>4, ServerFacts
  <2>4. /\ n \in ChunkType /\ n.version # 0 /\ ChunkInv(n)
        /\ K \in [Server -> SUBSET Job]
        /\ Knows(n, K, replies, disk, conn)
        /\ \A t \in Server : chunk.parts[t] = NoPart => n.parts[t] = NoPart
        /\ chunk.waiting = "truncate" /\ n.waiting = "none"
             => n.version = chunk.version /\ ~IsWritable(n)
        /\ OperationInv(chunk) /\ Holds(chunk, jobs, replies, disk, conn, current)
             => OperationInv(n) /\ Holds(n, K, replies, disk, conn, current)
    BY ZenonT(60), <1>1, <2>1, <2>3, DisconnectedPhase
  <2>5. n.parts[s] = NoPart
    BY ZenonT(60), <1>2, <2>4
  <2>6. p \in [state : PartState, version : Nat] /\ p.state \in {"valid", "invalid"}
        /\ (p.state = "valid" => disk[s] = n.version)
    BY ZenonT(30), <1>1 DEF PartState
  <2>7. Become(m)
    <3>1. ServerHasChunk(n, s, disk[s]) = WithPart(n, s, p)
      BY ZenonT(30), <2>5, PartSets DEF ServerHasChunk, WithPart, NoPart
    <3>2. QED
      BY ZenonT(30), <2>1, <2>2, <3>1
  <2>8. /\ m \in ChunkType /\ m.version = n.version /\ m.operation = n.operation
        /\ m.session = n.session /\ m.inFile = n.inFile /\ m.waiting = n.waiting
        /\ m.locked = n.locked /\ m.interrupted = n.interrupted
        /\ m.needVersionIncrease = n.needVersionIncrease
        /\ m.parts[s] = p /\ \A t \in Server : t # s => m.parts[t] = n.parts[t]
    <3>. HIDE DEF p
    <3>1. QED
      BY SMTT(60), <2>4, <2>6, PartFields
  <2>. HIDE DEF m, K
  <2>9. Busy(m) = Busy(n) /\ (\A t \in Valid(m) : t \in Valid(n) \/ (t = s /\ disk[s] = n.version))
    <3>. HIDE DEF p
    <3>1. QED
      BY SMTT(60), <2>5, <2>6, <2>8 DEF Busy, Valid, NoPart
  <2>10. K = After(jobs, chunk, m)
    BY ZenonT(60), <2>8, <2>9 DEF K, After, Told, Given, Command
  <2>11. /\ chunk' = m /\ jobs' = K
         /\ current' = CurrentAfter(chunk, m, disk, current) /\ current' \in SUBSET Server
    BY ZenonT(30), <1>1, <2>7, <2>10, Becomes
  <2>12. /\ Knows(m, K, replies, disk, conn')
         /\ Holds(n, K, replies, disk, conn, current)
              => Holds(m, K, replies, disk, conn', current)
    <3>1. IF disk[s] = 0 THEN m.parts[s] = NoPart
          ELSE m.parts[s] = [state |-> IF disk[s] = m.version THEN "valid" ELSE "invalid",
                             version |-> disk[s]]
      BY ZenonT(60), <1>4, <2>8
    <3>. HIDE DEF p
    <3>2. QED
      BY ZenonT(30), <1>1, <1>2, <2>4, <2>5, <2>8, <3>1, BackPhase
  <2>. HIDE DEF p
  <2>13. ChunkInv(m) /\ (OperationInv(n) => OperationInv(m))
    BY ZenonT(30), <2>4, <2>8, <2>9 DEF ChunkInv, OperationInv
  <2>14. ASSUME dropped = {}
         PROVE  OperationInv(m) /\ Holds(m, K, replies, disk, conn', current')
    <3>1. OperationInv(m) /\ Holds(m, K, replies, disk, conn', current)
      BY ZenonT(30), <1>1, <2>4, <2>12, <2>13, <2>14
    <3>2. CASE chunk.waiting = "truncate" /\ m.waiting = "none" /\ IsWritable(m)
      <4>1. n.version = chunk.version /\ ~IsWritable(n) /\ m.version = chunk.version
        BY ZenonT(30), <2>4, <2>8, <3>2
      <4>2. \A t \in current : disk[t] \in {0, m.version} => t \in current'
        BY ZenonT(30), <2>11, <3>2 DEF CurrentAfter
      <4>3. \A t \in Valid(m) : disk[t] \in {0, m.version}
        BY ZenonT(30), <2>8, <2>9, <4>1 DEF IsWritable
      <4>4. K = jobs
        BY ZenonT(30), <4>1 DEF K, After
      <4>5. ASSUME NEW t \in Server PROVE m.version \notin Replications(K[t], replies[t])
        <5>1. chunk.operation # "none"
          BY ZenonT(60), <1>1, <2>14, <3>2 DEF OperationInv
        <5>2. CopyInv(chunk, t, jobs[t], replies[t], disk[t], t \in conn, current)
          BY ZenonT(30), <1>1, <2>14 DEF Holds
        <5>3. \A v \in Replications(jobs[t], replies[t]) : v < chunk.version
          BY ZenonT(60), <5>1, <5>2 DEF CopyInv, Increase
        <5>4. ~(chunk.version < chunk.version)
          BY SMTT(30), <1>1
        <5>5. QED
          BY ZenonT(30), <4>1, <4>4, <5>3, <5>4
      <4>6. QED
        BY ZenonT(60), <3>1, <4>2, <4>3, <4>5, <1>TruncatedPhase
    <3>3. CASE ~(chunk.waiting = "truncate" /\ m.waiting = "none" /\ IsWritable(m))
      BY ZenonT(30), <2>11, <3>1, <3>3 DEF CurrentAfter
    <3>4. QED
      BY ZenonT(30), <3>1, <3>2, <3>3
  <2>15. m.version # 0
    BY ZenonT(30), <2>4, <2>8
  <2>16. QED
    BY ZenonT(30), <1>1, <1>2, <2>4, <2>8, <2>11, <2>12, <2>13, <2>14, <2>15, MasterSteps
<1>5. QED
  BY ZenonT(30), <1>3, <1>4

\* A chunkserver with nothing outstanding has no command of the loop.
LEMMA SettledServer ==
    ASSUME NEW s \in Server, Settled(s)
    PROVE  NoCommand(jobs[s], replies[s])
BY ZenonT(30) DEF Settled, Outstanding, Pending, NoCommand, LoopCommand

\* Copies are marked as deleted.
LEMMA DeleteFields ==
    ASSUME NEW c \in ChunkType, NEW S, NEW m, m = DeleteCopies(c, S)
    PROVE  /\ m \in ChunkType /\ m.version = c.version /\ m.operation = c.operation
           /\ m.session = c.session /\ m.inFile = c.inFile /\ m.waiting = c.waiting
           /\ m.locked = c.locked /\ m.interrupted = c.interrupted
           /\ m.needVersionIncrease = c.needVersionIncrease
           /\ \A s \in Server :
                m.parts[s] = IF s \in S THEN [c.parts[s] EXCEPT !.state = "del"] ELSE c.parts[s]
           /\ Valid(m) = Valid(c) \ S /\ Busy(m) = Busy(c) \ S
<1>. DEFINE P == [s \in Server |->
                    IF s \in S THEN [c.parts[s] EXCEPT !.state = "del"] ELSE c.parts[s]]
<1>1. P \in [Server -> [state : PartState, version : Nat]]
  BY DEF ChunkType, PartState
<1>2. m = [c EXCEPT !.parts = P]
  BY ZenonT(30) DEF DeleteCopies
<1>3. \A s \in Server :
        P[s] = IF s \in S THEN [c.parts[s] EXCEPT !.state = "del"] ELSE c.parts[s]
  BY ZenonT(30)
<1>. HIDE DEF P
<1>4. /\ m \in ChunkType /\ m.version = c.version /\ m.operation = c.operation
      /\ m.session = c.session /\ m.inFile = c.inFile /\ m.waiting = c.waiting
      /\ m.locked = c.locked /\ m.interrupted = c.interrupted
      /\ m.needVersionIncrease = c.needVersionIncrease /\ m.parts = P
  BY ZenonT(30), <1>1, <1>2 DEF ChunkType
<1>5. \A s \in Server :
        m.parts[s].state = IF s \in S THEN "del" ELSE c.parts[s].state
  <2>1. \A s \in Server : c.parts[s] \in [state : PartState, version : Nat]
    BY ZenonT(30) DEF ChunkType
  <2>2. QED
    BY ZenonT(30), <1>3, <1>4, <2>1
<1>6. Valid(m) = Valid(c) \ S /\ Busy(m) = Busy(c) \ S
  BY ZenonT(30), <1>5 DEF Valid, Busy
<1>7. QED
  BY ZenonT(30), <1>3, <1>4, <1>6

\* A round of the loop.
LEMMA LoopSteps ==
    ASSUME ChunkIndInv, NEW m \in ChunkType, NEW S \in SUBSET Server, NEW job,
           DoChunkJobs(m, S, job), chunk.version # 0,
           m.version = chunk.version, m.operation = chunk.operation, m.session = chunk.session,
           m.inFile = chunk.inFile, m.waiting = chunk.waiting, m.locked = chunk.locked,
           m.interrupted = chunk.interrupted, ~m.needVersionIncrease => ~chunk.needVersionIncrease,
           Valid(m) \subseteq Valid(chunk), Busy(m) = Busy(chunk), S \subseteq conn,
           \A s \in Deletable(chunk) :
              s \notin S /\ m.parts[s] = [chunk.parts[s] EXCEPT !.state = "del"],
           \A s \in Server : s \notin Deletable(chunk) /\ s \notin S => m.parts[s] = chunk.parts[s],
           \A s \in S :
              /\ jobs[s] \cup {job} \in SUBSET Job
              /\ ServerInv(m, s, jobs[s] \cup {job}, replies[s], disk[s], TRUE)
              /\ dropped = {} => CopyInv(m, s, jobs[s] \cup {job}, replies[s], disk[s], TRUE, current)
    PROVE  ChunkIndInv'
<1>1. /\ Types /\ chunk \in ChunkType /\ chunk.version \in Nat /\ conn \in SUBSET Server
      /\ jobs \in [Server -> SUBSET Job] /\ replies \in [Server -> Seq(Packet)]
      /\ disk \in [Server -> Nat] /\ current \in SUBSET Server
      /\ ChunkInv(chunk)
      /\ Knows(chunk, jobs, replies, disk, conn)
      /\ dropped = {} => OperationInv(chunk) /\ Holds(chunk, jobs, replies, disk, conn, current)
  BY ZenonT(30), MasterFacts
<1>2. /\ Found /\ chunk' = m /\ conn' = conn /\ replies' = replies /\ disk' = disk
      /\ current' = current /\ dropped' = dropped /\ dropped' \in SUBSET Server
      /\ requests' \in Nat /\ faults' \in Nat
      /\ jobs' = [s \in Server |->
                    CASE s \in S -> jobs[s] \cup {job}
                      [] s \in Deletable(chunk) -> jobs[s] \cup {[op |-> "delete", from |-> 0]}
                      [] OTHER -> jobs[s]]
  BY ZenonT(30), <1>1 DEF DoChunkJobs, Types
<1>3. ChunkInv(m) /\ (OperationInv(chunk) => OperationInv(m))
  BY ZenonT(30), <1>1 DEF ChunkInv, OperationInv
<1>4. IsWritable(m) => IsWritable(chunk)
  BY ZenonT(30) DEF IsWritable
<1>5. ASSUME NEW s \in Server
      PROVE  /\ jobs'[s] \in SUBSET Job
             /\ ServerInv(m, s, jobs'[s], replies[s], disk[s], s \in conn)
             /\ dropped = {} => CopyInv(m, s, jobs'[s], replies[s], disk[s], s \in conn, current)
  <2>1. /\ jobs[s] \in SUBSET Job /\ replies[s] \in Seq(Packet) /\ disk[s] \in Nat
        /\ ServerInv(chunk, s, jobs[s], replies[s], disk[s], s \in conn)
        /\ dropped = {} => CopyInv(chunk, s, jobs[s], replies[s], disk[s], s \in conn, current)
    BY ZenonT(30), <1>1 DEF Knows, Holds
  <2>2. CASE s \in S
    <3>1. s \notin Deletable(chunk) /\ s \in conn
      BY ZenonT(30), <2>2
    <3>2. jobs'[s] = jobs[s] \cup {job}
      BY ZenonT(30), <1>2, <2>2, <3>1
    <3>3. QED
      BY ZenonT(30), <2>2, <3>1, <3>2, UpOrDown
  <2>3. CASE s \in Deletable(chunk)
    <3>1. s \notin S /\ s \in Invalid(chunk) /\ Settled(s)
          /\ m.parts[s] = [chunk.parts[s] EXCEPT !.state = "del"]
      BY ZenonT(30), <2>3 DEF Deletable
    <3>2. jobs'[s] = jobs[s] \cup {[op |-> "delete", from |-> 0]}
      BY ZenonT(30), <1>2, <2>3, <3>1
    <3>3. s \in conn /\ s \notin Valid(chunk) /\ s \notin Busy(chunk)
      BY ZenonT(30), <1>2, <3>1, FoundParts, PartSets
    <3>4. NoCommand(jobs[s], replies[s])
      BY ZenonT(30), <3>1, SettledServer
    <3>5. /\ ServerInv(chunk, s, jobs[s], replies[s], disk[s], TRUE)
          /\ dropped = {} => CopyInv(chunk, s, jobs[s], replies[s], disk[s], TRUE, current)
      BY ZenonT(30), <2>1, <3>3, UpOrDown
    <3>6. /\ jobs[s] \cup {[op |-> "delete", from |-> 0]} \in SUBSET Job
          /\ ServerInv(m, s, jobs[s] \cup {[op |-> "delete", from |-> 0]}, replies[s], disk[s], TRUE)
          /\ CopyInv(chunk, s, jobs[s], replies[s], disk[s], TRUE, current)
               => CopyInv(m, s, jobs[s] \cup {[op |-> "delete", from |-> 0]}, replies[s], disk[s],
                          TRUE, current)
      BY ZenonT(30), <1>1, <1>4, <2>1, <3>1, <3>3, <3>4, <3>5, DeletesCopy
    <3>7. QED
      BY ZenonT(30), <3>2, <3>3, <3>5, <3>6, UpOrDown
  <2>4. CASE s \notin S /\ s \notin Deletable(chunk)
    <3>1. jobs'[s] = jobs[s] /\ m.parts[s] = chunk.parts[s]
      BY ZenonT(30), <1>2, <2>4
    <3>2. ServerInv(m, s, jobs[s], replies[s], disk[s], s \in conn)
      BY ZenonT(30), <2>1, <3>1, SamePart
    <3>3. m.session \in {chunk.session, NoSession}
      BY ZenonT(30)
    <3>4. dropped = {} => CopyInv(m, s, jobs[s], replies[s], disk[s], s \in conn, current)
      BY ZenonT(30), <1>4, <2>1, <3>1, <3>3, SameCopy
    <3>5. QED
      BY ZenonT(30), <2>1, <3>1, <3>2, <3>4
  <2>5. QED
    BY ZenonT(30), <2>2, <2>3, <2>4
<1>6. jobs' \in [Server -> SUBSET Job]
  BY ZenonT(30), <1>2, <1>5
<1>7. Knows(m, jobs', replies, disk, conn)
      /\ (dropped = {} => Holds(m, jobs', replies, disk, conn, current))
  BY ZenonT(30), <1>5 DEF Knows, Holds
<1>8. QED
  BY ZenonT(30), <1>1, <1>2, <1>3, <1>6, <1>7, MasterSteps

\* What the steps of a round see after its first ones.
LEMMA RoundFields ==
    ASSUME NEW c \in ChunkType, NEW b, b = DeleteInvalidChunkParts(c)
    PROVE  /\ b \in ChunkType /\ b.version = c.version /\ b.operation = c.operation
           /\ b.session = c.session /\ b.inFile = c.inFile /\ b.waiting = c.waiting
           /\ b.locked = c.locked /\ b.interrupted = c.interrupted
           /\ b.needVersionIncrease = c.needVersionIncrease
           /\ \A s \in Server :
                b.parts[s] = IF s \in Deletable(c) THEN [c.parts[s] EXCEPT !.state = "del"]
                             ELSE c.parts[s]
           /\ Valid(b) = Valid(c) /\ Busy(b) = Busy(c)
           /\ \A s \in Deletable(c) : s \in Server /\ s \notin Valid(c) /\ c.parts[s] # NoPart
<1>1. b = DeleteCopies(c, Deletable(c))
  BY ZenonT(30) DEF DeleteInvalidChunkParts
<1>2. /\ b \in ChunkType /\ b.version = c.version /\ b.operation = c.operation
      /\ b.session = c.session /\ b.inFile = c.inFile /\ b.waiting = c.waiting
      /\ b.locked = c.locked /\ b.interrupted = c.interrupted
      /\ b.needVersionIncrease = c.needVersionIncrease
      /\ \A s \in Server :
           b.parts[s] = IF s \in Deletable(c) THEN [c.parts[s] EXCEPT !.state = "del"]
                        ELSE c.parts[s]
      /\ Valid(b) = Valid(c) \ Deletable(c) /\ Busy(b) = Busy(c) \ Deletable(c)
  BY ZenonT(30), <1>1, DeleteFields
<1>3. \A s \in Deletable(c) : s \in Server /\ s \notin Valid(c) /\ s \notin Busy(c)
                              /\ c.parts[s] # NoPart
  BY SMTT(30) DEF Deletable, Invalid, Valid, Busy, NoPart
<1>4. QED
  BY ZenonT(30), <1>2, <1>3

\* A round that deletes invalid parts.
LEMMA InvalidSteps ==
    ASSUME ChunkIndInv, DeleteInvalid
    PROVE  ChunkIndInv'
<1>. DEFINE m == DeleteInvalidChunkParts(chunk)
<1>1. Deletable(chunk) # {} /\ DoChunkJobs(m, {}, {})
  BY ZenonT(30) DEF DeleteInvalid
<1>2. chunk \in ChunkType /\ Fresh(chunk, jobs, replies, current)
  BY ZenonT(30), MasterFacts
<1>3. /\ m \in ChunkType /\ m.version = chunk.version /\ m.operation = chunk.operation
      /\ m.session = chunk.session /\ m.inFile = chunk.inFile /\ m.waiting = chunk.waiting
      /\ m.locked = chunk.locked /\ m.interrupted = chunk.interrupted
      /\ m.needVersionIncrease = chunk.needVersionIncrease
      /\ \A s \in Server :
           m.parts[s] = IF s \in Deletable(chunk) THEN [chunk.parts[s] EXCEPT !.state = "del"]
                        ELSE chunk.parts[s]
      /\ Valid(m) = Valid(chunk) /\ Busy(m) = Busy(chunk)
      /\ \A s \in Deletable(chunk) :
           s \in Server /\ s \notin Valid(chunk) /\ chunk.parts[s] # NoPart
  BY ZenonT(30), <1>2, RoundFields
<1>. HIDE DEF m
<1>4. chunk.version # 0
  BY ZenonT(30), <1>1, <1>2, <1>3 DEF Fresh
<1>. DEFINE S == {}
            job == {}
<1>5. S \in SUBSET Server /\ S \subseteq conn /\ (\A s : s \notin S) /\ DoChunkJobs(m, S, job)
  BY ZenonT(30), <1>1
<1>. HIDE DEF S, job
<1>6. \A s \in Deletable(chunk) :
        s \notin S /\ m.parts[s] = [chunk.parts[s] EXCEPT !.state = "del"]
  BY ZenonT(30), <1>3, <1>5
<1>7. \A s \in Server : s \notin Deletable(chunk) /\ s \notin S => m.parts[s] = chunk.parts[s]
  BY ZenonT(30), <1>3
<1>8. \A s \in S :
        /\ jobs[s] \cup {job} \in SUBSET Job
        /\ ServerInv(m, s, jobs[s] \cup {job}, replies[s], disk[s], TRUE)
        /\ dropped = {} => CopyInv(m, s, jobs[s] \cup {job}, replies[s], disk[s], TRUE, current)
  BY ZenonT(30), <1>5
<1>9. QED
  BY ZenonT(30), <1>3, <1>4, <1>5, <1>6, <1>7, <1>8, LoopSteps

\* A round that deletes all copies, or one too many.
LEMMA RemoveSteps ==
    ASSUME ChunkIndInv, DeleteAllChunkParts \/ \E s \in Server : RemoveUnneededChunkPart(s)
    PROVE  ChunkIndInv'
\* A round that deletes copies, with their version when the chunk is in no file.
<1>DeletesSteps.
    ASSUME ChunkIndInv, NEW S \in SUBSET Server, S # {}, NEW f \in Nat,
           NEW b, b = DeleteInvalidChunkParts(chunk), Idle(b), f # 0 => ~b.inFile,
           S \subseteq Valid(b), \A s \in S : Settled(s),
           NEW m, m = [DeleteCopies(b, S) EXCEPT !.needVersionIncrease = TRUE],
           DoChunkJobs(m, S, [op |-> "delete", from |-> f])
    PROVE  ChunkIndInv'
  <2> USE <1>DeletesSteps
  <2>1. /\ chunk \in ChunkType /\ Fresh(chunk, jobs, replies, current) /\ ChunkInv(chunk)
    BY ZenonT(30), MasterFacts
  <2>2. /\ b \in ChunkType /\ b.version = chunk.version /\ b.operation = chunk.operation
        /\ b.session = chunk.session /\ b.inFile = chunk.inFile /\ b.waiting = chunk.waiting
        /\ b.locked = chunk.locked /\ b.interrupted = chunk.interrupted
        /\ \A s \in Server :
             b.parts[s] = IF s \in Deletable(chunk) THEN [chunk.parts[s] EXCEPT !.state = "del"]
                          ELSE chunk.parts[s]
        /\ Valid(b) = Valid(chunk) /\ Busy(b) = Busy(chunk)
        /\ \A s \in Deletable(chunk) :
             s \in Server /\ s \notin Valid(chunk) /\ chunk.parts[s] # NoPart
    BY <2>1, RoundFields
  <2>. DEFINE a == DeleteCopies(b, S)
  <2>3. /\ a \in ChunkType /\ a.version = b.version /\ a.operation = b.operation
        /\ a.session = b.session /\ a.inFile = b.inFile /\ a.waiting = b.waiting
        /\ a.locked = b.locked /\ a.interrupted = b.interrupted
        /\ \A s \in Server :
             a.parts[s] = IF s \in S THEN [b.parts[s] EXCEPT !.state = "del"] ELSE b.parts[s]
        /\ Valid(a) = Valid(b) \ S /\ Busy(a) = Busy(b) \ S
    BY SMTT(30), <2>2, DeleteFields
  <2>4. m = [a EXCEPT !.needVersionIncrease = TRUE]
    BY ZenonT(30)
  <2>. HIDE DEF a
  <2>5. /\ m \in ChunkType /\ m.version = chunk.version /\ m.operation = chunk.operation
        /\ m.session = chunk.session /\ m.inFile = chunk.inFile /\ m.waiting = chunk.waiting
        /\ m.locked = chunk.locked /\ m.interrupted = chunk.interrupted
        /\ m.needVersionIncrease /\ m.parts = a.parts
    BY ZenonT(30), <2>2, <2>3, <2>4 DEF ChunkType
  <2>6. Valid(m) \subseteq Valid(chunk) /\ Busy(m) = Busy(chunk) /\ Busy(chunk) = {}
        /\ chunk.operation = "none"
    <3>1. Busy(chunk) = {} /\ chunk.operation = "none"
      BY ZenonT(30), <2>2 DEF Idle
    <3>2. Valid(m) = Valid(a) /\ Busy(m) = Busy(a)
      BY ZenonT(30), <2>5 DEF Valid, Busy
    <3>3. QED
      BY ZenonT(30), <2>2, <2>3, <3>1, <3>2
  <2>7. S \subseteq conn
    <3>1. Found
      BY ZenonT(30) DEF DoChunkJobs
    <3>2. QED
      BY ZenonT(30), <2>2, <3>1, FoundParts
  <2>8. chunk.version # 0
    BY SMTT(30), <2>1, <2>2 DEF Fresh, Valid, NoPart
  <2>9. \A s \in Deletable(chunk) :
          s \notin S /\ m.parts[s] = [chunk.parts[s] EXCEPT !.state = "del"]
    BY SMTT(30), <2>2, <2>3, <2>5
  <2>10. ASSUME NEW s \in Server, s \notin Deletable(chunk), s \notin S
         PROVE  m.parts[s] = chunk.parts[s]
    <3>1. a.parts[s] = b.parts[s] /\ b.parts[s] = chunk.parts[s]
      BY ZenonT(30), <2>2, <2>3, <2>10
    <3>2. QED
      BY ZenonT(30), <2>5, <3>1
  <2>11. ASSUME NEW s \in S
         PROVE  /\ jobs[s] \cup {[op |-> "delete", from |-> f]} \in SUBSET Job
                /\ ServerInv(m, s, jobs[s] \cup {[op |-> "delete", from |-> f]}, replies[s], disk[s],
                             TRUE)
                /\ dropped = {} =>
                     CopyInv(m, s, jobs[s] \cup {[op |-> "delete", from |-> f]}, replies[s], disk[s],
                             TRUE, current)
    <3>1. /\ jobs[s] \in SUBSET Job /\ replies[s] \in Seq(Packet) /\ disk[s] \in Nat
          /\ ServerInv(chunk, s, jobs[s], replies[s], disk[s], TRUE)
          /\ dropped = {} => CopyInv(chunk, s, jobs[s], replies[s], disk[s], TRUE, current)
      BY ZenonT(30), <2>7, ServerFacts
    <3>2. NoCommand(jobs[s], replies[s]) /\ s \notin Busy(chunk)
          /\ m.parts[s] = [chunk.parts[s] EXCEPT !.state = "del"]
      <4>1. s \notin Deletable(chunk)
        BY ZenonT(30), <2>9
      <4>2. QED
        BY <2>2, <2>3, <2>5, <2>6, <4>1, SettledServer
    <3>3. m.operation = "none" /\ (f # 0 => ~m.inFile) /\ (IsWritable(m) => IsWritable(chunk))
      BY ZenonT(30), <2>2, <2>5, <2>6 DEF IsWritable
    <3>4. s \in Server
      BY ZenonT(30)
    <3>5. QED
      BY ZenonT(30), <2>1, <2>5, <3>1, <3>2, <3>3, <3>4, DeletesCopy
  <2>. DEFINE job == [op |-> "delete", from |-> f]
  <2>12. /\ DoChunkJobs(m, S, job)
         /\ \A s \in S :
              /\ jobs[s] \cup {job} \in SUBSET Job
              /\ ServerInv(m, s, jobs[s] \cup {job}, replies[s], disk[s], TRUE)
              /\ dropped = {} => CopyInv(m, s, jobs[s] \cup {job}, replies[s], disk[s], TRUE, current)
    BY ZenonT(30), <2>11
  <2>13. \A s \in Server : s \notin Deletable(chunk) /\ s \notin S => m.parts[s] = chunk.parts[s]
    BY ZenonT(30), <2>10
  <2>. HIDE DEF job
  <2>14. QED
    BY ZenonT(30), <2>5, <2>6, <2>7, <2>8, <2>9, <2>12, <2>13, LoopSteps
<1>. DEFINE b == DeleteInvalidChunkParts(chunk)
<1>1. b \in ChunkType /\ b.version \in Nat
  <2>1. chunk \in ChunkType
    BY ZenonT(30), MasterFacts
  <2>2. b \in ChunkType
    BY ZenonT(30), <2>1, RoundFields
  <2>3. QED
    BY ZenonT(30), <2>2 DEF ChunkType
<1>2. ASSUME DeleteAllChunkParts PROVE ChunkIndInv'
  <2>. DEFINE S == {s \in Valid(b) : Settled(s)}
              m == [DeleteCopies(b, S) EXCEPT !.needVersionIncrease = TRUE]
  <2>1. /\ Idle(b) /\ ~b.inFile /\ S # {} /\ S \subseteq Valid(b) /\ (\A s \in S : Settled(s))
        /\ S \in SUBSET Server
        /\ DoChunkJobs(m, S, [op |-> "delete", from |-> b.version])
    BY ZenonT(30), <1>2 DEF DeleteAllChunkParts, Valid
  <2>2. b = DeleteInvalidChunkParts(chunk)
    BY ZenonT(30)
  <2>. HIDE DEF S, b
  <2>3. QED
    BY ZenonT(30), <1>1, <2>1, <2>2, <1>DeletesSteps
<1>3. ASSUME NEW s \in Server, RemoveUnneededChunkPart(s) PROVE ChunkIndInv'
  <2>. DEFINE S == {s}
              m == [DeleteCopies(b, S) EXCEPT !.needVersionIncrease = TRUE]
  <2>1. /\ Idle(b) /\ S # {} /\ S \subseteq Valid(b) /\ (\A t \in S : Settled(t))
        /\ S \in SUBSET Server /\ DoChunkJobs(m, S, [op |-> "delete", from |-> 0])
    BY ZenonT(30), <1>3 DEF RemoveUnneededChunkPart
  <2>2. b = DeleteInvalidChunkParts(chunk) /\ 0 \in Nat
    BY ZenonT(30)
  <2>. HIDE DEF S, b
  <2>3. QED
    BY ZenonT(30), <2>1, <2>2, <1>DeletesSteps
<1>4. QED
  BY ZenonT(30), <1>2, <1>3

\* A round that has a copy made.
LEMMA ReplicationSteps ==
    ASSUME ChunkIndInv, NEW s \in Server, TryReplication(s)
    PROVE  ChunkIndInv'
<1>. DEFINE b == DeleteInvalidChunkParts(chunk)
            m == [b EXCEPT !.needVersionIncrease = TRUE]
            j == [op |-> "replicate", from |-> b.version, sources |-> Valid(b)]
<1>1. /\ chunk \in ChunkType /\ Fresh(chunk, jobs, replies, current)
  BY ZenonT(30), MasterFacts
<1>2. /\ Idle(b) /\ IsWritable(b) /\ s \in conn /\ b.parts[s] = NoPart /\ Settled(s)
      /\ DoChunkJobs(m, {s}, j)
  BY ZenonT(30) DEF TryReplication
<1>3. /\ b \in ChunkType /\ b.version = chunk.version /\ b.operation = chunk.operation
      /\ b.session = chunk.session /\ b.inFile = chunk.inFile /\ b.waiting = chunk.waiting
      /\ b.locked = chunk.locked /\ b.interrupted = chunk.interrupted
      /\ \A t \in Server :
           b.parts[t] = IF t \in Deletable(chunk) THEN [chunk.parts[t] EXCEPT !.state = "del"]
                        ELSE chunk.parts[t]
      /\ Valid(b) = Valid(chunk) /\ Busy(b) = Busy(chunk)
      /\ \A t \in Deletable(chunk) :
           t \in Server /\ t \notin Valid(chunk) /\ chunk.parts[t] # NoPart
  BY SMTT(30), <1>1, RoundFields
<1>4. j = [op |-> "replicate", from |-> chunk.version, sources |-> Valid(chunk)]
  BY ZenonT(30), <1>3
<1>. HIDE DEF b, j
<1>5. /\ m \in ChunkType /\ m.version = chunk.version /\ m.operation = chunk.operation
      /\ m.session = chunk.session /\ m.inFile = chunk.inFile /\ m.waiting = chunk.waiting
      /\ m.locked = chunk.locked /\ m.interrupted = chunk.interrupted
      /\ m.needVersionIncrease /\ m.parts = b.parts
  BY ZenonT(30), <1>3 DEF ChunkType
<1>. HIDE DEF m
<1>6. Valid(m) = Valid(chunk) /\ Busy(m) = Busy(chunk) /\ m.operation = "none" /\ ~m.locked
  <2>1. Valid(m) = Valid(b) /\ Busy(m) = Busy(b)
    BY ZenonT(30), <1>5 DEF Valid, Busy
  <2>2. QED
    BY ZenonT(30), <1>2, <1>3, <1>5, <2>1 DEF Idle
<1>7. chunk.version # 0
  BY SMTT(30), <1>1, <1>2, <1>3 DEF Fresh, IsWritable, Valid, NoPart
<1>8. s \notin Deletable(chunk) /\ chunk.parts[s] = NoPart /\ m.parts[s] = NoPart
  <2>1. s \notin Deletable(chunk)
    <3>1. ASSUME s \in Deletable(chunk) PROVE FALSE
      <4>1. b.parts[s] = [chunk.parts[s] EXCEPT !.state = "del"] /\ chunk.parts[s] \in [state : PartState, version : Nat]
        BY ZenonT(30), <1>1, <1>3, <3>1 DEF ChunkType
      <4>2. b.parts[s].state = "del"
        BY ZenonT(30), <4>1
      <4>3. QED
        BY SMTT(60), <1>2, <4>2 DEF NoPart
    <3>2. QED
      BY ZenonT(30), <3>1
  <2>2. QED
    BY ZenonT(60), <1>2, <1>3, <1>5, <2>1
<1>. DEFINE S == {s}
<1>9. /\ DoChunkJobs(m, S, j) /\ S \in SUBSET Server /\ S \subseteq conn
      /\ \A t \in Deletable(chunk) : t \notin S
      /\ \A t \in S : t = s
  BY ZenonT(30), <1>2, <1>8
<1>. HIDE DEF S
<1>10. \A t \in Deletable(chunk) : t \notin S /\ m.parts[t] = [chunk.parts[t] EXCEPT !.state = "del"]
  BY ZenonT(30), <1>3, <1>5, <1>9
<1>11. \A t \in Server : t \notin Deletable(chunk) /\ t \notin S => m.parts[t] = chunk.parts[t]
  BY ZenonT(30), <1>3, <1>5
<1>12. /\ jobs[s] \cup {j} \in SUBSET Job
       /\ ServerInv(m, s, jobs[s] \cup {j}, replies[s], disk[s], TRUE)
       /\ dropped = {} => CopyInv(m, s, jobs[s] \cup {j}, replies[s], disk[s], TRUE, current)
  <2>1. /\ jobs[s] \in SUBSET Job /\ replies[s] \in Seq(Packet) /\ disk[s] \in Nat
        /\ ServerInv(chunk, s, jobs[s], replies[s], disk[s], TRUE)
        /\ dropped = {} =>
             /\ OperationInv(chunk)
             /\ CopyInv(chunk, s, jobs[s], replies[s], disk[s], TRUE, current)
    BY ZenonT(60), <1>2, ServerFacts
  <2>2. NoCommand(jobs[s], replies[s]) /\ Valid(chunk) \in SUBSET Server
    BY ZenonT(30), <1>2, SettledServer DEF Valid
  <2>3. dropped = {} => m.session = NoSession
    BY ZenonT(60), <1>5, <1>6, <2>1 DEF OperationInv
  <2>4. QED
    BY ZenonT(60), <1>1, <1>4, <1>5, <1>6, <1>7, <1>8, <2>1, <2>2, <2>3, OrdersCopy
<1>13. \A t \in S :
         /\ jobs[t] \cup {j} \in SUBSET Job
         /\ ServerInv(m, t, jobs[t] \cup {j}, replies[t], disk[t], TRUE)
         /\ dropped = {} => CopyInv(m, t, jobs[t] \cup {j}, replies[t], disk[t], TRUE, current)
  BY ZenonT(60), <1>9, <1>12
<1>14. QED
  BY ZenonT(30), <1>5, <1>6, <1>7, <1>9, <1>10, <1>11, <1>13, LoopSteps

\* The invariant holds at first.
LEMMA ChunkInit ==
    ASSUME Init
    PROVE  ChunkIndInv
<1>1. Types
  BY SMTT(60), ChunkAssumption DEF Init, Types, ChunkType, Operation, NoPart, NoSession, PartState
<1>2. ChunkInv(chunk) /\ Fresh(chunk, jobs, replies, current) /\ OperationInv(chunk)
  BY SMTT(60) DEF Init, ChunkInv, Fresh, OperationInv, Busy, NoPart, NoSession
<1>3. ASSUME NEW s \in Server
      PROVE  /\ ServerInv(chunk, s, jobs[s], replies[s], disk[s], s \in conn)
             /\ CopyInv(chunk, s, jobs[s], replies[s], disk[s], s \in conn, current)
  <2>1. /\ chunk.version = 0 /\ chunk.operation = "none" /\ chunk.needVersionIncrease
        /\ chunk.session = NoSession /\ chunk.parts[s] = NoPart
        /\ jobs[s] = {} /\ replies[s] = <<>> /\ DOMAIN replies[s] = {} /\ disk[s] = 0 /\ s \in conn /\ s \in current
    BY SMTT(60) DEF Init
  <2>2. s \notin Valid(chunk) /\ s \notin Busy(chunk)
    BY ZenonT(30), <2>1, PartSets
  <2>3. OperationJobs(jobs[s]) = {} /\ Replications(jobs[s], replies[s]) = {}
    BY ZenonT(30), <2>1 DEF OperationJobs, Replications
  <2>4. /\ Bounds(chunk, s, jobs[s], replies[s], disk[s]) /\ OneCommand(jobs[s], replies[s])
        /\ CreatesFirst(chunk, s, jobs[s], replies[s], disk[s])
        /\ Truth(chunk, s, jobs[s], replies[s], disk[s]) /\ ReplicaIsThere(replies[s], disk[s])
    BY SMTT(60), <2>1, <2>2, <2>3 DEF Bounds, OneCommand, Once, CreatesFirst, Truth, ReplicaIsThere, NoPart
  <2>5. ServerInv(chunk, s, jobs[s], replies[s], disk[s], s \in conn)
    BY ZenonT(30), <2>1, <2>2, <2>4 DEF ServerInv
  <2>6. OneStatus(chunk, s, jobs[s], replies[s]) /\ Increase(chunk, s, jobs[s], replies[s], disk[s])
    BY ZenonT(60), <2>1, <2>2, <2>3 DEF OneStatus, Once, Pending, Increase
  <2>7. /\ Holding(chunk, s, replies[s], disk[s], s \in conn, current)
        /\ Writing(chunk, s, disk[s], s \in conn)
    BY ZenonT(30), <2>1 DEF Holding, Writing
  <2>8. QED
    BY ZenonT(60), <2>5, <2>6, <2>7 DEF CopyInv
<1>4. QED
  BY ZenonT(30), <1>1, <1>2, <1>3 DEF ChunkIndInv, DiskInv

\* Every step keeps the invariant.
LEMMA ChunkNext ==
    ASSUME ~ZombieRace, ChunkIndInv, [Next]_vars
    PROVE  ChunkIndInv'
<1>1. CASE \E S \in SUBSET Server : CreateChunk(S)
  BY ZenonT(30), <1>1, RequestSteps
<1>2. CASE WriteChunk
  BY ZenonT(30), <1>2, WriteSteps
<1>3. CASE TruncateChunk
  BY ZenonT(30), <1>3, RequestSteps
<1>4. CASE WriteData
  BY ZenonT(30), <1>4, WriteDataSteps
<1>5. CASE WriteChunkEnd \/ ClientStops \/ LockExpires
  BY ZenonT(30), <1>5, LockSteps
<1>6. CASE FindChunk
  BY ZenonT(30), <1>6, FindChunkSteps
<1>7. CASE DeleteInvalid
  BY ZenonT(30), <1>7, InvalidSteps
<1>8. CASE DeleteAllChunkParts
  BY ZenonT(30), <1>8, RemoveSteps
<1>9. ASSUME NEW s \in Server, ServerNext(s) PROVE ChunkIndInv'
  <2>1. ASSUME NEW j \in jobs[s], ExecuteOperation(s, j) \/ FailOperation(s, j)
        PROVE  ChunkIndInv'
    BY ZenonT(30), <2>1, OperationSteps
  <2>2. ASSUME NEW j \in jobs[s], ExecuteDelete(s, j) \/ ExecuteReplicate(s, j)
        PROVE  ChunkIndInv'
    BY ZenonT(30), <2>2, CommandSteps
  <2>3. CASE FindDamaged(s) \/ FindLost(s)
    BY ZenonT(30), <2>3, FindSteps
  <2>4. CASE Disconnect(s)
    BY ZenonT(30), <2>4, DisconnectSteps
  <2>5. CASE Connect(s)
    BY ZenonT(30), <2>5, ConnectSteps
  <2>6. CASE GotOperationStatus(s)
    BY ZenonT(30), <2>6, StatusSteps
  <2>7. CASE GotDeleteStatus(s)
    BY ZenonT(30), <2>7, DeleteStatusSteps
  <2>8. CASE GotReplicateStatus(s)
    BY ZenonT(30), <2>8, ReplicateStatusSteps
  <2>9. CASE ChunkDamaged(s) \/ ChunkLost(s)
    BY ZenonT(30), <2>9, BadCopySteps
  <2>10. CASE TryReplication(s)
    BY ZenonT(30), <2>10, ReplicationSteps
  <2>11. CASE RemoveUnneededChunkPart(s)
    BY ZenonT(30), <2>11, RemoveSteps
  <2>12. QED
    BY ZenonT(30), <1>9, <2>1, <2>2, <2>3, <2>4, <2>5, <2>6, <2>7, <2>8, <2>9, <2>10, <2>11 DEF ServerNext
<1>10. CASE UNCHANGED vars
  <2>1. chunk \in ChunkType /\ chunk' = chunk
        /\ UNCHANGED <<conn, jobs, replies, disk, current, dropped, requests, faults>>
    BY ZenonT(30), <1>10, MasterFacts DEF vars
  <2>2. OperationInv(chunk) =>
          /\ chunk.session # NoSession => chunk.locked
          /\ chunk.waiting # "none" => chunk.locked
    BY ZenonT(30) DEF OperationInv
  <2>3. QED
    BY ZenonT(30), <2>1, <2>2, SameSteps
<1>11. QED
  BY ZenonT(30), <1>1, <1>2, <1>3, <1>4, <1>5, <1>6, <1>7, <1>8, <1>9, <1>10 DEF Next

-----------------------------------------------------------------------------
(* The theorems                                                            *)

\* The inductive invariant holds in every reachable state, when chunkservers
\* are forgotten before they are back.
THEOREM ChunkInvariant ==
    ASSUME ~ZombieRace
    PROVE  Spec => []ChunkIndInv
<1>1. Init => ChunkIndInv
  BY ZenonT(30), ChunkInit
<1>2. ChunkIndInv /\ [Next]_vars => ChunkIndInv'
  BY ZenonT(30), ChunkNext
<1>3. QED
  BY <1>1, <1>2, PTL DEF Spec

\* No version is ahead of the chunk's: not the master's record of a part, not a
\* client's session, not a copy on a disk (chunk_start_operation and every
\* handler that writes ChunkPart::version).
THEOREM ChunkTypes ==
    ASSUME ~ZombieRace
    PROVE  Spec => []TypeOK
<1>1. ASSUME ChunkIndInv PROVE TypeOK
  <2>1. /\ Types /\ ChunkInv(chunk) /\ chunk \in ChunkType /\ chunk.version \in Nat
    BY ZenonT(30), <1>1, MasterFacts
  <2>2. ASSUME NEW s \in Server
        PROVE  disk[s] \in 0..chunk.version /\ chunk.parts[s].version \in 0..chunk.version
    <3>1. disk[s] <= chunk.version /\ chunk.parts[s].version <= chunk.version
      BY ZenonT(30), <1>1 DEF ChunkIndInv, DiskInv, ServerInv, Bounds
    <3>2. disk[s] \in Nat /\ chunk.parts[s].version \in Nat
      BY ZenonT(30), <2>1 DEF Types, ChunkType
    <3>3. chunk.version \in Nat
      BY ZenonT(30), <2>1
    <3>4. QED
      BY SMTT(30), <3>1, <3>2, <3>3
  <2>3. chunk.parts \in [Server -> [state : {"none", "invalid", "del", "busy", "valid"},
                                    version : 0..chunk.version]]
    BY ZenonT(30), <2>1, <2>2 DEF ChunkType, PartState
  <2>4. chunk.session \in [version : 0..chunk.version, locations : SUBSET Server]
    BY SMTT(30), <2>1 DEF ChunkInv, ChunkType
  <2>5. disk \in [Server -> 0..chunk.version]
    BY ZenonT(30), <2>1, <2>2 DEF Types
  <2>6. QED
    BY ZenonT(30), <2>1, <2>3, <2>4, <2>5 DEF TypeOK, Types, ChunkType
<1>2. QED
  BY <1>1, ChunkInvariant, PTL

\* What the master believes of a connected copy that it has nothing to say to
\* and nothing to hear from is what is on its disk (chunk_operation_status,
\* chunk_server_has_chunk, hddInternalUpdateVersion).
THEOREM ChunkMasterKnowsDisk ==
    ASSUME ~ZombieRace
    PROVE  Spec => []MasterKnowsDisk
<1>1. ASSUME ChunkIndInv PROVE MasterKnowsDisk
  <2>1. ASSUME NEW s \in Valid(chunk) \cap conn, jobs[s] = {}, replies[s] = <<>>
        PROVE  disk[s] = chunk.version
    <3>1. s \in Server
      BY ZenonT(30) DEF Valid
    <3>2. Truth(chunk, s, jobs[s], replies[s], disk[s])
      BY ZenonT(60), <1>1, <2>1, <3>1 DEF ChunkIndInv, DiskInv, ServerInv
    <3>3. OperationJobs(jobs[s]) = {} /\ DOMAIN replies[s] = {}
      BY SMTT(30), <2>1 DEF OperationJobs
    <3>4. QED
      BY ZenonT(60), <3>2, <3>3 DEF Truth
  <2>2. QED
    BY ZenonT(30), <2>1 DEF MasterKnowsDisk
<1>2. QED
  BY <1>1, ChunkInvariant, PTL

\* An operation is never left without an answer on its way, or without the loss
\* of a chunkserver about to be noticed (chunk_operation_status,
\* chunk_handle_disconnected_copies).
THEOREM ChunkOperationIsAnswered ==
    ASSUME ~ZombieRace
    PROVE  Spec => []OperationIsAnswered
<1>1. ASSUME ChunkIndInv PROVE OperationIsAnswered
  <2>1. ASSUME dropped = {}, chunk.operation # "none", Found
        PROVE  \E s \in conn : Outstanding(s, chunk.operation) \/ Outstanding(s, "status")
    <3>1. PICK s \in Server : s \in Busy(chunk)
      BY ZenonT(30), <1>1, <2>1 DEF ChunkIndInv, OperationInv, Busy
    <3>2. s \in conn
      BY ZenonT(30), <2>1, <3>1, FoundParts
    <3>3. OneStatus(chunk, s, jobs[s], replies[s])
      BY ZenonT(30), <1>1, <2>1, <3>2 DEF ChunkIndInv, CopyInv
    <3>4. (\E j \in jobs[s] : j.op = chunk.operation) \/ Pending(replies[s], "status")
      BY ZenonT(30), <3>1, <3>3 DEF OneStatus, OperationJobs
    <3>5. QED
      BY ZenonT(60), <3>2, <3>4 DEF Outstanding
  <2>2. QED
    BY ZenonT(30), <2>1 DEF OperationIsAnswered
<1>2. QED
  BY <1>1, ChunkInvariant, PTL

\* No copy that readers are sent to misses data that a client was told is
\* written or truncated, but for copies that were reported damaged or lost
\* during an operation (chunk_getversionandlocations).
THEOREM ChunkCopiesAreCurrent ==
    ASSUME ~ZombieRace
    PROVE  Spec => []CopiesAreCurrent
<1>1. ASSUME ChunkIndInv PROVE CopiesAreCurrent
  <2>1. ASSUME dropped = {}, NEW s \in Valid(chunk) \cap conn PROVE s \in current
    <3>1. s \in Server
      BY ZenonT(30) DEF Valid
    <3>2. QED
      BY ZenonT(30), <1>1, <2>1, <3>1 DEF ChunkIndInv, CopyInv, Holding
  <2>2. QED
    BY ZenonT(30), <2>1 DEF CopiesAreCurrent
<1>2. QED
  BY <1>1, ChunkInvariant, PTL
=============================================================================
