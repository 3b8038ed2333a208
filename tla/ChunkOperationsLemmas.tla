----------------------- MODULE ChunkOperationsLemmas ------------------------
(***************************************************************************)
(* What a step of a chunkserver, and a step of the master on the fields of *)
(* a chunk, does to the inductive invariant ChunkIndInv: first one         *)
(* chunkserver at a time, then for all of them at once.  On these lemmas   *)
(* rest the proofs about the master's handlers: the requests of clients at *)
(* the end of this module, all others in ChunkOperationsProofs.            *)
(***************************************************************************)
EXTENDS ChunkOperations, TLAPS

-----------------------------------------------------------------------------
(* Queues                                                                  *)

\* A packet is sent.
LEMMA Sends ==
    ASSUME NEW q \in Seq(Packet), NEW p \in Packet
    PROVE  /\ Append(q, p) \in Seq(Packet) /\ Append(q, p) # <<>>
           /\ Len(q) \in Nat /\ DOMAIN q = 1..Len(q)
           /\ DOMAIN Append(q, p) = DOMAIN q \cup {Len(q) + 1}
           /\ Len(q) + 1 \notin DOMAIN q
           /\ \A i \in DOMAIN q : Append(q, p)[i] = q[i] /\ i < Len(q) + 1
           /\ Append(q, p)[Len(q) + 1] = p
OBVIOUS

\* A packet is received.
LEMMA Receives ==
    ASSUME NEW q \in Seq(Packet), q # <<>>
    PROVE  /\ Tail(q) \in Seq(Packet) /\ Head(q) \in Packet
           /\ 1 \in DOMAIN q /\ q[1] = Head(q)
           /\ \A i \in DOMAIN q : i # 1 => i - 1 \in DOMAIN Tail(q) /\ Tail(q)[i - 1] = q[i]
           /\ \A i \in DOMAIN Tail(q) :
                i \in Nat /\ i + 1 \in DOMAIN q /\ i + 1 # 1 /\ Tail(q)[i] = q[i + 1]
<1>. DEFINE r == Tail(q)
<1>1. /\ r \in Seq(Packet) /\ Head(q) \in Packet /\ Len(q) \in Nat
      /\ 1 \in DOMAIN q /\ q[1] = Head(q)
      /\ DOMAIN q = 1..Len(q) /\ DOMAIN r = 1..(Len(q) - 1)
      /\ \A i \in 1..(Len(q) - 1) : r[i] = q[i + 1]
  OBVIOUS
<1>. HIDE DEF r
<1>2. \A i \in DOMAIN r :
        i \in Nat /\ i + 1 \in DOMAIN q /\ i + 1 # 1 /\ r[i] = q[i + 1]
  BY <1>1
<1>3. \A i \in DOMAIN q : i # 1 => i - 1 \in DOMAIN r /\ r[i - 1] = q[i]
  <2>1. SUFFICES ASSUME NEW i \in DOMAIN q, i # 1
                 PROVE  i - 1 \in DOMAIN r /\ r[i - 1] = q[i]
    BY ZenonT(30)
  <2>2. i - 1 \in 1..(Len(q) - 1) /\ (i - 1) + 1 = i
    BY <1>1, <2>1
  <2>3. r[i - 1] = q[(i - 1) + 1]
    BY ZenonT(30), <1>1, <2>2
  <2>4. QED
    BY ZenonT(30), <1>1, <2>2, <2>3
<1>4. QED
  BY ZenonT(30), <1>1, <1>2, <1>3 DEF r

\* What a queue holds after a packet is sent.
LEMMA SentPackets ==
    ASSUME NEW q \in Seq(Packet), NEW p \in Packet, NEW J
    PROVE  /\ \A op : Pending(Append(q, p), op) <=> Pending(q, op) \/ p.op = op
           /\ \A ops : Once(q, ops) /\ (p.op \in ops => \A i \in DOMAIN q : q[i].op \notin ops)
                => Once(Append(q, p), ops)
           /\ NoCommand(J, Append(q, p)) <=> NoCommand(J, q) /\ p.op \notin LoopCommand
           /\ Replications(J, Append(q, p)) = Replications(J, q) \cup
                (IF p.op = "replicate" /\ p.ok THEN {p.version} ELSE {})
<1>. DEFINE r == Append(q, p)
<1>1. /\ DOMAIN r = DOMAIN q \cup {Len(q) + 1} /\ \A i \in DOMAIN q : r[i] = q[i]
      /\ r[Len(q) + 1] = p
  BY Sends
<1>. HIDE DEF r
<1>2. \A op : Pending(r, op) <=> Pending(q, op) \/ p.op = op
  BY ZenonT(30), <1>1 DEF Pending
<1>3. \A ops : Once(q, ops) /\ (p.op \in ops => \A i \in DOMAIN q : q[i].op \notin ops)
                => Once(r, ops)
  BY ZenonT(30), <1>1 DEF Once
<1>4. NoCommand(J, r) <=> NoCommand(J, q) /\ p.op \notin LoopCommand
  BY ZenonT(30), <1>1 DEF NoCommand
<1>5. Replications(J, r) = Replications(J, q) \cup
                (IF p.op = "replicate" /\ p.ok THEN {p.version} ELSE {})
  BY ZenonT(30), <1>1 DEF Replications
<1>6. QED
  BY ZenonT(30), <1>2, <1>3, <1>4, <1>5 DEF r

\* What a queue holds after a packet is received.
LEMMA ReceivedPackets ==
    ASSUME NEW q \in Seq(Packet), q # <<>>, NEW J
    PROVE  /\ \A op : Pending(Tail(q), op) => Pending(q, op)
           /\ \A op : Pending(q, op) /\ Head(q).op # op => Pending(Tail(q), op)
           /\ \A ops : Once(q, ops) => Once(Tail(q), ops)
           /\ \A ops : Once(q, ops) /\ Head(q).op \in ops
                => \A i \in DOMAIN Tail(q) : Tail(q)[i].op \notin ops
           /\ NoCommand(J, q) => NoCommand(J, Tail(q))
           /\ Replications(J, Tail(q)) \subseteq Replications(J, q)
<1>. DEFINE r == Tail(q)
<1>0. \A i \in DOMAIN q : i # 1 => i - 1 \in DOMAIN r /\ r[i - 1] = q[i]
  BY ZenonT(30), Receives
<1>1. /\ 1 \in DOMAIN q /\ q[1] = Head(q)
      /\ \A i \in DOMAIN r :
           i \in Nat /\ i + 1 \in DOMAIN q /\ i + 1 # 1 /\ r[i] = q[i + 1]
  BY ZenonT(30), Receives
<1>. HIDE DEF r
<1>2. \A op : Pending(r, op) => Pending(q, op)
  BY ZenonT(30), <1>1 DEF Pending
<1>3. \A op : Pending(q, op) /\ Head(q).op # op => Pending(r, op)
  <2>1. SUFFICES ASSUME NEW op, NEW i \in DOMAIN q, q[i].op = op, Head(q).op # op
                 PROVE  \E k \in DOMAIN r : r[k].op = op
    BY ZenonT(30) DEF Pending
  <2>2. i - 1 \in DOMAIN r /\ r[i - 1] = q[i]
    BY ZenonT(30), <1>0, <1>1, <2>1
  <2>3. QED
    BY ZenonT(30), <2>1, <2>2
<1>4. \A ops : Once(q, ops) => Once(r, ops)
  BY <1>1 DEF Once
<1>5. \A ops : Once(q, ops) /\ Head(q).op \in ops => \A i \in DOMAIN r : r[i].op \notin ops
  BY ZenonT(30), <1>1 DEF Once
<1>6. NoCommand(J, q) => NoCommand(J, r)
  BY ZenonT(30), <1>1 DEF NoCommand
<1>7. Replications(J, r) \subseteq Replications(J, q)
  BY <1>1 DEF Replications
<1>8. QED
  BY ZenonT(30), <1>2, <1>3, <1>4, <1>5, <1>6, <1>7 DEF r

-----------------------------------------------------------------------------
(* What a chunkserver does: it finishes a job or finds something, and      *)
(* tells the master.                                                       *)

\* What is left of a chunkserver's jobs, and a packet for the master, keep
\* what does not depend on the disk.
LEMMA ReplyKeeps ==
    ASSUME NEW c \in ChunkType, NEW s \in Server, NEW J \in SUBSET Job,
           NEW q \in Seq(Packet), NEW d \in Nat, ServerInv(c, s, J, q, d, TRUE),
           NEW K \in SUBSET J, NEW p \in Packet, NEW e \in Nat, e <= c.version,
           p.op = "replicate" /\ p.ok => p.version \in Replications(J, q),
           p.op \in LoopCommand => (\E j \in J : j.op \in LoopCommand) /\ NoCommand(K, q),
           (\E j \in J : K = J \ {j}) \/ d # 0
    PROVE  /\ Bounds(c, s, K, Append(q, p), e)
           /\ OneCommand(K, Append(q, p))
           /\ s \in Valid(c) => NoCommand(K, Append(q, p))
           /\ CreatesFirst(c, s, K, Append(q, p), e)
<1>. DEFINE r == Append(q, p)
<1>1. /\ Once(q, LoopCommand)
         /\ (p.op \in LoopCommand => \A i \in DOMAIN q : q[i].op \notin LoopCommand)
           => Once(r, LoopCommand)
      /\ NoCommand(K, r) <=> NoCommand(K, q) /\ p.op \notin LoopCommand
      /\ NoCommand({}, r) <=> NoCommand({}, q) /\ p.op \notin LoopCommand
      /\ Replications(K, r) = Replications(K, q) \cup
                (IF p.op = "replicate" /\ p.ok THEN {p.version} ELSE {})
  BY ZenonT(30), SentPackets
<1>2. Replications(K, q) \subseteq Replications(J, q)
  BY ZenonT(30) DEF Replications
<1>3. OperationJobs(K) \subseteq OperationJobs(J)
  BY ZenonT(30) DEF OperationJobs
<1>. HIDE DEF r
<1>4. Bounds(c, s, K, r, e)
  BY ZenonT(30), <1>1, <1>2, <1>3 DEF ServerInv, Bounds
<1>5. OneCommand(K, r)
  <2>1. CASE p.op \in LoopCommand
    BY ZenonT(30), <1>1, <2>1 DEF ServerInv, OneCommand, NoCommand
  <2>2. CASE p.op \notin LoopCommand
    BY ZenonT(30), <1>1, <2>2 DEF ServerInv, OneCommand
  <2>3. QED
    BY ZenonT(30), <2>1, <2>2
<1>6. ASSUME s \in Valid(c) PROVE NoCommand(K, r)
  BY ZenonT(30), <1>1, <1>6 DEF ServerInv, NoCommand
<1>7. CreatesFirst(c, s, K, r, e)
  <2>1. SUFFICES ASSUME NEW j \in OperationJobs(K), j.from = 0
                 PROVE  FALSE
    BY ZenonT(30) DEF CreatesFirst
  <2>2. J = {j} /\ d = 0
    BY ZenonT(30), <1>3, <2>1 DEF ServerInv, CreatesFirst
  <2>3. QED
    BY ZenonT(30), <2>1, <2>2 DEF OperationJobs
<1>8. QED
  BY ZenonT(30), <1>4, <1>5, <1>6, <1>7 DEF r

\* The fields that a job has.
LEMMA JobFields ==
    ASSUME NEW J \in SUBSET Job
    PROVE  /\ \A j \in OperationJobs(J) : /\ j \in J /\ j.from \in Nat /\ j.to \in Nat
                                          /\ j.op \notin LoopCommand
           /\ \A j \in J : j.op \in LoopCommand => j \notin OperationJobs(J)
           /\ \A j \in J : j.from \in Nat
           /\ \A j \in J : j.op = "replicate" => j.sources \subseteq Server
BY ZenonT(30) DEF Job, OperationJobs, Operation, LoopCommand

\* An operation that succeeds.
LEMMA FinishesOperation ==
    ASSUME NEW c \in ChunkType, NEW s \in Server, NEW J \in SUBSET Job,
           NEW q \in Seq(Packet), NEW d \in Nat, ServerInv(c, s, J, q, d, TRUE),
           NEW j \in OperationJobs(J), d = j.from
    PROVE  ServerInv(c, s, J \ {j},
                     Append(q, [op |-> "status", ok |-> TRUE, version |-> j.to]), j.to, TRUE)
<1>. DEFINE p == [op |-> "status", ok |-> TRUE, version |-> j.to]
            K == J \ {j}
<1>1. /\ j \in J /\ j.to \in Nat /\ j.to = j.from + 1 /\ j.to <= c.version
      /\ p \in Packet /\ p.op \notin LoopCommand /\ p.op # "replicate" /\ c.version \in Nat
  BY ZenonT(30), JobFields DEF ServerInv, Bounds, Packet, LoopCommand, ChunkType
<1>2. /\ Append(q, p) \in Seq(Packet) /\ DOMAIN Append(q, p) = DOMAIN q \cup {Len(q) + 1}
      /\ \A i \in DOMAIN q : Append(q, p)[i] = q[i]
      /\ Append(q, p)[Len(q) + 1] = p
  BY <1>1, Sends
<1>3. d = 0 => q = <<>>
  BY ZenonT(30) DEF ServerInv, CreatesFirst
<1>4. p.op # "lost" /\ p.op # "replicate"
  BY ZenonT(30)
<1>5. /\ Bounds(c, s, K, Append(q, p), j.to) /\ OneCommand(K, Append(q, p))
      /\ s \in Valid(c) => NoCommand(K, Append(q, p))
      /\ CreatesFirst(c, s, K, Append(q, p), j.to)
  BY ZenonT(30), <1>1, ReplyKeeps
<1>. HIDE DEF p
<1>6. \A i \in DOMAIN q : BadNews(q[i], d) => BadNews(Append(q, p)[i], j.to)
  BY <1>2, <1>3 DEF BadNews
<1>7. Truth(c, s, K, Append(q, p), j.to)
  <2>1. SUFFICES ASSUME s \in Valid(c), j.to # c.version
                 PROVE  \/ \E k \in OperationJobs(K) : k.to = c.version
                        \/ \E i \in DOMAIN Append(q, p) : BadNews(Append(q, p)[i], j.to)
    BY ZenonT(30) DEF Truth
  <2>2. d # c.version
    BY <1>1
  <2>3. CASE \E k \in OperationJobs(J) : k.to = c.version
    BY ZenonT(30), <2>1, <2>3 DEF OperationJobs
  <2>4. CASE \E i \in DOMAIN q : BadNews(q[i], d)
    BY ZenonT(30), <1>2, <1>6, <2>4
  <2>5. QED
    BY ZenonT(30), <2>1, <2>2, <2>3, <2>4 DEF ServerInv, Truth
<1>8. ReplicaIsThere(Append(q, p), j.to)
  <2>1. SUFFICES ASSUME NEW i \in DOMAIN q, q[i].op = "replicate", q[i].ok
                 PROVE  \E k \in DOMAIN Append(q, p) : k > i /\ BadNews(Append(q, p)[k], j.to)
    BY ZenonT(30), <1>2, <1>4 DEF ReplicaIsThere
  <2>2. q[i].version \in Replications(J, q)
    BY ZenonT(30), <2>1 DEF Replications
  <2>3. j.from # q[i].version
    BY <1>1, <2>2 DEF ServerInv, Bounds
  <2>4. PICK k \in DOMAIN q : k > i /\ BadNews(q[k], d)
    BY ZenonT(30), <2>1, <2>3 DEF ServerInv, ReplicaIsThere
  <2>5. QED
    BY ZenonT(30), <1>2, <1>6, <2>4
<1>9. QED
  BY ZenonT(30), <1>5, <1>7, <1>8 DEF ServerInv, p

\* The chunkserver tells what makes the master give up the copy: an operation
\* failed, or the copy is lost.
LEMMA TellsBadNews ==
    ASSUME NEW c \in ChunkType, NEW s \in Server, NEW J \in SUBSET Job,
           NEW q \in Seq(Packet), NEW d \in Nat, ServerInv(c, s, J, q, d, TRUE),
           NEW K \in SUBSET J, NEW p \in Packet, NEW e \in Nat, e <= c.version,
           p.op \notin LoopCommand, BadNews(p, e),
           (\E j \in J : K = J \ {j}) \/ d # 0
    PROVE  ServerInv(c, s, K, Append(q, p), e, TRUE)
<1>1. p.op # "replicate"
  BY ZenonT(30) DEF LoopCommand
<1>2. /\ Bounds(c, s, K, Append(q, p), e) /\ OneCommand(K, Append(q, p))
      /\ s \in Valid(c) => NoCommand(K, Append(q, p))
      /\ CreatesFirst(c, s, K, Append(q, p), e)
  BY ZenonT(30), <1>1, ReplyKeeps
<1>3. /\ DOMAIN Append(q, p) = DOMAIN q \cup {Len(q) + 1}
      /\ \A i \in DOMAIN q : Append(q, p)[i] = q[i] /\ i < Len(q) + 1
      /\ Append(q, p)[Len(q) + 1] = p
  BY ZenonT(30), Sends
<1>4. Truth(c, s, K, Append(q, p), e)
  BY ZenonT(30), <1>3 DEF Truth
<1>5. ReplicaIsThere(Append(q, p), e)
  BY ZenonT(30), <1>1, <1>3 DEF ReplicaIsThere
<1>6. QED
  BY ZenonT(30), <1>2, <1>4, <1>5 DEF ServerInv

\* The disk stays as it is: a deletion that is refused, a copy that cannot be
\* made or that is found damaged.
LEMMA KeepsDisk ==
    ASSUME NEW c \in ChunkType, NEW s \in Server, NEW J \in SUBSET Job,
           NEW q \in Seq(Packet), NEW d \in Nat, ServerInv(c, s, J, q, d, TRUE),
           NEW K \in SUBSET J, NEW p \in Packet, OperationJobs(K) = OperationJobs(J),
           ~(p.op = "replicate" /\ p.ok),
           p.op \in LoopCommand => (\E j \in J : j.op \in LoopCommand) /\ NoCommand(K, q),
           (\E j \in J : K = J \ {j}) \/ d # 0
    PROVE  ServerInv(c, s, K, Append(q, p), d, TRUE)
<1>1. d <= c.version
  BY ZenonT(30) DEF ServerInv, Bounds
<1>2. /\ Bounds(c, s, K, Append(q, p), d) /\ OneCommand(K, Append(q, p))
      /\ s \in Valid(c) => NoCommand(K, Append(q, p))
      /\ CreatesFirst(c, s, K, Append(q, p), d)
  BY ZenonT(30), <1>1, ReplyKeeps
<1>3. /\ DOMAIN Append(q, p) = DOMAIN q \cup {Len(q) + 1}
      /\ \A i \in DOMAIN q : Append(q, p)[i] = q[i] /\ i < Len(q) + 1
      /\ Append(q, p)[Len(q) + 1] = p
  BY ZenonT(30), Sends
<1>4. Truth(c, s, K, Append(q, p), d)
  BY ZenonT(30), <1>3 DEF ServerInv, Truth
<1>5. ReplicaIsThere(Append(q, p), d)
  BY <1>3 DEF ServerInv, ReplicaIsThere
<1>6. QED
  BY ZenonT(30), <1>2, <1>4, <1>5 DEF ServerInv

\* While a command of the loop is to be executed the master does not count
\* on the copy.
LEMMA CommandAlone ==
    ASSUME NEW c, NEW s, NEW J \in SUBSET Job, NEW q, NEW d, NEW up,
           ServerInv(c, s, J, q, d, up), NEW j \in J, j.op \in LoopCommand
    PROVE  /\ s \notin Valid(c)
           /\ NoCommand(J \ {j}, q)
           /\ OperationJobs(J \ {j}) = OperationJobs(J)
<1>1. s \notin Valid(c)
  BY ZenonT(30) DEF ServerInv, NoCommand
<1>2. NoCommand(J \ {j}, q)
  BY ZenonT(30) DEF ServerInv, OneCommand, NoCommand
<1>3. OperationJobs(J \ {j}) = OperationJobs(J)
  BY ZenonT(30), JobFields DEF OperationJobs
<1>4. QED
  BY ZenonT(30), <1>1, <1>2, <1>3

\* A copy is deleted, or a new one is made where there was none.
LEMMA ReplacesCopy ==
    ASSUME NEW c \in ChunkType, NEW s \in Server, NEW J \in SUBSET Job,
           NEW q \in Seq(Packet), NEW d \in Nat, ServerInv(c, s, J, q, d, TRUE),
           NEW j \in J, j.op \in LoopCommand, NEW e \in Nat,
           NEW p \in Packet, p.op = j.op, p.op = "delete" => e = 0,
           p.op = "replicate" => e = j.from /\ p.version = j.from
    PROVE  ServerInv(c, s, J \ {j}, Append(q, p), e, TRUE)
<1>1. s \notin Valid(c) /\ NoCommand(J \ {j}, q)
  BY ZenonT(30), CommandAlone
<1>2. p.op = "replicate" => p.version \in Replications(J, q)
  BY ZenonT(30) DEF Replications
<1>3. e <= c.version
  BY <1>2 DEF ServerInv, Bounds, LoopCommand, ChunkType
<1>4. /\ Bounds(c, s, J \ {j}, Append(q, p), e) /\ OneCommand(J \ {j}, Append(q, p))
      /\ CreatesFirst(c, s, J \ {j}, Append(q, p), e)
  BY ZenonT(30), <1>1, <1>2, <1>3, ReplyKeeps
<1>5. /\ DOMAIN Append(q, p) = DOMAIN q \cup {Len(q) + 1}
      /\ \A i \in DOMAIN q : Append(q, p)[i] = q[i] /\ i < Len(q) + 1
      /\ Append(q, p)[Len(q) + 1] = p
  BY ZenonT(30), Sends
<1>6. ReplicaIsThere(Append(q, p), e)
  BY ZenonT(30), <1>1, <1>5 DEF ReplicaIsThere, NoCommand, LoopCommand
<1>7. QED
  BY ZenonT(30), <1>1, <1>4, <1>6 DEF ServerInv, Truth

-----------------------------------------------------------------------------
(* The same steps, and who holds the data                                  *)

\* An operation is done or has failed: its copy is busy, so that it counts.
LEMMA AnswersOperation ==
    ASSUME NEW c \in ChunkType, NEW s \in Server, NEW J \in SUBSET Job,
           NEW q \in Seq(Packet), NEW d \in Nat, NEW cur,
           ServerInv(c, s, J, q, d, TRUE), CopyInv(c, s, J, q, d, TRUE, cur),
           ChunkInv(c), OperationInv(c),
           NEW j \in OperationJobs(J), NEW p \in Packet, p.op = "status", NEW e \in Nat
    PROVE  CopyInv(c, s, J \ {j}, Append(q, p), e, TRUE, cur)
<1>. DEFINE r == Append(q, p)
            K == J \ {j}
<1>1. s \in Busy(c) /\ s \in Valid(c) /\ s \in cur /\ c.session = NoSession
      /\ OperationJobs(K) = {} /\ ~Pending(q, "status") /\ c.parts[s] # NoPart
  <2>1. s \in Busy(c) /\ ~Pending(q, "status") /\ OperationJobs(K) = {}
    BY ZenonT(30) DEF CopyInv, OneStatus, OperationJobs
  <2>2. s \in Valid(c) /\ c.parts[s] # NoPart
    BY <2>1 DEF Busy, Valid, NoPart
  <2>3. s \in cur
    BY ZenonT(30), <2>2 DEF CopyInv, Holding
  <2>4. c.session = NoSession
    BY ZenonT(30), <2>1 DEF ChunkInv, OperationInv
  <2>5. QED
    BY ZenonT(30), <2>1, <2>2, <2>3, <2>4
<1>2. /\ Pending(r, "status") /\ (Pending(r, "delete") <=> Pending(q, "delete"))
      /\ Once(q, {"status"}) /\ (\A i \in DOMAIN q : q[i].op \notin {"status"})
           => Once(r, {"status"})
      /\ Replications(K, r) \subseteq Replications(K, q)
  <2>1. p.op # "delete" /\ p.op # "replicate"
    BY ZenonT(30)
  <2>2. Once(q, {"status"}) /\ (\A i \in DOMAIN q : q[i].op \notin {"status"})
           => Once(r, {"status"})
    BY ZenonT(30), SentPackets
  <2>3. QED
    BY <2>1, <2>2, SentPackets
<1>3. DOMAIN r = DOMAIN q \cup {Len(q) + 1} /\ r[Len(q) + 1] = p
      /\ \A i \in DOMAIN q : r[i] = q[i]
  BY SMTT(30), Sends
<1>. HIDE DEF r
<1>4. ~Pending(q, "delete")
  BY ZenonT(30), <1>1 DEF ServerInv, NoCommand, Pending, LoopCommand
<1>5. OneStatus(c, s, K, r)
  BY ZenonT(30), <1>1, <1>2 DEF CopyInv, OneStatus, Pending
<1>6. Holding(c, s, r, e, TRUE, cur) /\ Writing(c, s, e, TRUE)
  BY ZenonT(30), <1>1 DEF Holding, Writing
<1>7. Replications(K, q) \subseteq Replications(J, q)
  BY ZenonT(30) DEF Replications
<1>8. Increase(c, s, K, r, e)
  BY ZenonT(30), <1>1, <1>2, <1>4, <1>7 DEF CopyInv, Increase
<1>9. QED
  BY ZenonT(30), <1>5, <1>6, <1>8 DEF CopyInv, r

\* Any other packet, when the disk stays as it is or loses the copy.
LEMMA AnswersLess ==
    ASSUME NEW c \in ChunkType, NEW s \in Server, NEW J \in SUBSET Job,
           NEW q \in Seq(Packet), NEW d \in Nat, NEW cur,
           CopyInv(c, s, J, q, d, TRUE, cur), c.version # 0,
           NEW K \in SUBSET J, OperationJobs(K) = OperationJobs(J),
           NEW p \in Packet, p.op # "status", ~(p.op = "replicate" /\ p.ok),
           NEW e \in {0, d}, p.op = "delete" /\ e # 0 => c.needVersionIncrease
    PROVE  CopyInv(c, s, K, Append(q, p), e, TRUE, cur)
<1>. DEFINE r == Append(q, p)
<1>1. /\ \A op : Pending(r, op) <=> Pending(q, op) \/ p.op = op
      /\ Replications(K, r) \subseteq Replications(K, q)
  BY SMTT(30), SentPackets
<1>2. Once(q, {"status"}) => Once(r, {"status"})
  BY ZenonT(30), SentPackets
<1>3. DOMAIN r = DOMAIN q \cup {Len(q) + 1} /\ r[Len(q) + 1] = p
      /\ \A i \in DOMAIN q : r[i] = q[i]
  BY Sends
<1>. HIDE DEF r
<1>4. (e = c.version => d = c.version /\ e # 0) /\ c.version \in Nat
  BY ZenonT(30) DEF ChunkType
<1>5. OneStatus(c, s, K, r)
  BY ZenonT(30), <1>1, <1>2 DEF CopyInv, OneStatus
<1>6. Holding(c, s, r, e, TRUE, cur) /\ Writing(c, s, e, TRUE)
  BY ZenonT(30), <1>3, <1>4 DEF CopyInv, Holding, Writing
<1>7. Replications(K, q) \subseteq Replications(J, q)
  BY ZenonT(30) DEF Replications
<1>8. Increase(c, s, K, r, e)
  BY ZenonT(30), <1>1, <1>4, <1>7 DEF CopyInv, Increase
<1>9. QED
  BY ZenonT(30), <1>5, <1>6, <1>8 DEF CopyInv, r

\* A new copy is made: of the present version only while needVersionIncrease
\* is set, no client writes and no operation runs.
LEMMA MakesCopy ==
    ASSUME NEW c \in ChunkType, NEW s \in Server, NEW J \in SUBSET Job,
           NEW q \in Seq(Packet), NEW d \in Nat, NEW cur, NEW cur2,
           ServerInv(c, s, J, q, d, TRUE), CopyInv(c, s, J, q, d, TRUE, cur),
           NEW j \in J, j.op = "replicate",
           NEW p \in Packet, p.op = "replicate", p.version = j.from,
           j.from = c.version => s \in cur2
    PROVE  CopyInv(c, s, J \ {j}, Append(q, p), j.from, TRUE, cur2)
<1>. DEFINE r == Append(q, p)
            K == J \ {j}
<1>1. s \notin Valid(c) /\ NoCommand(K, q) /\ OperationJobs(K) = OperationJobs(J)
  BY ZenonT(30), CommandAlone DEF LoopCommand
<1>2. j.from \in Replications(J, q) /\ Replications(K, q) \subseteq Replications(J, q)
  BY ZenonT(30) DEF Replications
<1>3. /\ \A op : Pending(r, op) <=> Pending(q, op) \/ p.op = op
      /\ Once(q, {"status"}) => Once(r, {"status"})
      /\ Replications(K, r) \subseteq Replications(K, q) \cup {p.version}
  BY SMTT(30), SentPackets
<1>4. DOMAIN r = DOMAIN q \cup {Len(q) + 1} /\ r[Len(q) + 1] = p
      /\ \A i \in DOMAIN q : r[i] = q[i]
  BY SMTT(30), Sends
<1>. HIDE DEF r
<1>5. c.version \in Nat /\ j.from \in Nat
  BY ZenonT(30), JobFields DEF ChunkType
<1>6. OneStatus(c, s, K, r)
  BY ZenonT(30), <1>1, <1>3 DEF CopyInv, OneStatus
<1>7. Holding(c, s, r, j.from, TRUE, cur2)
  BY ZenonT(30), <1>1, <1>4 DEF Holding, NoCommand, LoopCommand
<1>8. ~c.needVersionIncrease \/ c.operation # "none" \/ c.session # NoSession
        => j.from # c.version
  BY <1>2, <1>5 DEF CopyInv, Increase
<1>9. Writing(c, s, j.from, TRUE)
  BY ZenonT(30), <1>1, <1>8 DEF Writing
<1>10. Increase(c, s, K, r, j.from)
  BY ZenonT(30), <1>2, <1>3, <1>8 DEF CopyInv, Increase
<1>11. QED
  BY ZenonT(30), <1>6, <1>7, <1>9, <1>10 DEF CopyInv, r

\* A chunkserver is up or not, whatever else is.
LEMMA UpOrDown ==
    ASSUME NEW c, NEW s, NEW J, NEW q, NEW d, NEW cur, NEW U
    PROVE  /\ s \in U => /\ ServerInv(c, s, J, q, d, s \in U) <=> ServerInv(c, s, J, q, d, TRUE)
                         /\ CopyInv(c, s, J, q, d, s \in U, cur)
                              <=> CopyInv(c, s, J, q, d, TRUE, cur)
           /\ s \notin U => /\ ServerInv(c, s, J, q, d, s \in U)
                                 <=> ServerInv(c, s, J, q, d, FALSE)
                            /\ CopyInv(c, s, J, q, d, s \in U, cur)
                                 <=> CopyInv(c, s, J, q, d, FALSE, cur)
<1>1. /\ s \in U => (ServerInv(c, s, J, q, d, s \in U) <=> ServerInv(c, s, J, q, d, TRUE))
      /\ s \notin U => (ServerInv(c, s, J, q, d, s \in U) <=> ServerInv(c, s, J, q, d, FALSE))
  BY ZenonT(30) DEF ServerInv
<1>2. s \in U => (CopyInv(c, s, J, q, d, s \in U, cur) <=> CopyInv(c, s, J, q, d, TRUE, cur))
  BY ZenonT(30) DEF CopyInv, Holding, Writing
<1>3. s \notin U => (CopyInv(c, s, J, q, d, s \in U, cur) <=> CopyInv(c, s, J, q, d, FALSE, cur))
  BY ZenonT(30) DEF CopyInv, Holding, Writing
<1>4. QED
  BY ZenonT(30), <1>1, <1>2, <1>3

\* The connection is lost.
LEMMA Leaves ==
    ASSUME NEW c \in ChunkType, NEW s \in Server, NEW J \in SUBSET Job,
           NEW q \in Seq(Packet), NEW d \in Nat, NEW cur, NEW r \in Seq(Packet),
           \A i \in DOMAIN r : r[i].op \in {"damaged", "lost"}
    PROVE  /\ ServerInv(c, s, J, q, d, TRUE) => ServerInv(c, s, {}, r, d, FALSE)
           /\ CopyInv(c, s, J, q, d, TRUE, cur) => CopyInv(c, s, {}, r, d, FALSE, cur)
<1>1. Replications({}, r) = {} /\ OperationJobs({}) = {} /\ NoCommand({}, r)
      /\ ~Pending(r, "delete")
  BY ZenonT(30) DEF Replications, OperationJobs, NoCommand, Pending, LoopCommand
<1>2. ServerInv(c, s, J, q, d, TRUE) => ServerInv(c, s, {}, r, d, FALSE)
  BY ZenonT(30), <1>1 DEF ServerInv, Bounds, OneCommand, Once, CreatesFirst, ReplicaIsThere, LoopCommand
<1>3. ASSUME CopyInv(c, s, J, q, d, TRUE, cur)
      PROVE  CopyInv(c, s, {}, r, d, FALSE, cur)
  <2>1. Holding(c, s, r, d, FALSE, cur) /\ Writing(c, s, d, FALSE)
    BY ZenonT(30), <1>3 DEF CopyInv, Holding, Writing
  <2>2. Increase(c, s, {}, r, d)
    BY ZenonT(30), <1>1, <1>3 DEF CopyInv, Increase
  <2>3. QED
    BY ZenonT(30), <2>1, <2>2 DEF CopyInv
<1>4. QED
  BY ZenonT(30), <1>2, <1>3

\* A step of one chunkserver.
LEMMA ServerSteps ==
    ASSUME ChunkIndInv, NEW s \in Server, Types',
           chunk' = chunk, dropped' = dropped,
           \A t \in Server \ {s} :
              /\ jobs'[t] = jobs[t] /\ replies'[t] = replies[t] /\ disk'[t] = disk[t]
              /\ t \in conn' <=> t \in conn
              /\ t \in current' <=> t \in current,
           Fresh(chunk, jobs', replies', current'),
           ServerInv(chunk, s, jobs'[s], replies'[s], disk'[s], s \in conn'),
           dropped = {} => CopyInv(chunk, s, jobs'[s], replies'[s], disk'[s],
                                   s \in conn', current')
    PROVE  ChunkIndInv'
<1>1. \A t \in Server \ {s} :
        ServerInv(chunk, t, jobs'[t], replies'[t], disk'[t], t \in conn')
  BY ZenonT(30), UpOrDown DEF ChunkIndInv, DiskInv
<1>2. ASSUME dropped = {}, NEW t \in Server \ {s}
      PROVE  CopyInv(chunk, t, jobs'[t], replies'[t], disk'[t], t \in conn', current')
  <2>1. CopyInv(chunk, t, jobs[t], replies[t], disk[t], t \in conn, current)
    BY ZenonT(30), <1>2 DEF ChunkIndInv
  <2>2. Holding(chunk, t, replies[t], disk[t], t \in conn, current)
          => Holding(chunk, t, replies[t], disk[t], t \in conn', current')
    BY ZenonT(30) DEF Holding
  <2>3. Writing(chunk, t, disk[t], t \in conn) => Writing(chunk, t, disk[t], t \in conn')
    BY ZenonT(30) DEF Writing
  <2>4. QED
    BY ZenonT(30), <2>1, <2>2, <2>3 DEF CopyInv
<1>3. DiskInv'
  BY ZenonT(30), <1>1 DEF ChunkIndInv, DiskInv
<1>4. QED
  BY ZenonT(30), <1>2, <1>3 DEF ChunkIndInv

\* What is known of a chunkserver that has a job or a copy.
LEMMA ServerFacts ==
    ASSUME ChunkIndInv, NEW s \in Server
    PROVE  /\ chunk \in ChunkType /\ chunk.version \in Nat
           /\ jobs[s] \in SUBSET Job /\ replies[s] \in Seq(Packet)
           /\ disk[s] \in Nat /\ ChunkInv(chunk)
           /\ jobs[s] # {} => s \in conn
           /\ jobs[s] # {} \/ disk[s] # 0 => chunk.version # 0
           /\ s \in conn => /\ ServerInv(chunk, s, jobs[s], replies[s], disk[s], TRUE)
                            /\ dropped = {} =>
                                  CopyInv(chunk, s, jobs[s], replies[s], disk[s], TRUE, current)
           /\ dropped = {} => OperationInv(chunk)
<1>1. Types /\ ChunkInv(chunk) /\ Fresh(chunk, jobs, replies, current)
      /\ ServerInv(chunk, s, jobs[s], replies[s], disk[s], s \in conn)
  BY ZenonT(30) DEF ChunkIndInv, DiskInv
<1>2. /\ chunk \in ChunkType /\ chunk.version \in Nat
      /\ jobs[s] \in SUBSET Job /\ replies[s] \in Seq(Packet) /\ disk[s] \in Nat
  BY ZenonT(30), <1>1 DEF Types, ChunkType
<1>3. jobs[s] # {} => s \in conn
  BY ZenonT(30), <1>1 DEF ServerInv
<1>4. disk[s] <= chunk.version
  BY ZenonT(30), <1>1 DEF ServerInv, Bounds
<1>5. jobs[s] # {} \/ disk[s] # 0 => chunk.version # 0
  BY SMTT(30), <1>1, <1>2, <1>4 DEF Fresh
<1>6. s \in conn => ServerInv(chunk, s, jobs[s], replies[s], disk[s], TRUE)
  BY ZenonT(30), <1>1, UpOrDown
<1>7. ASSUME dropped = {}
      PROVE  OperationInv(chunk)
             /\ (s \in conn => CopyInv(chunk, s, jobs[s], replies[s], disk[s], TRUE, current))
  BY ZenonT(30), <1>7, UpOrDown DEF ChunkIndInv
<1>8. QED
  BY ZenonT(30), <1>1, <1>2, <1>3, <1>5, <1>6, <1>7

\* A job is answered.
LEMMA AnswerSteps ==
    ASSUME ChunkIndInv, NEW s \in Server, NEW K \in SUBSET jobs[s],
           s \in conn, chunk.version # 0,
           NEW p \in Packet, NEW e \in Nat,
           jobs' = [jobs EXCEPT ![s] = K],
           replies' = [replies EXCEPT ![s] = Append(@, p)],
           disk' = [disk EXCEPT ![s] = e],
           UNCHANGED <<chunk, conn, dropped, requests>>, faults' \in Nat,
           current' \subseteq Server,
           \A t \in Server \ {s} : t \in current' <=> t \in current,
           ServerInv(chunk, s, K, Append(replies[s], p), e, TRUE),
           dropped = {} => CopyInv(chunk, s, K, Append(replies[s], p), e, TRUE, current')
    PROVE  ChunkIndInv'
<1>1. Types
  BY ZenonT(30) DEF ChunkIndInv, DiskInv
<1>2. Append(replies[s], p) \in Seq(Packet) /\ K \in SUBSET Job
  BY ZenonT(30), <1>1, Sends DEF Types
<1>3. jobs'[s] = K /\ replies'[s] = Append(replies[s], p) /\ disk'[s] = e
  BY ZenonT(30), <1>1 DEF Types
<1>4. \A t \in Server \ {s} :
        jobs'[t] = jobs[t] /\ replies'[t] = replies[t] /\ disk'[t] = disk[t]
  BY ZenonT(30), <1>1 DEF Types
<1>5. jobs' \in [Server -> SUBSET Job] /\ disk' \in [Server -> Nat]
      /\ replies' \in [Server -> Seq(Packet)]
  BY ZenonT(30), <1>1, <1>2 DEF Types
<1>6. Types'
  BY ZenonT(30), <1>1, <1>5 DEF Types
<1>7. ServerInv(chunk, s, K, Append(replies[s], p), e, s \in conn')
      /\ (dropped = {} => CopyInv(chunk, s, K, Append(replies[s], p), e, s \in conn', current'))
  BY ZenonT(30), UpOrDown
<1>8. Fresh(chunk, jobs', replies', current')
  BY ZenonT(30) DEF Fresh
<1>9. QED
  BY ZenonT(30), <1>3, <1>4, <1>6, <1>7, <1>8, ServerSteps

\* Executing an operation, or failing to.
LEMMA OperationSteps ==
    ASSUME ChunkIndInv, NEW s \in Server, NEW j \in jobs[s],
           ExecuteOperation(s, j) \/ FailOperation(s, j)
    PROVE  ChunkIndInv'
<1>. DEFINE K == jobs[s] \ {j}
<1>0. /\ chunk \in ChunkType /\ chunk.version \in Nat /\ ChunkInv(chunk)
      /\ jobs[s] \in SUBSET Job /\ replies[s] \in Seq(Packet) /\ disk[s] \in Nat
      /\ s \in conn /\ chunk.version # 0
      /\ ServerInv(chunk, s, jobs[s], replies[s], disk[s], TRUE)
      /\ dropped = {} => /\ OperationInv(chunk)
                         /\ CopyInv(chunk, s, jobs[s], replies[s], disk[s], TRUE, current)
  BY ZenonT(60), ServerFacts
<1>1. Types
  BY ZenonT(30) DEF ChunkIndInv, DiskInv
<1>2. j \in OperationJobs(jobs[s]) /\ j.to \in Nat /\ j.from \in Nat /\ j.to <= chunk.version
      /\ disk[s] <= chunk.version
  <2>1. j \in OperationJobs(jobs[s])
    BY ZenonT(30) DEF ExecuteOperation, FailOperation, OperationJobs
  <2>2. QED
    BY ZenonT(30), <1>0, <2>1, JobFields DEF ServerInv, Bounds
<1>3. K \in SUBSET jobs[s] /\ jobs' = [jobs EXCEPT ![s] = K]
      /\ chunk' = chunk /\ conn' = conn /\ dropped' = dropped /\ requests' = requests
      /\ faults' \in Nat /\ current' = current /\ current' \subseteq Server
  <2>1. CASE ExecuteOperation(s, j)
    BY ZenonT(30), <1>1, <2>1 DEF ExecuteOperation, Done, Types
  <2>2. CASE FailOperation(s, j)
    BY <1>1, <2>2 DEF FailOperation, Done, Fault, Types
  <2>3. QED
    BY ZenonT(30), <2>1, <2>2
<1>4. ASSUME NEW ok \in BOOLEAN, NEW e \in Nat, Reply(s, "status", ok, j.to),
             disk' = [disk EXCEPT ![s] = e], ok => disk[s] = j.from /\ e = j.to,
             e <= chunk.version
      PROVE  ChunkIndInv'
  <2>. DEFINE p == [op |-> "status", ok |-> ok, version |-> j.to]
  <2>1. p \in Packet /\ p.op = "status" /\ p.ok = ok /\ p.op \notin LoopCommand
    BY ZenonT(30), <1>2 DEF Packet, LoopCommand
  <2>2. replies' = [replies EXCEPT ![s] = Append(@, p)]
    BY ZenonT(30), <1>4 DEF Reply
  <2>3. ASSUME ok
        PROVE  ServerInv(chunk, s, K, Append(replies[s], p), e, TRUE)
    <3>1. p = [op |-> "status", ok |-> TRUE, version |-> j.to] /\ e = j.to
      BY ZenonT(30), <1>4, <2>3
    <3>. HIDE DEF p
    <3>2. disk[s] = j.from
      BY ZenonT(30), <1>4, <2>3
    <3>3. ServerInv(chunk, s, jobs[s] \ {j},
                    Append(replies[s], [op |-> "status", ok |-> TRUE, version |-> j.to]),
                    j.to, TRUE)
      BY ZenonT(30), <1>0, <1>2, <3>2, FinishesOperation
    <3>4. QED
      BY ZenonT(30), <3>1, <3>3
  <2>. HIDE DEF p
  <2>4. ASSUME ~ok
        PROVE  ServerInv(chunk, s, K, Append(replies[s], p), e, TRUE)
    <3>1. BadNews(p, e)
      BY ZenonT(30), <2>1, <2>4 DEF BadNews
    <3>2. K \in SUBSET jobs[s] /\ \E k \in jobs[s] : K = jobs[s] \ {k}
      BY ZenonT(30)
    <3>. HIDE DEF K
    <3>3. QED
      BY ZenonT(30), <1>0, <1>4, <2>1, <3>1, <3>2, TellsBadNews
  <2>5. ServerInv(chunk, s, K, Append(replies[s], p), e, TRUE)
    BY ZenonT(30), <2>3, <2>4
  <2>6. dropped = {} => CopyInv(chunk, s, K, Append(replies[s], p), e, TRUE, current)
    BY ZenonT(30), <1>0, <1>2, <2>1, AnswersOperation
  <2>. HIDE DEF K
  <2>7. QED
    BY ZenonT(30), <1>0, <1>3, <1>4, <2>1, <2>2, <2>5, <2>6, AnswerSteps
<1>5. disk = [disk EXCEPT ![s] = disk[s]]
  BY ZenonT(30), <1>1 DEF Types
<1>6. CASE ExecuteOperation(s, j)
  <2>1. CASE disk[s] = j.from
    <3>1. Reply(s, "status", TRUE, j.to) /\ disk' = [disk EXCEPT ![s] = j.to]
      BY ZenonT(30), <1>6, <2>1 DEF ExecuteOperation, Reply
    <3>2. QED
      BY ZenonT(30), <1>2, <1>4, <2>1, <3>1
  <2>2. CASE disk[s] # j.from
    <3>1. Reply(s, "status", FALSE, j.to) /\ disk' = [disk EXCEPT ![s] = disk[s]]
      BY ZenonT(30), <1>5, <1>6, <2>2 DEF ExecuteOperation, Reply
    <3>2. QED
      BY ZenonT(30), <1>0, <1>2, <1>4, <2>2, <3>1
  <2>3. QED
    BY ZenonT(30), <2>1, <2>2
<1>7. CASE FailOperation(s, j)
  <2>1. Reply(s, "status", FALSE, j.to)
    BY ZenonT(30), <1>7 DEF FailOperation
  <2>2. \E e \in {disk[s], j.to} : disk' = [disk EXCEPT ![s] = e]
    BY ZenonT(30), <1>1, <1>5, <1>7 DEF FailOperation, Types
  <2>3. QED
    BY ZenonT(30), <1>0, <1>2, <1>4, <2>1, <2>2
<1>8. QED
  BY ZenonT(30), <1>6, <1>7

\* Executing a command of the loop.
LEMMA CommandSteps ==
    ASSUME ChunkIndInv, NEW s \in Server, NEW j \in jobs[s],
           ExecuteDelete(s, j) \/ ExecuteReplicate(s, j)
    PROVE  ChunkIndInv'
<1>. DEFINE K == jobs[s] \ {j}
<1>0. /\ chunk \in ChunkType /\ chunk.version \in Nat /\ ChunkInv(chunk)
      /\ jobs[s] \in SUBSET Job /\ replies[s] \in Seq(Packet) /\ disk[s] \in Nat
      /\ s \in conn /\ chunk.version # 0
      /\ ServerInv(chunk, s, jobs[s], replies[s], disk[s], TRUE)
      /\ dropped = {} => /\ OperationInv(chunk)
                         /\ CopyInv(chunk, s, jobs[s], replies[s], disk[s], TRUE, current)
  BY ZenonT(30), ServerFacts
<1>1. Types
  BY ZenonT(30) DEF ChunkIndInv, DiskInv
<1>2. K \in SUBSET jobs[s] /\ (\E k \in jobs[s] : K = jobs[s] \ {k})
      /\ jobs' = [jobs EXCEPT ![s] = K]
      /\ chunk' = chunk /\ conn' = conn /\ dropped' = dropped /\ requests' = requests
      /\ faults' \in Nat
  BY ZenonT(30), <1>1 DEF ExecuteDelete, ExecuteReplicate, Done, Types
<1>3. j.op \in LoopCommand /\ j.from \in Nat
  BY ZenonT(30), <1>0, JobFields DEF ExecuteDelete, ExecuteReplicate, LoopCommand
<1>4. s \notin Valid(chunk) /\ NoCommand(K, replies[s])
      /\ OperationJobs(K) = OperationJobs(jobs[s])
  BY ZenonT(30), <1>0, <1>3, CommandAlone
<1>5. disk = [disk EXCEPT ![s] = disk[s]] /\ current \subseteq Server
  BY ZenonT(30), <1>1 DEF Types
<1>. HIDE DEF K
<1>6. ASSUME NEW p \in Packet, p.op \in LoopCommand, ~(p.op = "replicate" /\ p.ok),
             p.op = "delete" /\ disk[s] # 0 /\ dropped = {} => chunk.needVersionIncrease,
             replies' = [replies EXCEPT ![s] = Append(@, p)],
             disk' = disk, current' = current
      PROVE  ChunkIndInv'
  <2>1. ServerInv(chunk, s, K, Append(replies[s], p), disk[s], TRUE)
    BY ZenonT(30), <1>0, <1>2, <1>3, <1>4, <1>6, KeepsDisk
  <2>2. p.op # "status"
    BY ZenonT(30), <1>6 DEF LoopCommand
  <2>3. dropped = {} => CopyInv(chunk, s, K, Append(replies[s], p), disk[s], TRUE, current)
    BY ZenonT(30), <1>0, <1>2, <1>4, <1>6, <2>2, AnswersLess
  <2>4. QED
    BY ZenonT(30), <1>0, <1>2, <1>5, <1>6, <2>1, <2>3, AnswerSteps
<1>7. CASE ExecuteDelete(s, j)
  <2>. DEFINE p == [op |-> "delete", ok |-> TRUE, version |-> 0]
  <2>1. p \in Packet /\ p.op = "delete" /\ replies' = [replies EXCEPT ![s] = Append(@, p)]
        /\ p.op = j.op /\ current' = current
    BY ZenonT(30), <1>7 DEF ExecuteDelete, Reply, Packet
  <2>. HIDE DEF p
  <2>2. CASE j.from \in {0, disk[s]}
    <3>1. disk' = [disk EXCEPT ![s] = 0]
      BY ZenonT(30), <1>7, <2>2 DEF ExecuteDelete
    <3>2. ServerInv(chunk, s, K, Append(replies[s], p), 0, TRUE)
      BY ZenonT(30), <1>0, <1>3, <2>1, ReplacesCopy DEF K
    <3>3. p.op # "status" /\ ~(p.op = "replicate" /\ p.ok) /\ 0 \in {0, disk[s]}
      BY ZenonT(30), <2>1
    <3>4. dropped = {} => CopyInv(chunk, s, K, Append(replies[s], p), 0, TRUE, current)
      BY ZenonT(30), <1>0, <1>2, <1>4, <2>1, <3>3, AnswersLess
    <3>5. QED
      BY ZenonT(60), <1>0, <1>2, <1>5, <2>1, <3>1, <3>2, <3>4, AnswerSteps
  <2>3. CASE j.from \notin {0, disk[s]}
    <3>1. disk' = disk
      BY ZenonT(30), <1>7, <2>3 DEF ExecuteDelete
    <3>2. dropped = {} => chunk.needVersionIncrease
      BY ZenonT(30), <1>0, <2>1, <2>3 DEF CopyInv, Increase, OperationInv
    <3>3. QED
      BY ZenonT(60), <1>6, <2>1, <3>1, <3>2 DEF LoopCommand
  <2>4. QED
    BY ZenonT(30), <2>2, <2>3
<1>8. CASE ExecuteReplicate(s, j)
  <2>1. CASE Reply(s, "replicate", FALSE, j.from) /\ UNCHANGED <<disk, current>>
    <3>. DEFINE p == [op |-> "replicate", ok |-> FALSE, version |-> j.from]
    <3>1. p \in Packet /\ p.op = "replicate" /\ ~p.ok
          /\ replies' = [replies EXCEPT ![s] = Append(@, p)]
      BY ZenonT(30), <1>3, <2>1 DEF Reply, Packet
    <3>. HIDE DEF p
    <3>2. QED
      BY ZenonT(30), <1>6, <2>1, <3>1 DEF LoopCommand
  <2>2. ASSUME NEW source \in j.sources, disk[source] = j.from,
               disk' = [disk EXCEPT ![s] = j.from],
               current' = IF source \in current THEN current \cup {s} ELSE current \ {s},
               Reply(s, "replicate", TRUE, j.from)
        PROVE  ChunkIndInv'
    <3>. DEFINE p == [op |-> "replicate", ok |-> TRUE, version |-> j.from]
    <3>1. p \in Packet /\ p.op = "replicate" /\ p.version = j.from
          /\ replies' = [replies EXCEPT ![s] = Append(@, p)]
          /\ p.op = j.op
      BY ZenonT(30), <1>3, <1>8, <2>2 DEF Reply, Packet, ExecuteReplicate
    <3>. HIDE DEF p
    <3>2. ServerInv(chunk, s, K, Append(replies[s], p), j.from, TRUE)
      BY ZenonT(60), <1>0, <1>3, <3>1, ReplacesCopy DEF K
    <3>3. ASSUME dropped = {}, j.from = chunk.version
          PROVE  s \in current'
      <4>1. source \in Server
        BY ZenonT(30), <1>0, <3>1, JobFields
      <4>2. source \in current
        BY ZenonT(60), <2>2, <3>3, <4>1 DEF ChunkIndInv, CopyInv, Holding
      <4>3. QED
        BY ZenonT(30), <2>2, <4>2
    <3>4. dropped = {} => CopyInv(chunk, s, K, Append(replies[s], p), j.from, TRUE, current')
      BY ZenonT(30), <1>0, <3>1, <3>3, MakesCopy DEF K
    <3>5. current' \subseteq Server /\ \A t \in Server \ {s} : t \in current' <=> t \in current
      BY ZenonT(30), <1>5, <2>2
    <3>6. QED
      BY ZenonT(60), <1>0, <1>2, <1>3, <2>2, <3>1, <3>2, <3>4, <3>5, AnswerSteps
  <2>3. QED
    BY ZenonT(30), <1>8, <2>1, <2>2 DEF ExecuteReplicate
<1>9. QED
  BY ZenonT(30), <1>7, <1>8

\* A damaged or lost copy is found.
LEMMA FindSteps ==
    ASSUME ChunkIndInv, NEW s \in Server, FindDamaged(s) \/ FindLost(s)
    PROVE  ChunkIndInv'
<1>1. Types /\ s \in conn /\ disk[s] # 0
  BY ZenonT(30) DEF ChunkIndInv, DiskInv, FindDamaged, FindLost
<1>2. /\ chunk \in ChunkType /\ chunk.version \in Nat /\ ChunkInv(chunk)
      /\ jobs[s] \in SUBSET Job /\ replies[s] \in Seq(Packet) /\ disk[s] \in Nat
      /\ chunk.version # 0
      /\ ServerInv(chunk, s, jobs[s], replies[s], disk[s], TRUE)
      /\ dropped = {} => CopyInv(chunk, s, jobs[s], replies[s], disk[s], TRUE, current)
  BY ZenonT(30), <1>1, ServerFacts
<1>3. jobs = [jobs EXCEPT ![s] = jobs[s]] /\ disk = [disk EXCEPT ![s] = disk[s]]
      /\ current \subseteq Server /\ faults \in Nat
  BY ZenonT(30), <1>1 DEF Types
<1>4. /\ jobs' = [jobs EXCEPT ![s] = jobs[s]] /\ jobs[s] \in SUBSET jobs[s]
      /\ chunk' = chunk /\ conn' = conn /\ dropped' = dropped /\ requests' = requests
      /\ faults' \in Nat /\ current' = current
  <2>1. jobs' = jobs /\ chunk' = chunk /\ conn' = conn /\ dropped' = dropped
        /\ requests' = requests /\ faults' = faults + 1 /\ current' = current
    BY ZenonT(30) DEF FindDamaged, FindLost, Fault
  <2>2. QED
    BY SMTT(30), <1>3, <2>1
<1>5. ASSUME NEW op \in {"damaged", "lost"}, NEW e \in {0, disk[s]},
             op = "damaged" => e = disk[s], op = "lost" => e = 0,
             Reply(s, op, TRUE, 0), disk' = [disk EXCEPT ![s] = e]
      PROVE  ChunkIndInv'
  <2>. DEFINE p == [op |-> op, ok |-> TRUE, version |-> 0]
  <2>1. p \in Packet /\ p.op \notin LoopCommand /\ p.op # "status" /\ p.op # "replicate"
        /\ p.op # "delete" /\ p.op = op
    BY ZenonT(30) DEF Packet, LoopCommand
  <2>2. replies' = [replies EXCEPT ![s] = Append(@, p)]
    BY ZenonT(30), <1>5 DEF Reply
  <2>. HIDE DEF p
  <2>3. ServerInv(chunk, s, jobs[s], Append(replies[s], p), e, TRUE)
    <3>1. CASE op = "damaged"
      BY ZenonT(30), <1>1, <1>2, <1>4, <1>5, <2>1, <3>1, KeepsDisk
    <3>2. CASE op = "lost"
      <4>1. BadNews(p, e) /\ e <= chunk.version /\ e \in Nat
        BY SMTT(60), <1>2, <1>5, <2>1, <3>2 DEF BadNews
      <4>2. QED
        BY ZenonT(60), <1>1, <1>2, <1>4, <2>1, <4>1, TellsBadNews
    <3>3. QED
      BY ZenonT(30), <3>1, <3>2
  <2>4. ASSUME dropped = {}
        PROVE  CopyInv(chunk, s, jobs[s], Append(replies[s], p), e, TRUE, current)
    <3>1. CopyInv(chunk, s, jobs[s], replies[s], disk[s], TRUE, current)
      BY ZenonT(30), <1>2, <2>4
    <3>2. 0 \in {0, disk[s]} /\ disk[s] \in {0, disk[s]} /\ ~(p.op = "replicate" /\ p.ok)
      BY ZenonT(30), <2>1
    <3>3. CopyInv(chunk, s, jobs[s], Append(replies[s], p), 0, TRUE, current)
          /\ CopyInv(chunk, s, jobs[s], Append(replies[s], p), disk[s], TRUE, current)
      BY ZenonT(30), <1>2, <1>4, <2>1, <3>1, <3>2, AnswersLess
    <3>4. QED
      BY ZenonT(30), <3>3
  <2>5. e \in Nat
    BY SMTT(60), <1>2
  <2>6. QED
    BY ZenonT(30), <1>1, <1>2, <1>3, <1>4, <1>5, <2>1, <2>2, <2>3, <2>4, <2>5, AnswerSteps
<1>6. CASE FindDamaged(s)
  <2>1. Reply(s, "damaged", TRUE, 0) /\ disk' = [disk EXCEPT ![s] = disk[s]]
    BY ZenonT(30), <1>3, <1>6 DEF FindDamaged
  <2>2. QED
    BY ZenonT(30), <1>5, <2>1
<1>7. CASE FindLost(s)
  <2>1. Reply(s, "lost", TRUE, 0) /\ disk' = [disk EXCEPT ![s] = 0]
    BY ZenonT(30), <1>7 DEF FindLost
  <2>2. QED
    BY ZenonT(30), <1>5, <2>1
<1>8. QED
  BY ZenonT(30), <1>6, <1>7

\* A connection is lost.
LEMMA DisconnectSteps ==
    ASSUME ChunkIndInv, NEW s \in Server, Disconnect(s)
    PROVE  ChunkIndInv'
\* The reports that are left.
<1>ReportsLeft.
    ASSUME NEW kept
    PROVE  /\ Report("damaged", kept) \o Report("lost", kept) \in Seq(Packet)
           /\ \A i \in DOMAIN (Report("damaged", kept) \o Report("lost", kept)) :
                (Report("damaged", kept) \o Report("lost", kept))[i].op \in {"damaged", "lost"}
           /\ kept = {} => Report("damaged", kept) \o Report("lost", kept) = <<>>
  <2> USE <1>ReportsLeft
  <2>. DEFINE x == [op |-> "damaged", ok |-> TRUE, version |-> 0]
              y == [op |-> "lost", ok |-> TRUE, version |-> 0]
  <2>1. x \in Packet /\ y \in Packet /\ x.op = "damaged" /\ y.op = "lost"
    BY ZenonT(30) DEF Packet
  <2>. HIDE DEF x, y
  <2>2. Report("damaged", kept) = (IF "damaged" \in kept THEN <<x>> ELSE <<>>)
        /\ Report("lost", kept) = (IF "lost" \in kept THEN <<y>> ELSE <<>>)
    BY ZenonT(30) DEF Report, x, y
  <2>. DEFINE R(q) == q \in Seq(Packet) /\ \A i \in DOMAIN q : q[i].op \in {"damaged", "lost"}
  <2>3. R(<<x>>) /\ R(<<y>>) /\ R(<<>>)
    BY <2>1
  <2>4. \A a, b : R(a) /\ R(b) => R(a \o b)
    <3>1. SUFFICES ASSUME NEW a, NEW b, R(a), R(b)
                   PROVE  R(a \o b)
      BY ZenonT(30)
    <3>2. /\ a \o b \in Seq(Packet) /\ Len(a) \in Nat /\ Len(b) \in Nat
          /\ DOMAIN (a \o b) = 1..(Len(a) + Len(b)) /\ DOMAIN a = 1..Len(a) /\ DOMAIN b = 1..Len(b)
          /\ \A i \in 1..(Len(a) + Len(b)) :
               (a \o b)[i] = IF i <= Len(a) THEN a[i] ELSE b[i - Len(a)]
      BY <3>1
    <3>3. ASSUME NEW i \in DOMAIN (a \o b) PROVE (a \o b)[i].op \in {"damaged", "lost"}
      <4>1. CASE i <= Len(a)
        BY <3>1, <3>2, <4>1
      <4>2. CASE ~(i <= Len(a))
        <5>1. i - Len(a) \in DOMAIN b /\ (a \o b)[i] = b[i - Len(a)]
          BY <3>2, <4>2
        <5>2. QED
          BY ZenonT(30), <3>1, <5>1
      <4>3. QED
        BY ZenonT(30), <4>1, <4>2
    <3>4. QED
      BY ZenonT(30), <3>2, <3>3
  <2>5. R(Report("damaged", kept)) /\ R(Report("lost", kept))
    BY ZenonT(30), <2>2, <2>3
  <2>6. R(Report("damaged", kept) \o Report("lost", kept))
    BY ZenonT(30), <2>4, <2>5
  <2>7. kept = {} => Report("damaged", kept) \o Report("lost", kept) = <<>>
    BY <2>2
  <2>8. QED
    BY ZenonT(30), <2>6, <2>7
<1>1. Types /\ Fresh(chunk, jobs, replies, current)
  BY ZenonT(30) DEF ChunkIndInv, DiskInv
<1>2. s \in conn /\ conn' = conn \ {s} /\ jobs' = [jobs EXCEPT ![s] = {}]
      /\ chunk' = chunk /\ disk' = disk /\ current' = current /\ dropped' = dropped
      /\ requests' = requests /\ faults' \in Nat
  BY SMTT(30), <1>1 DEF Disconnect, Fault, Types
<1>3. PICK kept \in SUBSET {op \in {"damaged", "lost"} : Pending(replies[s], op)} :
        replies' = [replies EXCEPT ![s] = Report("damaged", kept) \o Report("lost", kept)]
  BY ZenonT(30) DEF Disconnect
<1>. DEFINE r == Report("damaged", kept) \o Report("lost", kept)
<1>4. r \in Seq(Packet) /\ (\A i \in DOMAIN r : r[i].op \in {"damaged", "lost"})
      /\ (kept = {} => r = <<>>) /\ replies' = [replies EXCEPT ![s] = r]
  BY ZenonT(30), <1>3, <1>ReportsLeft
<1>. HIDE DEF r
<1>5. /\ chunk \in ChunkType /\ jobs[s] \in SUBSET Job /\ replies[s] \in Seq(Packet)
      /\ disk[s] \in Nat
      /\ ServerInv(chunk, s, jobs[s], replies[s], disk[s], TRUE)
      /\ dropped = {} => CopyInv(chunk, s, jobs[s], replies[s], disk[s], TRUE, current)
  BY ZenonT(30), <1>2, ServerFacts
<1>6. /\ ServerInv(chunk, s, {}, r, disk[s], FALSE)
      /\ dropped = {} => CopyInv(chunk, s, {}, r, disk[s], FALSE, current)
  BY ZenonT(60), <1>4, <1>5, Leaves
<1>7. /\ ServerInv(chunk, s, {}, r, disk[s], s \in conn')
      /\ dropped = {} => CopyInv(chunk, s, {}, r, disk[s], s \in conn', current)
  BY ZenonT(30), <1>2, <1>6, UpOrDown
<1>8. jobs'[s] = {} /\ replies'[s] = r
      /\ \A t \in Server \ {s} : jobs'[t] = jobs[t] /\ replies'[t] = replies[t]
  BY ZenonT(30), <1>1, <1>2, <1>4 DEF Types
<1>9. jobs' \in [Server -> SUBSET Job] /\ replies' \in [Server -> Seq(Packet)]
  BY ZenonT(30), <1>1, <1>2, <1>4 DEF Types
<1>10. Types'
  BY ZenonT(30), <1>1, <1>2, <1>9 DEF Types
<1>11. Fresh(chunk, jobs', replies', current')
  <2>1. SUFFICES ASSUME chunk.version = 0
                 PROVE  \A t \in Server : jobs'[t] = {} /\ replies'[t] = <<>>
    BY ZenonT(30), <1>1, <1>2 DEF Fresh
  <2>2. \A t \in Server : jobs[t] = {} /\ replies[t] = <<>>
    BY ZenonT(30), <1>1, <2>1 DEF Fresh
  <2>3. kept = {}
    BY SMTT(30), <2>2 DEF Pending
  <2>4. QED
    BY ZenonT(30), <1>4, <1>8, <2>2, <2>3
<1>12. \A t \in Server \ {s} : t \in conn' <=> t \in conn
  BY ZenonT(30), <1>2
<1>13. QED
  BY ZenonT(60), <1>2, <1>7, <1>8, <1>10, <1>11, <1>12, ServerSteps

-----------------------------------------------------------------------------
(* What the master does to the chunk, seen by one chunkserver.  The lemmas *)
(* name the fields that matter, c before and m after the step.             *)

\* The versions of copies that are made are numbers.
LEMMA ReplicationVersions ==
    ASSUME NEW J \in SUBSET Job, NEW q \in Seq(Packet)
    PROVE  Replications(J, q) \subseteq Nat
<1>1. \A i \in DOMAIN q : q[i] \in Packet
  OBVIOUS
<1>2. \A p \in Packet : p.version \in Nat
  BY ZenonT(30) DEF Packet
<1>3. \A j \in J : j.from \in Nat
  BY ZenonT(30), JobFields
<1>4. QED
  BY ZenonT(30), <1>1, <1>2, <1>3 DEF Replications

\* The copy of a chunkserver, as the master sees it.
LEMMA PartSets ==
    ASSUME NEW c, NEW s \in Server
    PROVE  /\ s \in Valid(c) <=> c.parts[s].state \in {"busy", "valid"}
           /\ s \in Busy(c) <=> c.parts[s].state = "busy"
           /\ s \in Invalid(c) <=> c.parts[s].state \in {"invalid", "del"}
           /\ s \in Busy(c) => s \in Valid(c)
           /\ c.parts[s] = NoPart => s \notin Valid(c) /\ s \notin Busy(c) /\ s \notin Invalid(c)
BY SMTT(30) DEF Valid, Busy, Invalid, NoPart

\* Version and part stay as they are.
LEMMA SamePart ==
    ASSUME NEW c, NEW m, NEW s \in Server, NEW J, NEW q, NEW d, NEW U,
           m.version = c.version, m.parts[s] = c.parts[s], ServerInv(c, s, J, q, d, s \in U)
    PROVE  ServerInv(m, s, J, q, d, s \in U)
<1>1. (s \in Valid(m) <=> s \in Valid(c)) /\ (s \in Busy(m) <=> s \in Busy(c))
  BY ZenonT(30), PartSets
<1>2. Bounds(m, s, J, q, d) /\ CreatesFirst(m, s, J, q, d)
      /\ (s \in U => Truth(m, s, J, q, d))
  BY ZenonT(30), <1>1 DEF ServerInv, Bounds, CreatesFirst, Truth
<1>3. QED
  BY ZenonT(60), <1>1, <1>2 DEF ServerInv

\* The master receives a packet and changes the part of its sender, or not.
LEMMA ReceivePart ==
    ASSUME NEW c \in ChunkType, NEW m \in ChunkType, NEW s \in Server,
           NEW J \in SUBSET Job, NEW q \in Seq(Packet), NEW d \in Nat,
           ServerInv(c, s, J, q, d, TRUE), q # <<>>, m.version = c.version,
           m.parts[s].version <= m.version, m.parts[s].state = "none" => m.parts[s] = NoPart,
           s \in Valid(m) => NoCommand(J, Tail(q)) /\ Truth(m, s, J, Tail(q), d)
    PROVE  ServerInv(m, s, J, Tail(q), d, TRUE)
<1>. DEFINE r == Tail(q)
<1>1. /\ Once(q, LoopCommand) => Once(r, LoopCommand)
      /\ NoCommand({}, q) => NoCommand({}, r)
      /\ Replications(J, r) \subseteq Replications(J, q)
  BY ZenonT(30), ReceivedPackets
<1>2. /\ 1 \in DOMAIN q /\ q[1] = Head(q) /\ r \in Seq(Packet)
      /\ \A i \in DOMAIN r : i \in Nat /\ i + 1 \in DOMAIN q /\ r[i] = q[i + 1]
  BY ZenonT(30), Receives
<1>3. \A i \in DOMAIN q : i # 1 => i - 1 \in DOMAIN r /\ r[i - 1] = q[i]
  BY ZenonT(30), Receives
<1>. HIDE DEF r
<1>4. Bounds(m, s, J, r, d)
  BY ZenonT(60), <1>1 DEF ServerInv, Bounds
<1>5. OneCommand(J, r)
  BY ZenonT(60), <1>1 DEF ServerInv, OneCommand
<1>6. CreatesFirst(m, s, J, r, d)
  BY ZenonT(60) DEF ServerInv, CreatesFirst
<1>7. ReplicaIsThere(r, d)
  <2>1. SUFFICES ASSUME NEW i \in DOMAIN r, r[i].op = "replicate", r[i].ok, d # r[i].version
                 PROVE  \E k \in DOMAIN r : k > i /\ BadNews(r[k], d)
    BY ZenonT(30) DEF ReplicaIsThere
  <2>2. PICK k \in DOMAIN q : k > i + 1 /\ BadNews(q[k], d)
    BY ZenonT(30), <1>2, <2>1 DEF ServerInv, ReplicaIsThere
  <2>3. k \in Nat /\ i \in Nat /\ k # 1
    BY SMTT(30), <1>2, <2>2
  <2>4. k - 1 \in DOMAIN r /\ r[k - 1] = q[k] /\ k - 1 > i
    BY SMTT(30), <1>3, <2>2, <2>3
  <2>5. QED
    BY ZenonT(30), <2>2, <2>4
<1>8. QED
  BY ZenonT(30), <1>4, <1>5, <1>6, <1>7 DEF ServerInv, Truth, r

\* The command of a version move from c to m, and the jobs of s with it.
Command(c, m) == [op |-> m.operation, from |-> c.version, to |-> m.version]
Given(J, s, c, m, S) == IF s \in S THEN J \cup {Command(c, m)} ELSE J

\* The command of a version move.
LEMMA CommandFields ==
    ASSUME NEW c \in ChunkType, NEW m \in ChunkType, m.operation # "none",
           m.version = c.version + 1
    PROVE  /\ Command(c, m) \in Job /\ Command(c, m).op = m.operation
           /\ Command(c, m).op \in Operation /\ Command(c, m).op \notin LoopCommand
           /\ Command(c, m).op # "replicate" /\ Command(c, m).op # "delete"
           /\ Command(c, m).from = c.version /\ Command(c, m).to = c.version + 1
BY ZenonT(30) DEF ChunkType, Job, Operation, LoopCommand, Command

\* The jobs with it.
LEMMA GivenJobs ==
    ASSUME NEW c \in ChunkType, NEW m \in ChunkType, NEW s, NEW S,
           NEW J \in SUBSET Job, m.operation # "none", m.version = c.version + 1
    PROVE  /\ Given(J, s, c, m, S) \in SUBSET Job
           /\ OperationJobs(Given(J, s, c, m, S))
                = OperationJobs(J) \cup (IF s \in S THEN {Command(c, m)} ELSE {})
           /\ \A q : Replications(Given(J, s, c, m, S), q) = Replications(J, q)
<1>. DEFINE j == Command(c, m)
<1>1. j \in Job /\ j.op \in Operation /\ j.op # "replicate"
  BY ZenonT(30), CommandFields
<1>. HIDE DEF j
<1>2. Given(J, s, c, m, S) = IF s \in S THEN J \cup {j} ELSE J
  BY ZenonT(30) DEF Given, j
<1>3. Given(J, s, c, m, S) \in SUBSET Job
  BY ZenonT(30), <1>1, <1>2
<1>4. OperationJobs(Given(J, s, c, m, S))
        = OperationJobs(J) \cup (IF s \in S THEN {j} ELSE {})
  BY ZenonT(30), <1>1, <1>2 DEF OperationJobs
<1>5. \A q : Replications(Given(J, s, c, m, S), q) = Replications(J, q)
  BY ZenonT(30), <1>1, <1>2 DEF Replications
<1>6. QED
  BY ZenonT(30), <1>3, <1>4, <1>5 DEF j

\* Version move: all copies that count are told, and are connected.
LEMMA MovePart ==
    ASSUME NEW c \in ChunkType, NEW m \in ChunkType, NEW s \in Server,
           NEW J \in SUBSET Job, NEW q \in Seq(Packet), NEW d \in Nat, NEW U,
           ServerInv(c, s, J, q, d, s \in U), s \notin Busy(c),
           NEW S \in SUBSET Server, Valid(c) \subseteq S, s \in S => s \in U,
           c.version = 0 => J = {} /\ q = <<>>,
           s \in S \ Valid(c) => c.version = 0,
           m.version = c.version + 1,
           s \in S => m.parts[s].state = "busy" /\ m.parts[s].version = m.version,
           s \notin S => m.parts[s] = c.parts[s],
           m.operation # "none"
    PROVE  ServerInv(m, s, Given(J, s, c, m, S), q, d, s \in U)
<1>. DEFINE j == Command(c, m)
            K == Given(J, s, c, m, S)
<1>0. j = [op |-> m.operation, from |-> c.version, to |-> m.version]
      /\ K = IF s \in S THEN J \cup {j} ELSE J
  BY ZenonT(30) DEF Command, Given
<1>. HIDE DEF j, K
<1>1. /\ m.operation \in Operation /\ c.version \in Nat
      /\ j \in Job /\ j.op \in Operation /\ j.op \notin LoopCommand /\ j.op # "replicate"
      /\ j.from = c.version /\ j.to = c.version + 1
  BY ZenonT(30), CommandFields DEF ChunkType, j
<1>2. K \in SUBSET Job /\ Replications(K, q) = Replications(J, q)
      /\ OperationJobs(K) = OperationJobs(J) \cup (IF s \in S THEN {j} ELSE {})
  BY SMTT(60), GivenJobs DEF j, K
<1>3. (s \in Valid(m) <=> s \in S) /\ (s \in Busy(m) <=> s \in S)
  BY ZenonT(30), PartSets
<1>4. s \in S => NoCommand(J, q)
  BY SMTT(60) DEF ServerInv, NoCommand
<1>5. s \in S => Replications(J, q) = {}
  BY ZenonT(30), <1>4 DEF NoCommand, Replications, LoopCommand
<1>6. m.parts[s].version <= m.version /\ (m.parts[s].state = "none" => m.parts[s] = NoPart)
  <2>1. c.parts[s].version <= c.version /\ (c.parts[s].state = "none" => c.parts[s] = NoPart)
        /\ c.parts[s].version \in Nat
    BY ZenonT(30) DEF ServerInv, Bounds, ChunkType
  <2>2. QED
    BY SMTT(30), <1>1, <2>1
<1>7. Bounds(m, s, K, q, d)
  <2>1. d <= c.version /\ d <= m.version
    BY SMTT(60), <1>1 DEF ServerInv, Bounds
  <2>2. \A k \in OperationJobs(K) : k.to = k.from + 1 /\ k.to <= m.version
    <3>1. \A k \in OperationJobs(J) :
            k.to \in Nat /\ k.to = k.from + 1 /\ k.to <= c.version
      BY ZenonT(30), JobFields DEF ServerInv, Bounds
    <3>2. \A k \in OperationJobs(J) : k.to <= m.version
      BY SMTT(30), <1>1, <3>1
    <3>3. j.to = j.from + 1 /\ j.to <= m.version
      BY SMTT(30), <1>1
    <3>4. QED
      BY ZenonT(30), <1>2, <3>1, <3>2, <3>3
  <2>3. \A v \in Replications(K, q) :
          0 < v /\ v <= m.version /\ \A k \in OperationJobs(K) : k.from < v
    BY SMTT(60), <1>1, <1>2, <1>5, ReplicationVersions DEF ServerInv, Bounds
  <2>4. QED
    BY ZenonT(30), <1>6, <2>1, <2>2, <2>3 DEF Bounds
<1>8. OneCommand(K, q)
  BY ZenonT(30), <1>0, <1>1 DEF ServerInv, OneCommand
<1>9. s \in S => NoCommand(K, q)
  BY ZenonT(30), <1>0, <1>1, <1>4 DEF NoCommand
<1>10. \A k \in OperationJobs(J) : k.from # 0
  BY ZenonT(30) DEF ServerInv, CreatesFirst
<1>11. CreatesFirst(m, s, K, q, d)
  <2>1. SUFFICES ASSUME s \in S, c.version = 0
                 PROVE  K = {j} /\ q = <<>> /\ s \in Busy(m) /\ m.version = 1 /\ d = 0
    BY ZenonT(60), <1>1, <1>2, <1>10 DEF CreatesFirst
  <2>2. QED
    BY SMTT(60), <1>0, <1>1, <1>3, <2>1 DEF ServerInv, Bounds
<1>12. Truth(m, s, K, q, d)
  BY ZenonT(60), <1>1, <1>2, <1>3 DEF Truth
<1>13. ServerInv(m, s, K, q, d, s \in U)
  <2>1. s \notin U => K = J /\ J = {} /\ \A i \in DOMAIN q : q[i].op \in {"damaged", "lost"}
    BY ZenonT(60), <1>0 DEF ServerInv
  <2>2. ReplicaIsThere(q, d)
    BY ZenonT(30) DEF ServerInv
  <2>3. QED
    BY ZenonT(60), <1>3, <1>7, <1>8, <1>9, <1>11, <1>12, <2>1, <2>2 DEF ServerInv
<1>14. QED
  BY ZenonT(30), <1>13 DEF K

\* The part stays as it is while something else of the chunk changes: a
\* client goes, a flag is set, another part changes.
LEMMA SameCopy ==
    ASSUME NEW c, NEW m, NEW s \in Server, NEW J, NEW q, NEW d, NEW U, NEW cur,
           m.version = c.version, m.parts[s] = c.parts[s], m.operation = c.operation,
           m.session \in {c.session, NoSession}, m.inFile = c.inFile,
           ~m.needVersionIncrease => ~c.needVersionIncrease,
           ~m.interrupted => c.operation = "none" \/ ~c.interrupted,
           ~m.needVersionIncrease /\ m.operation = "none" /\ IsWritable(m) => IsWritable(c),
           CopyInv(c, s, J, q, d, s \in U, cur)
    PROVE  CopyInv(m, s, J, q, d, s \in U, cur)
<1>1. (s \in Valid(m) <=> s \in Valid(c)) /\ (s \in Busy(m) <=> s \in Busy(c))
  BY ZenonT(30), PartSets
<1>2. s \in U => OneStatus(m, s, J, q)
  BY ZenonT(30), <1>1 DEF CopyInv, OneStatus
<1>3. Holding(m, s, q, d, s \in U, cur) /\ Writing(m, s, d, s \in U)
  BY ZenonT(30), <1>1 DEF CopyInv, Holding, Writing
<1>4. Increase(m, s, J, q, d)
  BY ZenonT(30), <1>1 DEF CopyInv, Increase
<1>5. QED
  BY ZenonT(30), <1>2, <1>3, <1>4 DEF CopyInv

\* The master receives a packet and changes the part of its sender, or not.
LEMMA ReceiveCopy ==
    ASSUME NEW c \in ChunkType, NEW m \in ChunkType, NEW s \in Server,
           NEW J \in SUBSET Job, NEW q \in Seq(Packet), NEW d \in Nat, NEW cur,
           q # <<>>, CopyInv(c, s, J, q, d, TRUE, cur),
           m.version = c.version, m.operation = c.operation, m.session = c.session,
           m.inFile = c.inFile, ~m.needVersionIncrease => ~c.needVersionIncrease,
           s \in Busy(m) <=> s \in Busy(c) /\ Head(q).op # "status",
           s \in Valid(m) => s \in cur,
           s \in Valid(m) /\ m.session # NoSession => s \in m.session.locations,
           m.operation # "none" /\ ~m.interrupted /\ d = m.version => s \in Valid(m),
           ~m.needVersionIncrease /\ d = m.version =>
              /\ m.parts[s] # NoPart
              /\ m.operation = "none" /\ IsWritable(m) => s \in Valid(m)
    PROVE  CopyInv(m, s, J, Tail(q), d, TRUE, cur)
<1>. DEFINE r == Tail(q)
<1>1. /\ \A op : Pending(r, op) => Pending(q, op)
      /\ \A op : Pending(q, op) /\ Head(q).op # op => Pending(r, op)
      /\ Replications(J, r) \subseteq Replications(J, q)
  BY ZenonT(30), ReceivedPackets
<1>2. Once(q, {"status"}) => Once(r, {"status"})
  BY ZenonT(30), ReceivedPackets
<1>3. Once(q, {"status"}) /\ Head(q).op = "status" => ~Pending(r, "status") /\ Pending(q, "status")
  <2>1. Once(q, {"status"}) /\ Head(q).op \in {"status"}
          => \A i \in DOMAIN r : r[i].op \notin {"status"}
    BY ZenonT(30), ReceivedPackets
  <2>2. 1 \in DOMAIN q /\ q[1] = Head(q)
    BY ZenonT(30), Receives
  <2>3. QED
    BY ZenonT(30), <2>1, <2>2 DEF Pending
<1>4. \A i \in DOMAIN r : i + 1 \in DOMAIN q /\ r[i] = q[i + 1]
  BY ZenonT(30), Receives
<1>. HIDE DEF r
<1>5. OneStatus(m, s, J, r)
  BY ZenonT(30), <1>1, <1>2, <1>3 DEF CopyInv, OneStatus
<1>6. Holding(m, s, r, d, TRUE, cur) /\ Writing(m, s, d, TRUE)
  BY ZenonT(30), <1>4 DEF CopyInv, Holding, Writing
<1>7. Increase(m, s, J, r, d)
  BY ZenonT(30), <1>1 DEF CopyInv, Increase
<1>8. QED
  BY ZenonT(30), <1>5, <1>6, <1>7 DEF CopyInv, r

\* A version move: no copy has the new version yet.
LEMMA MoveCopy ==
    ASSUME NEW c \in ChunkType, NEW m \in ChunkType, NEW s \in Server,
           NEW J \in SUBSET Job, NEW q \in Seq(Packet), NEW d \in Nat, NEW U, NEW cur,
           ServerInv(c, s, J, q, d, s \in U), s \in U => OneStatus(c, s, J, q), s \notin Busy(c),
           NEW S, s \in S => s \in cur,
           m.version = c.version + 1, m.operation # "none", m.session = NoSession,
           \A k \in J : k.op = "delete" /\ k.from # 0 => ~m.inFile,
           s \in Valid(m) <=> s \in S, s \in Busy(m) <=> s \in S
    PROVE  CopyInv(m, s, Given(J, s, c, m, S), q, d, s \in U, cur)
<1>. DEFINE j == Command(c, m)
            K == Given(J, s, c, m, S)
<1>0. j = [op |-> m.operation, from |-> c.version, to |-> m.version]
      /\ K = IF s \in S THEN J \cup {j} ELSE J
  BY ZenonT(30) DEF Command, Given
<1>9. OperationJobs(K) = OperationJobs(J) \cup (IF s \in S THEN {j} ELSE {})
       /\ Replications(K, q) = Replications(J, q)
  BY SMTT(30), GivenJobs
<1>. HIDE DEF j, K
<1>1. c.version \in Nat /\ d <= c.version /\ d # m.version
      /\ \A v \in Replications(J, q) : v \in Nat /\ v <= c.version
  BY SMTT(60), ReplicationVersions DEF ServerInv, Bounds, ChunkType
<1>2. \A v \in Replications(K, q) : v < m.version
  BY <1>9, <1>1
<1>3. j.op = m.operation /\ j.op # "delete"
  BY ZenonT(30), <1>0 DEF ChunkType, Operation
<1>4. ASSUME s \in U PROVE OneStatus(m, s, K, q)
  <2>1. OneStatus(c, s, J, q)
    BY ZenonT(30), <1>4
  <2>2. OperationJobs(J) = {} /\ ~Pending(q, "status") /\ Once(q, {"status"})
    BY ZenonT(30), <2>1 DEF OneStatus
  <2>3. OperationJobs(K) = IF s \in S THEN {j} ELSE {}
    BY ZenonT(30), <1>9, <2>2
  <2>4. QED
    BY ZenonT(30), <1>3, <2>2, <2>3 DEF OneStatus
<1>5. \A i \in DOMAIN q : q[i].op = "replicate" /\ q[i].ok => q[i].version # m.version
  <2>1. \A i \in DOMAIN q : q[i].op = "replicate" /\ q[i].ok
          => q[i].version \in Replications(J, q)
    BY ZenonT(30) DEF Replications
  <2>2. \A v \in Replications(J, q) : v # m.version
    BY SMTT(30), <1>1
  <2>3. QED
    BY ZenonT(30), <2>1, <2>2
<1>6. Holding(m, s, q, d, s \in U, cur) /\ Writing(m, s, d, s \in U)
  BY ZenonT(30), <1>1, <1>5 DEF Holding, Writing
<1>7. Increase(m, s, K, q, d)
  <2>1. \A k \in K : k.op = "delete" /\ k.from # 0 => ~m.inFile
    BY ZenonT(30), <1>0, <1>3
  <2>2. QED
    BY ZenonT(30), <1>1, <1>2, <2>1 DEF Increase
<1>10. QED
  BY ZenonT(30), <1>4, <1>6, <1>7 DEF CopyInv, K

\* An operation succeeds: all copies of the present version have answered.
LEMMA SuccessCopy ==
    ASSUME NEW c, NEW m, NEW s \in Server, NEW J, NEW q, NEW d, NEW U, NEW cur,
           ServerInv(c, s, J, q, d, s \in U), CopyInv(c, s, J, q, d, s \in U, cur),
           s \notin Busy(c), c.operation # "none", ~c.interrupted,
           m.version = c.version, m.parts[s] = c.parts[s], m.inFile = c.inFile,
           m.operation = "none",
           m.session # NoSession /\ s \in Valid(c) => s \in m.session.locations
    PROVE  CopyInv(m, s, J, q, d, s \in U, cur)
<1>1. (s \in Valid(m) <=> s \in Valid(c)) /\ s \notin Busy(m)
  BY ZenonT(30), PartSets
<1>2. s \in U => OneStatus(m, s, J, q)
  BY ZenonT(60), <1>1 DEF CopyInv, OneStatus
<1>3. d = c.version => s \in Valid(c) /\ c.parts[s] # NoPart
  BY ZenonT(30), PartSets DEF CopyInv, Increase
<1>4. Holding(m, s, q, d, s \in U, cur) /\ Writing(m, s, d, s \in U)
  BY ZenonT(30), <1>1, <1>3 DEF CopyInv, Holding, Writing
<1>5. s \in Valid(c) => ~Pending(q, "delete")
  BY ZenonT(30) DEF ServerInv, NoCommand, Pending, LoopCommand
<1>6. Increase(m, s, J, q, d)
  BY ZenonT(30), <1>1, <1>3, <1>5 DEF CopyInv, Increase
<1>7. QED
  BY ZenonT(30), <1>2, <1>4, <1>6 DEF CopyInv

\* An operation fails: there is no copy left.
LEMMA FailureCopy ==
    ASSUME NEW c, NEW m, NEW s \in Server, NEW J, NEW q, NEW d, NEW U, NEW cur,
           CopyInv(c, s, J, q, d, s \in U, cur), s \notin Busy(c), c.operation # "none",
           m.version = c.version, m.parts[s] = c.parts[s], m.inFile => c.inFile,
           m.needVersionIncrease = c.needVersionIncrease,
           m.operation = "none", m.session = NoSession, ~IsWritable(m)
    PROVE  CopyInv(m, s, J, q, d, s \in U, cur)
<1>1. (s \in Valid(m) <=> s \in Valid(c)) /\ s \notin Busy(m)
  BY ZenonT(30), PartSets
<1>2. s \in U => OneStatus(m, s, J, q)
  BY ZenonT(30), <1>1 DEF CopyInv, OneStatus
<1>3. Holding(m, s, q, d, s \in U, cur) /\ Writing(m, s, d, s \in U)
  BY ZenonT(30), <1>1 DEF CopyInv, Holding, Writing
<1>4. Increase(m, s, J, q, d)
  BY ZenonT(30), <1>1 DEF CopyInv, Increase
<1>5. QED
  BY ZenonT(30), <1>2, <1>3, <1>4 DEF CopyInv

\* A copy that owes no status is at the present version, or about to be
\* reported lost.
LEMMA AnsweredCopy ==
    ASSUME NEW c, NEW s \in Server, NEW J, NEW q, NEW d,
           ServerInv(c, s, J, q, d, TRUE), OneStatus(c, s, J, q),
           s \in Valid(c), s \notin Busy(c)
    PROVE  d \in {0, c.version}
BY ZenonT(30) DEF ServerInv, Truth, OneStatus, BadNews, Pending

\* A truncation is acknowledged.
LEMMA TruncatedCopy ==
    ASSUME NEW c, NEW s \in Server, NEW J, NEW q, NEW d, NEW U, NEW cur, NEW cur2,
           CopyInv(c, s, J, q, d, s \in U, cur),
           s \in cur /\ d \in {0, c.version} => s \in cur2,
           s \in U /\ s \in Valid(c) => d \in {0, c.version},
           c.version \notin Replications(J, q)
    PROVE  CopyInv(c, s, J, q, d, s \in U, cur2)
<1>1. \A i \in DOMAIN q : ~(q[i].op = "replicate" /\ q[i].ok /\ q[i].version = c.version)
  BY ZenonT(30) DEF Replications
<1>2. Holding(c, s, q, d, s \in U, cur2)
  BY ZenonT(30), <1>1 DEF CopyInv, Holding
<1>3. QED
  BY ZenonT(30), <1>2 DEF CopyInv

\* The parts of chunkservers that are not up are forgotten.
LEMMA LeftCopy ==
    ASSUME NEW c, NEW m, NEW s \in Server, NEW J, NEW q, NEW d, NEW U, NEW cur,
           m.version = c.version, m.operation = c.operation, m.session = c.session,
           m.inFile = c.inFile, m.needVersionIncrease,
           c.operation # "none" => m.interrupted,
           m.parts[s] = IF s \in U THEN c.parts[s] ELSE NoPart, c.version \in Nat
    PROVE  /\ ServerInv(c, s, J, q, d, s \in U) => ServerInv(m, s, J, q, d, s \in U)
           /\ CopyInv(c, s, J, q, d, s \in U, cur) => CopyInv(m, s, J, q, d, s \in U, cur)
<1>1. CASE s \in U
  BY ZenonT(30), <1>1, SamePart, SameCopy
<1>2. CASE s \notin U
  <2>1. s \notin Valid(m) /\ s \notin Busy(m) /\ m.parts[s] = NoPart /\ NoPart.version <= m.version
    BY SMTT(30), <1>2, PartSets DEF NoPart
  <2>2. ASSUME ServerInv(c, s, J, q, d, s \in U)
        PROVE  ServerInv(m, s, J, q, d, s \in U)
    <3>1. J = {} /\ OperationJobs(J) = {}
      BY ZenonT(60), <1>2, <2>2 DEF ServerInv, OperationJobs
    <3>2. QED
      BY ZenonT(60), <1>2, <2>1, <2>2, <3>1 DEF ServerInv, Bounds, CreatesFirst
  <2>3. ASSUME CopyInv(c, s, J, q, d, s \in U, cur)
        PROVE  CopyInv(m, s, J, q, d, s \in U, cur)
    <3>1. Holding(m, s, q, d, s \in U, cur) /\ Writing(m, s, d, s \in U)
      BY ZenonT(30), <1>2, <2>3 DEF CopyInv, Holding, Writing
    <3>2. Increase(m, s, J, q, d)
      BY ZenonT(30), <2>3 DEF CopyInv, Increase
    <3>3. QED
      BY ZenonT(60), <1>2, <3>1, <3>2 DEF CopyInv
  <2>4. QED
    BY ZenonT(30), <2>2, <2>3
<1>3. QED
  BY ZenonT(30), <1>1, <1>2

\* A chunkserver is back, and registers its copy if it has one.
LEMMA BackCopy ==
    ASSUME NEW c \in ChunkType, NEW m, NEW s \in Server, NEW J, NEW q, NEW d \in Nat, NEW cur,
           c.parts[s] = NoPart,
           m.version = c.version, m.operation = c.operation, m.session = c.session,
           m.inFile = c.inFile, m.needVersionIncrease = c.needVersionIncrease,
           m.interrupted = c.interrupted,
           IF d = 0 THEN m.parts[s] = NoPart
           ELSE m.parts[s] = [state |-> IF d = m.version THEN "valid" ELSE "invalid",
                              version |-> d],
           ServerInv(c, s, J, q, d, FALSE)
    PROVE  /\ ServerInv(m, s, J, q, d, TRUE)
           /\ /\ CopyInv(c, s, J, q, d, FALSE, cur)
              /\ c.version # 0 \/ (c.operation = "none" /\ c.needVersionIncrease)
              => CopyInv(m, s, J, q, d, TRUE, cur)
<1>1. J = {} /\ OperationJobs(J) = {} /\ (\A i \in DOMAIN q : q[i].op \in {"damaged", "lost"})
      /\ d <= c.version /\ c.version \in Nat
  BY ZenonT(30) DEF ServerInv, OperationJobs, Bounds, ChunkType
<1>2. NoCommand(J, q) /\ ~Pending(q, "status") /\ ~Pending(q, "delete")
  BY ZenonT(30), <1>1 DEF NoCommand, Pending, LoopCommand
<1>3. (s \in Valid(m) <=> d = m.version /\ d # 0) /\ s \notin Busy(m)
      /\ (d # 0 => m.parts[s] # NoPart)
      /\ (m.parts[s].state = "none" => m.parts[s] = NoPart)
      /\ m.parts[s].version <= m.version
  <2>1. CASE d = 0
    BY SMTT(60), <1>1, <2>1, PartSets DEF NoPart
  <2>2. CASE d # 0
    BY SMTT(60), <1>1, <2>2, PartSets DEF NoPart
  <2>3. QED
    BY ZenonT(60), <2>1, <2>2
<1>4. ServerInv(m, s, J, q, d, TRUE)
  <2>1. Bounds(m, s, J, q, d) /\ CreatesFirst(m, s, J, q, d) /\ Truth(m, s, J, q, d)
    BY ZenonT(60), <1>1, <1>3 DEF ServerInv, Bounds, CreatesFirst, Truth
  <2>2. QED
    BY ZenonT(60), <1>2, <2>1 DEF ServerInv
<1>5. ASSUME CopyInv(c, s, J, q, d, FALSE, cur),
             c.version # 0 \/ (c.operation = "none" /\ c.needVersionIncrease)
      PROVE  CopyInv(m, s, J, q, d, TRUE, cur)
  <2>1. OneStatus(m, s, J, q)
    BY ZenonT(60), <1>1, <1>2, <1>3 DEF OneStatus, Once, Pending
  <2>2. Holding(m, s, q, d, TRUE, cur) /\ Writing(m, s, d, TRUE)
    BY ZenonT(60), <1>3, <1>5 DEF CopyInv, Holding, Writing
  <2>3. Increase(m, s, J, q, d)
    BY ZenonT(30), <1>2, <1>3, <1>5 DEF CopyInv, Increase
  <2>4. QED
    BY ZenonT(60), <2>1, <2>2, <2>3 DEF CopyInv
<1>6. QED
  BY ZenonT(30), <1>4, <1>5

\* The loop deletes a copy that no operation is about.
LEMMA DeletesCopy ==
    ASSUME NEW c \in ChunkType, NEW m \in ChunkType, NEW s \in Server,
           NEW J \in SUBSET Job, NEW q \in Seq(Packet), NEW d \in Nat, NEW cur,
           ServerInv(c, s, J, q, d, TRUE), NoCommand(J, q), s \notin Busy(c),
           m.version = c.version, m.operation = c.operation, m.session = c.session,
           m.inFile = c.inFile, ~m.needVersionIncrease => ~c.needVersionIncrease,
           m.interrupted = c.interrupted, IsWritable(m) => IsWritable(c),
           m.parts[s] = [c.parts[s] EXCEPT !.state = "del"],
           s \in Valid(c) => m.needVersionIncrease /\ m.operation = "none",
           NEW f \in Nat, f # 0 => ~m.inFile
    PROVE  /\ J \cup {[op |-> "delete", from |-> f]} \in SUBSET Job
           /\ ServerInv(m, s, J \cup {[op |-> "delete", from |-> f]}, q, d, TRUE)
           /\ CopyInv(c, s, J, q, d, TRUE, cur)
                => CopyInv(m, s, J \cup {[op |-> "delete", from |-> f]}, q, d, TRUE, cur)
<1>. DEFINE j == [op |-> "delete", from |-> f]
            K == J \cup {j}
<1>1. j \in Job /\ j.op = "delete" /\ j.from = f /\ j.op \notin Operation
      /\ j.op \in LoopCommand
  BY ZenonT(30) DEF Job, Operation, LoopCommand
<1>. HIDE DEF j
<1>2. OperationJobs(K) = OperationJobs(J) /\ Replications(K, q) = Replications(J, q)
      /\ K \in SUBSET Job
  BY ZenonT(30), <1>1 DEF OperationJobs, Replications
<1>3. m.parts[s].state = "del" /\ m.parts[s].version = c.parts[s].version
      /\ s \notin Valid(m) /\ s \notin Busy(m) /\ m.parts[s] # NoPart
  BY PartSets DEF NoPart, ChunkType
<1>4. OneCommand(K, q)
  BY ZenonT(30), <1>1 DEF ServerInv, OneCommand, NoCommand
<1>5. Bounds(m, s, K, q, d) /\ CreatesFirst(m, s, K, q, d) /\ Truth(m, s, K, q, d)
  BY ZenonT(30), <1>2, <1>3 DEF ServerInv, Bounds, CreatesFirst, Truth
<1>6. ServerInv(m, s, K, q, d, TRUE)
  BY ZenonT(30), <1>3, <1>4, <1>5 DEF ServerInv
<1>7. ASSUME CopyInv(c, s, J, q, d, TRUE, cur)
      PROVE  CopyInv(m, s, K, q, d, TRUE, cur)
  <2>1. OneStatus(m, s, K, q)
    BY ZenonT(30), <1>2, <1>3, <1>7 DEF CopyInv, OneStatus
  <2>2. Holding(m, s, q, d, TRUE, cur) /\ Writing(m, s, d, TRUE)
    BY ZenonT(30), <1>3, <1>7 DEF CopyInv, Holding, Writing
  <2>3. Increase(m, s, K, q, d)
    BY ZenonT(30), <1>1, <1>2, <1>3, <1>7 DEF CopyInv, Increase
  <2>4. QED
    BY ZenonT(30), <2>1, <2>2, <2>3 DEF CopyInv
<1>8. QED
  BY ZenonT(30), <1>2, <1>6, <1>7 DEF j

\* The loop has a copy made, and needVersionIncrease is set.
LEMMA OrdersCopy ==
    ASSUME NEW c \in ChunkType, NEW m \in ChunkType, NEW s \in Server,
           NEW J \in SUBSET Job, NEW q \in Seq(Packet), NEW d \in Nat, NEW cur,
           ServerInv(c, s, J, q, d, TRUE), NoCommand(J, q), c.version # 0,
           c.parts[s] = NoPart, m.parts[s] = NoPart,
           m.version = c.version, m.operation = c.operation,
           m.inFile = c.inFile, m.needVersionIncrease, m.operation = "none",
           NEW S \in SUBSET Server, NEW j,
           j = [op |-> "replicate", from |-> c.version, sources |-> S]
    PROVE  /\ J \cup {j} \in SUBSET Job
           /\ ServerInv(m, s, J \cup {j}, q, d, TRUE)
           /\ CopyInv(c, s, J, q, d, TRUE, cur) /\ m.session = NoSession
                => CopyInv(m, s, J \cup {j}, q, d, TRUE, cur)
<1>. DEFINE K == J \cup {j}
<1>1. j \in Job /\ j.op = "replicate" /\ j.from = c.version /\ j.op \notin Operation
      /\ j.op \in LoopCommand /\ c.version \in Nat
  BY ZenonT(30) DEF Job, Operation, LoopCommand, ChunkType
<1>2. OperationJobs(K) = OperationJobs(J) /\ Replications(K, q) = Replications(J, q) \cup {c.version}
      /\ K \in SUBSET Job
  BY ZenonT(60), <1>1 DEF OperationJobs, Replications
<1>3. s \notin Valid(m) /\ s \notin Busy(m) /\ s \notin Busy(c) /\ s \notin Valid(c)
  BY ZenonT(60), PartSets
<1>4. OneCommand(K, q)
  BY ZenonT(30), <1>1 DEF ServerInv, OneCommand, NoCommand
<1>5. \A k \in OperationJobs(J) : k.from < c.version
  <2>1. \A k \in OperationJobs(J) :
          k.from \in Nat /\ k.to = k.from + 1 /\ k.to <= c.version
    BY ZenonT(60), JobFields DEF ServerInv, Bounds
  <2>2. QED
    BY SMTT(30), <1>1, <2>1
<1>6. Bounds(m, s, K, q, d)
  <2>1. \A v \in Replications(J, q) :
          0 < v /\ v <= c.version /\ \A k \in OperationJobs(J) : k.from < v
    BY ZenonT(30) DEF ServerInv, Bounds
  <2>2. 0 < c.version /\ c.version <= c.version
    BY SMTT(30), <1>1
  <2>3. \A v \in Replications(K, q) :
          0 < v /\ v <= c.version /\ \A k \in OperationJobs(J) : k.from < v
    BY ZenonT(60), <1>2, <1>5, <2>1, <2>2
  <2>4. QED
    BY ZenonT(60), <1>2, <2>3 DEF ServerInv, Bounds
<1>7. CreatesFirst(m, s, K, q, d) /\ Truth(m, s, K, q, d)
  BY ZenonT(30), <1>2, <1>3 DEF ServerInv, CreatesFirst, Truth
<1>8. ServerInv(m, s, K, q, d, TRUE)
  BY ZenonT(30), <1>3, <1>4, <1>6, <1>7 DEF ServerInv
<1>9. ASSUME CopyInv(c, s, J, q, d, TRUE, cur), m.session = NoSession
      PROVE  CopyInv(m, s, K, q, d, TRUE, cur)
  <2>1. OneStatus(m, s, K, q)
    BY ZenonT(60), <1>2, <1>3, <1>9 DEF CopyInv, OneStatus
  <2>2. Holding(m, s, q, d, TRUE, cur) /\ Writing(m, s, d, TRUE)
    BY ZenonT(30), <1>3, <1>9 DEF CopyInv, Holding, Writing
  <2>3. Increase(m, s, K, q, d)
    BY ZenonT(30), <1>1, <1>9 DEF CopyInv, Increase
  <2>4. QED
    BY ZenonT(30), <2>1, <2>2, <2>3 DEF CopyInv
<1>10. QED
  BY ZenonT(60), <1>2, <1>8, <1>9

-----------------------------------------------------------------------------
(* The operations on the chunk, by its fields                              *)

\* A version move.
LEMMA StartFields ==
    ASSUME NEW c \in ChunkType, NEW op \in Operation, NEW S \in SUBSET Server,
           NEW m, m = StartOperation(c, op, S)
    PROVE  /\ m \in ChunkType /\ m.version = c.version + 1 /\ m.operation = op
           /\ m.needVersionIncrease = c.needVersionIncrease /\ m.locked = c.locked
           /\ m.inFile = c.inFile /\ m.waiting = c.waiting /\ m.session = c.session
           /\ \A s \in Server :
                m.parts[s] = IF s \in S THEN [state |-> "busy", version |-> c.version + 1]
                             ELSE c.parts[s]
<1>. DEFINE P == [s \in Server |-> IF s \in S THEN [state |-> "busy", version |-> c.version + 1]
                                   ELSE c.parts[s]]
<1>1. c.version + 1 \in Nat /\ c.parts \in [Server -> [state : PartState, version : Nat]]
  BY SMTT(30) DEF ChunkType
<1>2. P \in [Server -> [state : PartState, version : Nat]]
  BY ZenonT(30), <1>1 DEF PartState
<1>3. m = [c EXCEPT !.version = c.version + 1, !.operation = op, !.interrupted = FALSE,
                    !.parts = P]
  BY ZenonT(30) DEF StartOperation
<1>. HIDE DEF P
<1>4. /\ m \in ChunkType /\ m.version = c.version + 1 /\ m.operation = op
      /\ m.needVersionIncrease = c.needVersionIncrease /\ m.locked = c.locked
      /\ m.inFile = c.inFile /\ m.waiting = c.waiting /\ m.session = c.session
      /\ m.parts = P
  BY ZenonT(30), <1>1, <1>2, <1>3 DEF ChunkType
<1>5. QED
  BY ZenonT(30), <1>4 DEF P

\* A client is told that the operation succeeded.
LEMMA OkFields ==
    ASSUME NEW c \in ChunkType, NEW m, m = ChunkStatus(c, TRUE)
    PROVE  /\ m \in ChunkType /\ m.version = c.version /\ m.operation = c.operation
           /\ m.interrupted = c.interrupted /\ m.needVersionIncrease = c.needVersionIncrease
           /\ m.parts = c.parts /\ m.waiting = "none" /\ m.inFile = c.inFile
           /\ c.waiting = "write" =>
                /\ m.session = [version |-> c.version, locations |-> Valid(c)]
                /\ m.locked = c.locked
           /\ c.waiting # "write" => m.session = c.session
<1>. DEFINE v == [version |-> c.version, locations |-> Valid(c)]
<1>1. v \in [version : Nat, locations : SUBSET Server]
      /\ c.waiting \in {"none", "write", "truncate"}
  BY ZenonT(30) DEF ChunkType, Valid
<1>. HIDE DEF v
<1>2. CASE c.waiting = "none"
  <2>1. m = c
    BY ZenonT(30), <1>2 DEF ChunkStatus
  <2>2. QED
    BY ZenonT(30), <1>2, <2>1
<1>3. CASE c.waiting = "write"
  <2>1. m = [c EXCEPT !.waiting = "none", !.session = v]
    BY ZenonT(30), <1>3 DEF ChunkStatus, v, ChunkType
  <2>2. QED
    BY ZenonT(30), <1>1, <1>3, <2>1 DEF ChunkType, v
<1>4. CASE c.waiting = "truncate"
  <2>1. m = [c EXCEPT !.waiting = "none", !.locked = FALSE]
    BY ZenonT(30), <1>4 DEF ChunkStatus, ChunkType
  <2>2. QED
    BY ZenonT(30), <1>4, <2>1 DEF ChunkType
<1>5. QED
  BY ZenonT(30), <1>1, <1>2, <1>3, <1>4

\* A client is told that the operation failed.
LEMMA FailedFields ==
    ASSUME NEW c \in ChunkType, NEW m, m = ChunkStatus(c, FALSE)
    PROVE  /\ m \in ChunkType /\ m.version = c.version
           /\ m.needVersionIncrease = c.needVersionIncrease
           /\ m.parts = c.parts /\ m.waiting = "none" /\ m.session = c.session
           /\ m.inFile => c.inFile
           /\ c.operation # "create" => m.inFile = c.inFile
<1>1. c.waiting \in {"none", "write", "truncate"}
  BY ZenonT(30) DEF ChunkType
<1>2. CASE c.waiting = "none"
  <2>1. m = c
    BY ZenonT(30), <1>2 DEF ChunkStatus
  <2>2. QED
    BY ZenonT(30), <1>2, <2>1
<1>3. CASE c.waiting = "write"
  <2>1. m = [c EXCEPT !.waiting = "none", !.locked = FALSE,
                      !.inFile = c.inFile /\ c.operation # "create"]
    BY ZenonT(30), <1>3 DEF ChunkStatus, ChunkType
  <2>2. QED
    BY ZenonT(30), <1>3, <2>1 DEF ChunkType
<1>4. CASE c.waiting = "truncate"
  <2>1. m = [c EXCEPT !.waiting = "none", !.locked = FALSE]
    BY ZenonT(30), <1>4 DEF ChunkStatus, ChunkType
  <2>2. QED
    BY ZenonT(60), <1>4, <2>1 DEF ChunkType
<1>5. QED
  BY ZenonT(30), <1>1, <1>2, <1>3, <1>4

-----------------------------------------------------------------------------
(* The same, for all chunkservers at once: J, Q and D are the jobs, the    *)
(* queues and the disks, U the chunkservers that are up.                   *)

Knows(c, J, Q, D, U) ==
    \A s \in Server : ServerInv(c, s, J[s], Q[s], D[s], s \in U)

Holds(c, J, Q, D, U, cur) ==
    \A s \in Server : CopyInv(c, s, J[s], Q[s], D[s], s \in U, cur)

\* What an operation is about, until it ends.
Underway(c) ==
    /\ c.operation # "none" /\ c.session = NoSession /\ c.inFile
    /\ c.waiting # "none" => c.locked
    /\ ~c.needVersionIncrease => c.operation # "create"

\* The commands of a version move from c to m.
Told(J, c, m, S) == [s \in Server |-> Given(J[s], s, c, m, S)]

\* A version move.
LEMMA MovePhase ==
    ASSUME NEW c \in ChunkType, NEW m \in ChunkType, NEW J \in [Server -> SUBSET Job],
           NEW Q \in [Server -> Seq(Packet)], NEW D \in [Server -> Nat],
           NEW U \in SUBSET Server, NEW cur \in SUBSET Server, NEW S \in SUBSET U,
           Knows(c, J, Q, D, U), Busy(c) = {}, Valid(c) \subseteq S,
           c.version # 0 => S = Valid(c),
           c.version = 0 => \A s \in Server : J[s] = {} /\ Q[s] = <<>>,
           m.version = c.version + 1, m.operation # "none",
           \A s \in S : m.parts[s].state = "busy" /\ m.parts[s].version = m.version,
           \A s \in Server \ S : m.parts[s] = c.parts[s]
    PROVE  /\ Told(J, c, m, S) \in [Server -> SUBSET Job]
           /\ Knows(m, Told(J, c, m, S), Q, D, U)
           /\ Busy(m) = S /\ Valid(m) = S
           /\ m.session = NoSession /\ S \subseteq cur
              /\ (\A s \in U : OneStatus(c, s, J[s], Q[s]))
              /\ (\A s \in Server : \A k \in J[s] : k.op = "delete" /\ k.from # 0 => ~m.inFile)
              => Holds(m, Told(J, c, m, S), Q, D, U, cur)
<1>. DEFINE K(s) == Given(J[s], s, c, m, S)
<1>1. \A s \in Server : Told(J, c, m, S)[s] = K(s)
  BY ZenonT(60) DEF Told
<1>2. ASSUME NEW s \in Server
      PROVE  /\ K(s) \in SUBSET Job
             /\ s \in Valid(m) <=> s \in S
             /\ s \in Busy(m) <=> s \in S
             /\ ServerInv(m, s, K(s), Q[s], D[s], s \in U)
  <2>1. /\ J[s] \in SUBSET Job /\ Q[s] \in Seq(Packet) /\ D[s] \in Nat
        /\ ServerInv(c, s, J[s], Q[s], D[s], s \in U) /\ s \notin Busy(c)
        /\ (s \in S => s \in U) /\ S \in SUBSET Server
        /\ (c.version = 0 => J[s] = {} /\ Q[s] = <<>>)
        /\ (s \in S \ Valid(c) => c.version = 0)
        /\ (s \in S => m.parts[s].state = "busy" /\ m.parts[s].version = m.version)
        /\ (s \notin S => m.parts[s] = c.parts[s])
    BY ZenonT(60) DEF Knows
  <2>2. K(s) \in SUBSET Job
    BY SMTT(60), <2>1, GivenJobs
  <2>3. (s \in Valid(m) <=> s \in S) /\ (s \in Busy(m) <=> s \in S)
    BY ZenonT(30), <2>1, PartSets
  <2>4. ServerInv(m, s, K(s), Q[s], D[s], s \in U)
    BY ZenonT(60), <2>1, MovePart
  <2>5. QED
    BY ZenonT(60), <2>2, <2>3, <2>4
<1>3. Told(J, c, m, S) \in [Server -> SUBSET Job]
  <2>1. \A s \in Server : Told(J, c, m, S)[s] \in SUBSET Job
    BY ZenonT(60), <1>1, <1>2
  <2>2. QED
    BY ZenonT(60), <2>1 DEF Told
<1>4. Knows(m, Told(J, c, m, S), Q, D, U)
  BY ZenonT(60), <1>1, <1>2 DEF Knows
<1>5. Busy(m) = S /\ Valid(m) = S
  BY ZenonT(60), <1>2 DEF Busy, Valid
<1>6. ASSUME m.session = NoSession, S \subseteq cur,
             \A s \in U : OneStatus(c, s, J[s], Q[s]),
             \A s \in Server : \A k \in J[s] : k.op = "delete" /\ k.from # 0 => ~m.inFile,
             NEW s \in Server
      PROVE  CopyInv(m, s, K(s), Q[s], D[s], s \in U, cur)
  <2>1. /\ J[s] \in SUBSET Job /\ Q[s] \in Seq(Packet) /\ D[s] \in Nat
        /\ ServerInv(c, s, J[s], Q[s], D[s], s \in U) /\ s \notin Busy(c)
        /\ (s \in S => s \in cur) /\ (s \in U => OneStatus(c, s, J[s], Q[s]))
        /\ \A k \in J[s] : k.op = "delete" /\ k.from # 0 => ~m.inFile
    BY ZenonT(60), <1>6 DEF Knows
  <2>2. QED
    BY ZenonT(60), <1>2, <1>6, <2>1, MoveCopy
<1>7. QED
  BY ZenonT(30), <1>1, <1>3, <1>4, <1>5, <1>6 DEF Holds

\* The parts stay as they are.
LEMMA SamePhase ==
    ASSUME NEW c, NEW m, NEW J, NEW Q, NEW D, NEW U,
           Knows(c, J, Q, D, U), m.version = c.version, m.parts = c.parts
    PROVE  Knows(m, J, Q, D, U) /\ Valid(m) = Valid(c) /\ Busy(m) = Busy(c)
<1>1. ASSUME NEW s \in Server
      PROVE  ServerInv(m, s, J[s], Q[s], D[s], s \in U)
  <2>1. ServerInv(c, s, J[s], Q[s], D[s], s \in U) /\ m.parts[s] = c.parts[s]
    BY ZenonT(30) DEF Knows
  <2>2. QED
    BY ZenonT(30), <2>1, SamePart
<1>2. Valid(m) = Valid(c) /\ Busy(m) = Busy(c)
  BY ZenonT(30) DEF Valid, Busy
<1>3. QED
  BY ZenonT(60), <1>1, <1>2 DEF Knows

\* An operation ends in a version move, because it was interrupted.
LEMMA EmergencyPhase ==
    ASSUME NEW c \in ChunkType, NEW m, m = EmergencyIncreaseVersion(c),
           NEW J \in [Server -> SUBSET Job], NEW Q \in [Server -> Seq(Packet)],
           NEW D \in [Server -> Nat], NEW U \in SUBSET Server, NEW cur \in SUBSET Server,
           Knows(c, J, Q, D, U), ChunkInv(c), c.version # 0,
           Busy(c) = {}, IsWritable(c), Valid(c) \subseteq U
    PROVE  /\ m \in ChunkType /\ m.version = c.version + 1 /\ m.waiting = c.waiting
           /\ ChunkInv(m) /\ Busy(m) = Valid(c) /\ Valid(m) = Valid(c)
           /\ Told(J, c, m, Valid(c)) \in [Server -> SUBSET Job]
           /\ Knows(m, Told(J, c, m, Valid(c)), Q, D, U)
           /\ Underway(c) /\ Holds(c, J, Q, D, U, cur)
                => OperationInv(m) /\ Holds(m, Told(J, c, m, Valid(c)), Q, D, U, cur)
<1>1. "set_version" \in Operation /\ Valid(c) \in SUBSET Server
  BY ZenonT(60) DEF Operation, Valid
<1>2. /\ m \in ChunkType /\ m.version = c.version + 1 /\ m.operation = "set_version"
      /\ m.needVersionIncrease = c.needVersionIncrease /\ m.locked = c.locked
      /\ m.inFile = c.inFile /\ m.waiting = c.waiting /\ m.session = c.session
      /\ \A s \in Server :
           m.parts[s] = IF s \in Valid(c) THEN [state |-> "busy", version |-> c.version + 1]
                        ELSE c.parts[s]
  BY SMTT(60), <1>1, StartFields DEF EmergencyIncreaseVersion
<1>3. /\ \A s \in Valid(c) : m.parts[s].state = "busy" /\ m.parts[s].version = m.version
      /\ \A s \in Server \ Valid(c) : m.parts[s] = c.parts[s]
  BY SMTT(60), <1>1, <1>2
<1>4. m.operation # "none"
  BY ZenonT(60), <1>2
<1>5. /\ Told(J, c, m, Valid(c)) \in [Server -> SUBSET Job]
      /\ Knows(m, Told(J, c, m, Valid(c)), Q, D, U)
      /\ Busy(m) = Valid(c) /\ Valid(m) = Valid(c)
      /\ m.session = NoSession /\ Valid(c) \subseteq cur
         /\ (\A s \in U : OneStatus(c, s, J[s], Q[s]))
         /\ (\A s \in Server : \A k \in J[s] : k.op = "delete" /\ k.from # 0 => ~m.inFile)
         => Holds(m, Told(J, c, m, Valid(c)), Q, D, U, cur)
  BY ZenonT(60), <1>2, <1>3, <1>4, MovePhase
<1>6. ChunkInv(m)
  <2>1. c.session.version \in Nat /\ c.version \in Nat
    BY ZenonT(30) DEF ChunkType
  <2>2. QED
    BY SMTT(30), <1>2, <1>4, <2>1 DEF ChunkInv
<1>7. ASSUME Underway(c), Holds(c, J, Q, D, U, cur)
      PROVE  OperationInv(m) /\ Holds(m, Told(J, c, m, Valid(c)), Q, D, U, cur)
  <2>1. OperationInv(m)
    BY ZenonT(60), <1>2, <1>5, <1>7 DEF OperationInv, Underway, IsWritable
  <2>2. Valid(c) \subseteq cur /\ (\A s \in U : OneStatus(c, s, J[s], Q[s]))
    BY ZenonT(60), <1>7 DEF Holds, CopyInv, Holding, Valid
  <2>3. \A s \in Server : \A k \in J[s] : k.op = "delete" /\ k.from # 0 => ~m.inFile
    BY ZenonT(30), <1>2, <1>7 DEF Holds, CopyInv, Increase
  <2>4. QED
    BY ZenonT(60), <1>2, <1>5, <1>7, <2>1, <2>2, <2>3 DEF Underway
<1>8. QED
  BY ZenonT(60), <1>2, <1>5, <1>6, <1>7

\* An operation ends without a copy.
LEMMA FailPhase ==
    ASSUME NEW c \in ChunkType, NEW m, m = FinalizeFailedOperation(c),
           NEW J, NEW Q, NEW D, NEW U, NEW cur,
           Knows(c, J, Q, D, U), ChunkInv(c), Busy(c) = {}, ~IsWritable(c)
    PROVE  /\ m \in ChunkType /\ m.version = c.version /\ m.parts = c.parts
           /\ m.needVersionIncrease = c.needVersionIncrease /\ m.session = c.session
           /\ m.inFile => c.inFile
           /\ m.waiting = "none"
           /\ ChunkInv(m) /\ m.operation = "none" /\ ~IsWritable(m)
           /\ Knows(m, J, Q, D, U)
           /\ Underway(c) /\ Holds(c, J, Q, D, U, cur)
                => OperationInv(m) /\ Holds(m, J, Q, D, U, cur)
<1>. DEFINE a == ChunkStatus(c, FALSE)
<1>1. /\ a \in ChunkType /\ a.version = c.version
      /\ a.needVersionIncrease = c.needVersionIncrease
      /\ a.parts = c.parts /\ a.waiting = "none" /\ a.session = c.session
      /\ a.inFile => c.inFile
      /\ c.operation # "create" => a.inFile = c.inFile
  BY ZenonT(30), FailedFields
<1>. HIDE DEF a
<1>2. m = [a EXCEPT !.operation = "none"]
  BY ZenonT(30) DEF FinalizeFailedOperation, a
<1>3. /\ m \in ChunkType /\ m.version = c.version /\ m.operation = "none"
      /\ m.needVersionIncrease = c.needVersionIncrease
      /\ m.parts = c.parts /\ m.waiting = "none" /\ m.session = c.session
      /\ m.inFile => c.inFile
      /\ c.operation # "create" => m.inFile = c.inFile
  BY ZenonT(30), <1>1, <1>2 DEF ChunkType, Operation
<1>4. Knows(m, J, Q, D, U) /\ Valid(m) = Valid(c) /\ Busy(m) = Busy(c)
  BY ZenonT(30), <1>3, SamePhase
<1>5. ~IsWritable(m) /\ ChunkInv(m)
  BY ZenonT(30), <1>3, <1>4 DEF IsWritable, ChunkInv
<1>6. ASSUME Underway(c), Holds(c, J, Q, D, U, cur)
      PROVE  OperationInv(m) /\ Holds(m, J, Q, D, U, cur)
  <2>1. OperationInv(m)
    BY ZenonT(60), <1>3, <1>6 DEF OperationInv, Underway
  <2>2. ASSUME NEW s \in Server
        PROVE  CopyInv(m, s, J[s], Q[s], D[s], s \in U, cur)
    <3>1. CopyInv(c, s, J[s], Q[s], D[s], s \in U, cur) /\ s \notin Busy(c)
          /\ m.parts[s] = c.parts[s] /\ c.operation # "none" /\ m.session = NoSession
      BY ZenonT(60), <1>3, <1>6 DEF Holds, Underway
    <3>2. QED
      BY ZenonT(60), <1>3, <1>5, <3>1, FailureCopy
  <2>3. QED
    BY ZenonT(60), <2>1, <2>2 DEF Holds
<1>7. QED
  BY ZenonT(30), <1>3, <1>4, <1>5, <1>6

\* The copies that a truncation has reached.
Truncated(c, D, cur) ==
    IF c.waiting = "truncate" THEN {s \in cur : D[s] \in {0, c.version}} ELSE cur

\* How an operation succeeds.
FinalizeOperation(c) ==
    [ChunkStatus(c, TRUE) EXCEPT !.operation = "none", !.needVersionIncrease = FALSE]

\* An operation succeeds.
LEMMA SuccessPhase ==
    ASSUME NEW c \in ChunkType, NEW m, m = FinalizeOperation(c),
           NEW J, NEW Q, NEW D, NEW U, NEW cur \in SUBSET Server,
           Knows(c, J, Q, D, U), ChunkInv(c), Busy(c) = {}, ~c.interrupted
    PROVE  /\ m \in ChunkType /\ m.version = c.version /\ m.parts = c.parts
           /\ ChunkInv(m) /\ m.operation = "none" /\ m.waiting = "none"
           /\ Knows(m, J, Q, D, U)
           /\ Underway(c) /\ Holds(c, J, Q, D, U, cur)
                => OperationInv(m) /\ Holds(m, J, Q, D, U, Truncated(c, D, cur))
<1>. DEFINE a == ChunkStatus(c, TRUE)
<1>1. /\ a \in ChunkType /\ a.version = c.version
      /\ a.parts = c.parts /\ a.waiting = "none" /\ a.inFile = c.inFile
      /\ c.waiting = "write" =>
           /\ a.session = [version |-> c.version, locations |-> Valid(c)]
           /\ a.locked = c.locked
      /\ c.waiting # "write" => a.session = c.session
  BY ZenonT(30), OkFields
<1>. HIDE DEF a
<1>2. m = [a EXCEPT !.operation = "none", !.needVersionIncrease = FALSE]
  BY ZenonT(30) DEF a, FinalizeOperation
<1>3. /\ m \in ChunkType /\ m.version = c.version /\ m.operation = "none"
      /\ ~m.needVersionIncrease
      /\ m.parts = c.parts /\ m.waiting = "none" /\ m.inFile = c.inFile
      /\ c.waiting = "write" =>
           /\ m.session = [version |-> c.version, locations |-> Valid(c)]
           /\ m.locked = c.locked
      /\ c.waiting # "write" => m.session = c.session
  BY ZenonT(60), <1>1, <1>2 DEF ChunkType, Operation
<1>4. Knows(m, J, Q, D, U) /\ Valid(m) = Valid(c) /\ Busy(m) = Busy(c)
  BY ZenonT(30), <1>3, SamePhase
<1>5. ChunkInv(m)
  BY SMTT(60), <1>3, <1>4 DEF ChunkInv, ChunkType
<1>6. ASSUME Underway(c), Holds(c, J, Q, D, U, cur)
      PROVE  OperationInv(m) /\ Holds(m, J, Q, D, U, Truncated(c, D, cur))
  <2>1. OperationInv(m)
    BY SMTT(60), <1>3, <1>6 DEF OperationInv, Underway, NoSession
  <2>2. ASSUME NEW s \in Server
        PROVE  CopyInv(m, s, J[s], Q[s], D[s], s \in U, Truncated(c, D, cur))
    <3>1. /\ ServerInv(c, s, J[s], Q[s], D[s], s \in U)
          /\ CopyInv(c, s, J[s], Q[s], D[s], s \in U, cur) /\ s \notin Busy(c)
          /\ m.parts[s] = c.parts[s] /\ c.operation # "none"
          /\ m.session # NoSession /\ s \in Valid(c) => s \in m.session.locations
      <4>1. m.session # NoSession /\ s \in Valid(c) => s \in m.session.locations
        BY SMTT(60), <1>3, <1>6 DEF Underway
      <4>2. QED
        BY ZenonT(60), <1>3, <1>6, <4>1 DEF Holds, Knows, Underway
    <3>2. CopyInv(m, s, J[s], Q[s], D[s], s \in U, cur)
      BY ZenonT(30), <1>3, <3>1, SuccessCopy
    <3>3. CASE c.waiting = "truncate"
      <4>1. s \in cur /\ D[s] \in {0, m.version} => s \in Truncated(c, D, cur)
        BY ZenonT(60), <1>3, <3>3 DEF Truncated
      <4>2. ASSUME s \in U, s \in Valid(c) PROVE D[s] \in {0, c.version}
        <5>1. ServerInv(c, s, J[s], Q[s], D[s], TRUE) /\ OneStatus(c, s, J[s], Q[s])
          BY ZenonT(60), <3>1, <4>2, UpOrDown DEF CopyInv
        <5>2. QED
          BY ZenonT(60), <3>1, <4>2, <5>1, AnsweredCopy
      <4>3. s \in U /\ s \in Valid(m) => D[s] \in {0, m.version}
        BY ZenonT(60), <1>3, <1>4, <4>2
      <4>4. m.version \notin Replications(J[s], Q[s])
        <5>1. \A v \in Replications(J[s], Q[s]) : v < c.version
          BY ZenonT(30), <3>1 DEF CopyInv, Increase
        <5>2. c.version \in Nat /\ ~(c.version < c.version)
          BY SMTT(30) DEF ChunkType
        <5>3. QED
          BY ZenonT(60), <1>3, <5>1, <5>2
      <4>5. QED
        BY ZenonT(60), <3>2, <4>1, <4>3, <4>4, TruncatedCopy
    <3>4. CASE c.waiting # "truncate"
      BY ZenonT(60), <3>2, <3>4 DEF Truncated
    <3>5. QED
      BY ZenonT(60), <3>3, <3>4
  <2>3. QED
    BY ZenonT(30), <2>1, <2>2 DEF Holds
<1>7. QED
  BY ZenonT(60), <1>3, <1>4, <1>5, <1>6

\* The commands and the copies with all data after the chunk c became m.
After(J, c, m) == IF m.version = c.version THEN J ELSE Told(J, c, m, Busy(m))
CurrentAfter(c, m, D, cur) ==
    IF c.waiting = "truncate" /\ m.waiting = "none" /\ IsWritable(m)
    THEN {s \in cur : D[s] \in {0, m.version}} ELSE cur

\* No copy is busy: the operation ends, or begins anew.
LEMMA EndPhase ==
    ASSUME NEW c \in ChunkType, NEW m, m = OperationEnd(c),
           NEW J \in [Server -> SUBSET Job], NEW Q \in [Server -> Seq(Packet)],
           NEW D \in [Server -> Nat], NEW U \in SUBSET Server, NEW cur \in SUBSET Server,
           Knows(c, J, Q, D, U), ChunkInv(c), c.version # 0,
           Busy(c) = {}, Valid(c) \subseteq U
    PROVE  /\ m \in ChunkType /\ m.version # 0 /\ ChunkInv(m)
           /\ After(J, c, m) \in [Server -> SUBSET Job]
           /\ Knows(m, After(J, c, m), Q, D, U)
           /\ Underway(c) /\ Holds(c, J, Q, D, U, cur)
                => /\ OperationInv(m)
                   /\ Holds(m, After(J, c, m), Q, D, U, CurrentAfter(c, m, D, cur))
<1>1. c.version \in Nat /\ c.version + 1 # c.version /\ c.version + 1 # 0
  BY SMTT(30) DEF ChunkType
<1>2. CASE ~IsWritable(c)
  <2>1. m = FinalizeFailedOperation(c)
    BY ZenonT(30), <1>2 DEF OperationEnd
  <2>2. /\ m \in ChunkType /\ m.version = c.version /\ m.parts = c.parts
        /\ ChunkInv(m) /\ m.operation = "none" /\ ~IsWritable(m)
        /\ Knows(m, J, Q, D, U)
        /\ Underway(c) /\ Holds(c, J, Q, D, U, cur)
             => OperationInv(m) /\ Holds(m, J, Q, D, U, cur)
    BY ZenonT(60), <1>2, <2>1, FailPhase
  <2>3. After(J, c, m) = J /\ CurrentAfter(c, m, D, cur) = cur
    BY ZenonT(30), <2>2 DEF After, CurrentAfter
  <2>4. QED
    BY ZenonT(30), <2>2, <2>3
<1>3. CASE IsWritable(c) /\ c.interrupted
  <2>1. m = EmergencyIncreaseVersion(c)
    BY ZenonT(30), <1>3 DEF OperationEnd
  <2>2. /\ m \in ChunkType /\ m.version = c.version + 1 /\ m.waiting = c.waiting
        /\ ChunkInv(m) /\ Busy(m) = Valid(c)
        /\ Told(J, c, m, Valid(c)) \in [Server -> SUBSET Job]
        /\ Knows(m, Told(J, c, m, Valid(c)), Q, D, U)
        /\ Underway(c) /\ Holds(c, J, Q, D, U, cur)
             => OperationInv(m) /\ Holds(m, Told(J, c, m, Valid(c)), Q, D, U, cur)
    BY ZenonT(60), <1>3, <2>1, EmergencyPhase
  <2>3. After(J, c, m) = Told(J, c, m, Valid(c)) /\ CurrentAfter(c, m, D, cur) = cur
    BY ZenonT(30), <1>1, <2>2 DEF After, CurrentAfter
  <2>4. QED
    BY ZenonT(30), <1>1, <2>2, <2>3
<1>4. CASE IsWritable(c) /\ ~c.interrupted
  <2>1. m = FinalizeOperation(c)
    BY ZenonT(30), <1>4 DEF OperationEnd, FinalizeOperation
  <2>2. /\ m \in ChunkType /\ m.version = c.version /\ m.parts = c.parts
        /\ ChunkInv(m) /\ m.operation = "none" /\ m.waiting = "none"
        /\ Knows(m, J, Q, D, U)
        /\ Underway(c) /\ Holds(c, J, Q, D, U, cur)
             => OperationInv(m) /\ Holds(m, J, Q, D, U, Truncated(c, D, cur))
    BY ZenonT(60), <1>4, <2>1, SuccessPhase
  <2>3. After(J, c, m) = J
    BY ZenonT(30), <2>2 DEF After
  <2>4. CurrentAfter(c, m, D, cur) = Truncated(c, D, cur)
    BY ZenonT(30), <1>4, <2>2 DEF CurrentAfter, Truncated, IsWritable, Valid
  <2>5. QED
    BY ZenonT(30), <2>2, <2>3, <2>4
<1>5. QED
  BY ZenonT(30), <1>2, <1>3, <1>4

\* The chunk without the parts of the chunkservers that left.
Left(c, up) ==
    [c EXCEPT !.needVersionIncrease = TRUE,
              !.interrupted = IF c.operation = "none" THEN @ ELSE TRUE,
              !.parts = [s \in Server |-> IF s \in up THEN c.parts[s] ELSE NoPart]]

\* Parts are forgotten.
LEMMA LeftPhase ==
    ASSUME NEW c \in ChunkType, NEW U \in SUBSET Server, NEW m, m = Left(c, U),
           NEW J, NEW Q, NEW D, NEW cur, Knows(c, J, Q, D, U), ChunkInv(c)
    PROVE  /\ m \in ChunkType /\ m.version = c.version /\ m.operation = c.operation
           /\ m.waiting = c.waiting /\ m.locked = c.locked /\ m.needVersionIncrease
           /\ m.inFile = c.inFile /\ m.session = c.session
           /\ m.parts = [s \in Server |-> IF s \in U THEN c.parts[s] ELSE NoPart]
           /\ c.operation # "none" => m.interrupted
           /\ ChunkInv(m) /\ Knows(m, J, Q, D, U) /\ Valid(m) \subseteq U
           /\ Holds(c, J, Q, D, U, cur) => Holds(m, J, Q, D, U, cur)
<1>1. /\ m \in ChunkType /\ m.version = c.version /\ m.operation = c.operation
      /\ m.waiting = c.waiting /\ m.locked = c.locked /\ m.needVersionIncrease
      /\ m.inFile = c.inFile /\ m.session = c.session
      /\ m.parts = [s \in Server |-> IF s \in U THEN c.parts[s] ELSE NoPart]
      /\ c.operation # "none" => m.interrupted
  <2>1. NoPart \in [state : PartState, version : Nat]
    BY ZenonT(30) DEF NoPart, PartState
  <2>. DEFINE P == [s \in Server |-> IF s \in U THEN c.parts[s] ELSE NoPart]
  <2>2. P \in [Server -> [state : PartState, version : Nat]]
    BY ZenonT(30), <2>1 DEF ChunkType
  <2>. HIDE DEF P
  <2>3. m = [c EXCEPT !.needVersionIncrease = TRUE,
                      !.interrupted = IF c.operation = "none" THEN @ ELSE TRUE, !.parts = P]
    BY ZenonT(30) DEF P, Left
  <2>4. /\ m \in ChunkType /\ m.version = c.version /\ m.operation = c.operation
        /\ m.waiting = c.waiting /\ m.locked = c.locked /\ m.needVersionIncrease
        /\ m.inFile = c.inFile /\ m.session = c.session /\ m.parts = P
        /\ c.operation # "none" => m.interrupted
    BY ZenonT(30), <2>2, <2>3 DEF ChunkType
  <2>5. QED
    BY ZenonT(30), <2>4 DEF P
<1>2. Busy(m) \subseteq Busy(c) /\ Valid(m) \subseteq U
  BY SMTT(60), <1>1 DEF Busy, Valid, NoPart
<1>3. ChunkInv(m)
  BY ZenonT(30), <1>1, <1>2 DEF ChunkInv
<1>4. ASSUME NEW s \in Server
      PROVE  /\ ServerInv(m, s, J[s], Q[s], D[s], s \in U)
             /\ CopyInv(c, s, J[s], Q[s], D[s], s \in U, cur)
                  => CopyInv(m, s, J[s], Q[s], D[s], s \in U, cur)
  <2>1. ServerInv(c, s, J[s], Q[s], D[s], s \in U) /\ c.version \in Nat
        /\ m.parts[s] = IF s \in U THEN c.parts[s] ELSE NoPart
    BY SMTT(60), <1>1 DEF Knows, ChunkType
  <2>2. QED
    BY ZenonT(60), <1>1, <2>1, LeftCopy
<1>5. QED
  BY ZenonT(60), <1>1, <1>2, <1>3, <1>4 DEF Knows, Holds

\* How chunk_handle_disconnected_copies goes on.
LEMMA LeftEnds ==
    ASSUME NEW c \in ChunkType, NEW U \in SUBSET Server, Disconnected(c, U) # {},
           NEW l, l = Left(c, U), NEW m, m = HandleDisconnectedCopies(c, U)
    PROVE  \/ m = l /\ (c.operation # "none" => Busy(l) # {})
           \/ c.operation # "none" /\ Busy(l) = {} /\ IsWritable(l) /\ m = EmergencyIncreaseVersion(l)
           \/ /\ c.operation # "none" /\ Busy(l) = {} /\ ~IsWritable(l)
              /\ \E b \in ChunkType :
                   /\ m = FinalizeFailedOperation(b) /\ b.parts = l.parts
                   /\ b.version = l.version /\ b.session = l.session /\ b.inFile = l.inFile
                   /\ b.needVersionIncrease /\ b.operation = l.operation
<1>. DEFINE P == [s \in Server |-> IF s \in U THEN c.parts[s] ELSE NoPart]
            b == [c EXCEPT !.needVersionIncrease = TRUE, !.parts = P]
<1>1. P \in [Server -> [state : PartState, version : Nat]]
  <2>1. NoPart \in [state : PartState, version : Nat]
    BY ZenonT(30) DEF NoPart, PartState
  <2>2. QED
    BY ZenonT(30), <2>1 DEF ChunkType
<1>2. m = IF c.operation = "none" THEN b
          ELSE IF Busy(b) # {} THEN [b EXCEPT !.interrupted = TRUE]
          ELSE IF IsWritable(b) THEN EmergencyIncreaseVersion(b)
          ELSE FinalizeFailedOperation(b)
  BY ZenonT(30) DEF HandleDisconnectedCopies
<1>3. l = [c EXCEPT !.needVersionIncrease = TRUE,
                    !.interrupted = IF c.operation = "none" THEN @ ELSE TRUE, !.parts = P]
  BY ZenonT(30) DEF Left
<1>. HIDE DEF P
<1>4. /\ b \in ChunkType /\ b.parts = P /\ l.parts = P
      /\ b.version = c.version /\ l.version = c.version /\ b.session = l.session
      /\ b.inFile = l.inFile /\ b.needVersionIncrease /\ b.operation = l.operation
      /\ b.interrupted = c.interrupted
  BY ZenonT(30), <1>1, <1>3 DEF ChunkType
<1>5. c.operation = "none" => l = b
  BY ZenonT(60), <1>3 DEF ChunkType
<1>6. c.operation # "none" => l = [b EXCEPT !.interrupted = TRUE]
  BY ZenonT(60), <1>3 DEF ChunkType
<1>. HIDE DEF b
<1>7. Busy(b) = Busy(l) /\ Valid(b) = Valid(l) /\ (IsWritable(b) <=> IsWritable(l))
  BY ZenonT(30), <1>4 DEF Busy, Valid, IsWritable
<1>8. c.operation # "none" => EmergencyIncreaseVersion(b) = EmergencyIncreaseVersion(l)
  <2>. DEFINE R == [s \in Server |-> IF s \in Valid(l) THEN [state |-> "busy", version |-> c.version + 1]
                                    ELSE P[s]]
              v == c.version + 1
  <2>1. EmergencyIncreaseVersion(l) = [l EXCEPT !.version = v, !.operation = "set_version",
                                                !.interrupted = FALSE, !.parts = R]
    BY ZenonT(30), <1>4 DEF EmergencyIncreaseVersion, StartOperation
  <2>2. EmergencyIncreaseVersion(b) = [b EXCEPT !.version = v, !.operation = "set_version",
                                                !.interrupted = FALSE, !.parts = R]
    BY ZenonT(30), <1>4, <1>7 DEF EmergencyIncreaseVersion, StartOperation
  <2>. HIDE DEF R, v
  <2>3. [[b EXCEPT !.interrupted = TRUE] EXCEPT !.version = v, !.operation = "set_version",
                                                !.interrupted = FALSE, !.parts = R]
          = [b EXCEPT !.version = v, !.operation = "set_version",
                      !.interrupted = FALSE, !.parts = R]
    BY ZenonT(60)
  <2>4. QED
    BY ZenonT(30), <1>6, <2>1, <2>2, <2>3
<1>9. QED
  BY ZenonT(30), <1>2, <1>4, <1>5, <1>6, <1>7, <1>8

\* A version move of a chunk that lost parts before.
LEMMA EmergencyAfter ==
    ASSUME NEW l \in ChunkType, NEW m, m = EmergencyIncreaseVersion(l),
           NEW J \in [Server -> SUBSET Job], NEW Q \in [Server -> Seq(Packet)],
           NEW D \in [Server -> Nat], NEW U \in SUBSET Server, NEW cur \in SUBSET Server,
           Knows(l, J, Q, D, U), ChunkInv(l), l.version # 0,
           Busy(l) = {}, IsWritable(l), Valid(l) \subseteq U,
           NEW c, l.version = c.version
    PROVE  /\ m \in ChunkType /\ m.version = c.version + 1 /\ m.waiting = l.waiting
           /\ ChunkInv(m)
           /\ After(J, c, m) \in [Server -> SUBSET Job]
           /\ Knows(m, After(J, c, m), Q, D, U)
           /\ \A s \in Server : s \notin Valid(l) => m.parts[s] = l.parts[s]
           /\ Underway(l) /\ Holds(l, J, Q, D, U, cur)
                => OperationInv(m) /\ Holds(m, After(J, c, m), Q, D, U, cur)
<1>1. /\ m \in ChunkType /\ m.version = l.version + 1 /\ m.waiting = l.waiting
      /\ ChunkInv(m) /\ Busy(m) = Valid(l)
      /\ Told(J, l, m, Valid(l)) \in [Server -> SUBSET Job]
      /\ Knows(m, Told(J, l, m, Valid(l)), Q, D, U)
      /\ Underway(l) /\ Holds(l, J, Q, D, U, cur)
           => OperationInv(m) /\ Holds(m, Told(J, l, m, Valid(l)), Q, D, U, cur)
  BY ZenonT(60), EmergencyPhase
<1>0. \A s \in Server : s \notin Valid(l) => m.parts[s] = l.parts[s]
  <2>1. "set_version" \in Operation /\ Valid(l) \in SUBSET Server
    BY ZenonT(60) DEF Operation, Valid
  <2>2. \A s \in Server :
          m.parts[s] = IF s \in Valid(l) THEN [state |-> "busy", version |-> l.version + 1]
                       ELSE l.parts[s]
    BY SMTT(60), <2>1, StartFields DEF EmergencyIncreaseVersion
  <2>3. QED
    BY ZenonT(60), <2>2
<1>2. l.version \in Nat /\ l.version + 1 # l.version
  BY DEF ChunkType
<1>3. Told(J, l, m, Valid(l)) = After(J, c, m)
  BY ZenonT(30), <1>1, <1>2 DEF After, Told, Given, Command
<1>4. QED
  BY ZenonT(30), <1>0, <1>1, <1>3

\* chunk_handle_disconnected_copies.
LEMMA DisconnectedPhase ==
    ASSUME NEW c \in ChunkType, NEW U \in SUBSET Server,
           NEW m, m = HandleDisconnectedCopies(c, U),
           NEW J \in [Server -> SUBSET Job], NEW Q \in [Server -> Seq(Packet)],
           NEW D \in [Server -> Nat], NEW cur \in SUBSET Server,
           Knows(c, J, Q, D, U), ChunkInv(c), c.version # 0
    PROVE  /\ m \in ChunkType /\ m.version # 0 /\ ChunkInv(m)
           /\ After(J, c, m) \in [Server -> SUBSET Job]
           /\ Knows(m, After(J, c, m), Q, D, U)
           /\ \A s \in Server : c.parts[s] = NoPart => m.parts[s] = NoPart
           /\ c.waiting = "truncate" /\ m.waiting = "none" => m.version = c.version /\ ~IsWritable(m)
           /\ OperationInv(c) /\ Holds(c, J, Q, D, U, cur)
                => OperationInv(m) /\ Holds(m, After(J, c, m), Q, D, U, cur)
<1>. DEFINE l == Left(c, U)
<1>1. c.version \in Nat /\ c.version + 1 # c.version /\ c.version + 1 # 0
  BY SMTT(30) DEF ChunkType
<1>2. CASE Disconnected(c, U) = {}
  <2>1. m = c
    BY ZenonT(30), <1>2 DEF HandleDisconnectedCopies
  <2>2. After(J, c, m) = J
    BY ZenonT(30), <2>1 DEF After
  <2>3. QED
    BY ZenonT(30), <2>1, <2>2
<1>3. CASE Disconnected(c, U) # {}
  <2>1. /\ l \in ChunkType /\ l.version = c.version /\ l.operation = c.operation
        /\ l.waiting = c.waiting /\ l.locked = c.locked /\ l.needVersionIncrease
        /\ l.inFile = c.inFile /\ l.session = c.session
        /\ l.parts = [s \in Server |-> IF s \in U THEN c.parts[s] ELSE NoPart]
        /\ c.operation # "none" => l.interrupted
        /\ ChunkInv(l) /\ Knows(l, J, Q, D, U) /\ Valid(l) \subseteq U
        /\ Holds(c, J, Q, D, U, cur) => Holds(l, J, Q, D, U, cur)
    BY ZenonT(60), LeftPhase
  <2>2. \A s \in Server : c.parts[s] = NoPart => l.parts[s] = NoPart
    BY ZenonT(60), <2>1
  <2>3. \/ m = l /\ (c.operation # "none" => Busy(l) # {})
        \/ c.operation # "none" /\ Busy(l) = {} /\ IsWritable(l) /\ m = EmergencyIncreaseVersion(l)
        \/ /\ c.operation # "none" /\ Busy(l) = {} /\ ~IsWritable(l)
           /\ \E b \in ChunkType :
                /\ m = FinalizeFailedOperation(b) /\ b.parts = l.parts
                /\ b.version = l.version /\ b.session = l.session /\ b.inFile = l.inFile
                /\ b.needVersionIncrease /\ b.operation = l.operation
    BY SMTT(60), <1>3, LeftEnds
  <2>. HIDE DEF l
  <2>4. OperationInv(c) /\ c.operation # "none" => Underway(l)
    BY ZenonT(30), <2>1 DEF OperationInv, Underway
  <2>5. CASE m = l /\ (c.operation # "none" => Busy(l) # {})
    <3>1. After(J, c, m) = J
      BY ZenonT(60), <2>1, <2>5 DEF After
    <3>2. OperationInv(c) => OperationInv(m)
      BY ZenonT(60), <2>1, <2>5 DEF OperationInv
    <3>3. QED
      BY ZenonT(60), <1>1, <2>1, <2>2, <2>5, <3>1, <3>2
  <2>6. CASE c.operation # "none" /\ Busy(l) = {} /\ IsWritable(l) /\ m = EmergencyIncreaseVersion(l)
    <3>1. l \in ChunkType /\ Knows(l, J, Q, D, U) /\ ChunkInv(l) /\ l.version # 0
          /\ Valid(l) \subseteq U /\ l.version = c.version
      BY ZenonT(60), <2>1
    <3>2. /\ m \in ChunkType /\ m.version = c.version + 1 /\ m.waiting = l.waiting
          /\ ChunkInv(m)
          /\ After(J, c, m) \in [Server -> SUBSET Job]
          /\ Knows(m, After(J, c, m), Q, D, U)
          /\ \A s \in Server : s \notin Valid(l) => m.parts[s] = l.parts[s]
          /\ Underway(l) /\ Holds(l, J, Q, D, U, cur)
               => OperationInv(m) /\ Holds(m, After(J, c, m), Q, D, U, cur)
      BY ZenonT(60), <2>6, <3>1, EmergencyAfter
    <3>3. \A s \in Server : c.parts[s] = NoPart => m.parts[s] = NoPart
      BY ZenonT(60), <2>2, <3>2, PartSets
    <3>4. QED
      BY ZenonT(60), <1>1, <2>1, <2>4, <2>6, <3>2, <3>3
  <2>7. CASE /\ c.operation # "none" /\ Busy(l) = {} /\ ~IsWritable(l)
             /\ \E b \in ChunkType :
                  /\ m = FinalizeFailedOperation(b) /\ b.parts = l.parts
                  /\ b.version = l.version /\ b.session = l.session /\ b.inFile = l.inFile
                  /\ b.needVersionIncrease /\ b.operation = l.operation
    <3>1. PICK b \in ChunkType :
             /\ m = FinalizeFailedOperation(b) /\ b.parts = l.parts
             /\ b.version = l.version /\ b.session = l.session /\ b.inFile = l.inFile
             /\ b.needVersionIncrease /\ b.operation = l.operation
      BY ZenonT(30), <2>7
    <3>2. /\ Knows(b, J, Q, D, U) /\ Busy(b) = {} /\ ~IsWritable(b) /\ ChunkInv(b)
      <4>1. Knows(b, J, Q, D, U) /\ Valid(b) = Valid(l) /\ Busy(b) = Busy(l)
        BY ZenonT(60), <2>1, <3>1, SamePhase
      <4>2. QED
        BY ZenonT(60), <2>1, <2>7, <3>1, <4>1 DEF IsWritable, ChunkInv
    <3>3. /\ m \in ChunkType /\ m.version = b.version /\ m.parts = b.parts
          /\ m.needVersionIncrease = b.needVersionIncrease /\ m.session = b.session
          /\ m.inFile => b.inFile
          /\ m.waiting = "none"
          /\ ChunkInv(m) /\ m.operation = "none" /\ ~IsWritable(m)
          /\ Knows(m, J, Q, D, U)
      BY ZenonT(60), <3>1, <3>2, FailPhase
    <3>4. After(J, c, m) = J
      BY ZenonT(30), <2>1, <3>1, <3>3 DEF After
    <3>5. ASSUME OperationInv(c), Holds(c, J, Q, D, U, cur)
          PROVE  OperationInv(m) /\ Holds(m, J, Q, D, U, cur)
      <4>1. Underway(l) /\ m.session = NoSession
        BY ZenonT(60), <2>1, <2>4, <2>7, <3>1, <3>3, <3>5 DEF Underway
      <4>2. OperationInv(m)
        BY ZenonT(60), <3>1, <3>3, <4>1 DEF OperationInv
      <4>3. ASSUME NEW s \in Server
            PROVE  CopyInv(m, s, J[s], Q[s], D[s], s \in U, cur)
        <5>1. /\ CopyInv(l, s, J[s], Q[s], D[s], s \in U, cur) /\ s \notin Busy(l)
              /\ m.parts[s] = l.parts[s] /\ l.operation # "none" /\ m.version = l.version
              /\ m.inFile => l.inFile
          BY ZenonT(60), <2>1, <2>7, <3>1, <3>3, <3>5 DEF Holds
        <5>2. m.needVersionIncrease = l.needVersionIncrease
          BY ZenonT(60), <2>1, <3>1, <3>3 DEF ChunkType
        <5>3. QED
          BY ZenonT(60), <3>3, <4>1, <5>1, <5>2, FailureCopy
      <4>4. QED
        BY ZenonT(30), <4>2, <4>3 DEF Holds
    <3>6. QED
      BY SMTT(60), <1>1, <2>1, <2>2, <3>1, <3>3, <3>4, <3>5
  <2>8. QED
    BY ZenonT(60), <2>3, <2>5, <2>6, <2>7
<1>4. QED
  BY ZenonT(30), <1>2, <1>3

-----------------------------------------------------------------------------
(* The handlers of the master: requests                                    *)

\* The invariant, as the steps of the master use it.
LEMMA MasterFacts ==
    ASSUME ChunkIndInv
    PROVE  /\ Types /\ chunk \in ChunkType /\ chunk.version \in Nat /\ conn \in SUBSET Server
           /\ jobs \in [Server -> SUBSET Job] /\ replies \in [Server -> Seq(Packet)]
           /\ disk \in [Server -> Nat] /\ current \in SUBSET Server
           /\ ChunkInv(chunk) /\ Fresh(chunk, jobs, replies, current)
           /\ Knows(chunk, jobs, replies, disk, conn)
           /\ dropped = {} => OperationInv(chunk) /\ Holds(chunk, jobs, replies, disk, conn, current)
<1>1. chunk \in ChunkType => chunk.version \in Nat
  BY ZenonT(30) DEF ChunkType
<1>2. QED
  BY ZenonT(30), <1>1 DEF ChunkIndInv, DiskInv, Types, Knows, Holds

\* What a step of the master has to show.
LEMMA MasterSteps ==
    ASSUME NEW m \in ChunkType, chunk' = m, ChunkInv(m),
           m.version # 0 \/ Fresh(m, jobs', replies', current'),
           conn' \in SUBSET Server, jobs' \in [Server -> SUBSET Job],
           replies' \in [Server -> Seq(Packet)], disk' \in [Server -> Nat],
           current' \in SUBSET Server, dropped' \in SUBSET Server,
           requests' \in Nat, faults' \in Nat,
           Knows(m, jobs', replies', disk', conn'),
           dropped' = {} => OperationInv(m) /\ Holds(m, jobs', replies', disk', conn', current')
    PROVE  ChunkIndInv'
<1>1. Types'
  BY ZenonT(30) DEF Types
<1>2. ChunkInv(chunk)' /\ Fresh(chunk, jobs, replies, current)'
  BY ZenonT(30) DEF ChunkInv, Fresh, Busy
<1>3. (\A s \in Server : ServerInv(chunk, s, jobs[s], replies[s], disk[s], s \in conn))'
  BY ZenonT(30) DEF Knows
<1>4. (dropped = {} =>
         /\ OperationInv(chunk)
         /\ \A s \in Server :
              CopyInv(chunk, s, jobs[s], replies[s], disk[s], s \in conn, current))'
  BY ZenonT(30) DEF Holds
<1>5. QED
  BY ZenonT(30), <1>1, <1>2, <1>3, <1>4 DEF ChunkIndInv, DiskInv

\* The chunk becomes m.
LEMMA Becomes ==
    ASSUME Types, NEW m, Become(m)
    PROVE  /\ chunk' = m /\ jobs' = After(jobs, chunk, m)
           /\ current' = CurrentAfter(chunk, m, disk, current)
           /\ current' \in SUBSET Server
           /\ m.version = chunk.version => jobs' = jobs
<1>1. chunk' = m /\ current' = CurrentAfter(chunk, m, disk, current)
  BY ZenonT(30) DEF Become, CurrentAfter
<1>2. jobs' = [s \in Server |->
                 IF m.version # chunk.version /\ s \in Busy(m)
                 THEN jobs[s] \cup {[op |-> m.operation, from |-> chunk.version,
                                     to |-> m.version]}
                 ELSE jobs[s]]
  BY ZenonT(60) DEF Become
<1>3. m.version = chunk.version => jobs' = jobs
  BY ZenonT(60), <1>2 DEF Types
<1>4. m.version # chunk.version => jobs' = Told(jobs, chunk, m, Busy(m))
  BY ZenonT(30), <1>2 DEF Told, Given, Command
<1>5. current' \in SUBSET Server
  BY ZenonT(30), <1>1 DEF CurrentAfter, Types
<1>6. QED
  BY ZenonT(60), <1>1, <1>3, <1>4, <1>5 DEF After

\* Forgetting the parts of chunkservers that left.
LEMMA FindChunkSteps ==
    ASSUME ChunkIndInv, FindChunk
    PROVE  ChunkIndInv'
<1>. DEFINE m == HandleDisconnectedCopies(chunk, conn)
<1>1. /\ Types /\ chunk \in ChunkType /\ chunk.version \in Nat /\ conn \in SUBSET Server
      /\ jobs \in [Server -> SUBSET Job] /\ replies \in [Server -> Seq(Packet)]
      /\ disk \in [Server -> Nat] /\ current \in SUBSET Server
      /\ ChunkInv(chunk) /\ Fresh(chunk, jobs, replies, current)
      /\ Knows(chunk, jobs, replies, disk, conn)
      /\ dropped = {} => OperationInv(chunk) /\ Holds(chunk, jobs, replies, disk, conn, current)
  BY ZenonT(30), MasterFacts
<1>2. chunk.version # 0
  BY ZenonT(30), <1>1 DEF FindChunk, Found, Disconnected, Fresh
<1>3. /\ m \in ChunkType /\ m.version # 0 /\ ChunkInv(m)
      /\ After(jobs, chunk, m) \in [Server -> SUBSET Job]
      /\ Knows(m, After(jobs, chunk, m), replies, disk, conn)
      /\ chunk.waiting = "truncate" /\ m.waiting = "none"
           => m.version = chunk.version /\ ~IsWritable(m)
      /\ OperationInv(chunk) /\ Holds(chunk, jobs, replies, disk, conn, current)
           => OperationInv(m) /\ Holds(m, After(jobs, chunk, m), replies, disk, conn, current)
  BY ZenonT(30), <1>1, <1>2, DisconnectedPhase
<1>. HIDE DEF m
<1>4. /\ chunk' = m /\ jobs' = After(jobs, chunk, m)
      /\ current' = CurrentAfter(chunk, m, disk, current)
      /\ current' \in SUBSET Server
  <2>1. Become(m)
    BY ZenonT(30) DEF FindChunk, m
  <2>2. QED
    BY ZenonT(30), <1>1, <2>1, Becomes
<1>5. current' = current
  BY ZenonT(30), <1>3, <1>4 DEF CurrentAfter
<1>6. /\ conn' = conn /\ replies' = replies /\ disk' = disk /\ dropped' = dropped
      /\ requests' \in Nat /\ faults' \in Nat /\ dropped' \in SUBSET Server
  BY ZenonT(30), <1>1 DEF FindChunk, Types
<1>7. QED
  BY ZenonT(60), <1>1, <1>3, <1>4, <1>5, <1>6, MasterSteps

\* The data of a client is written to all its locations.
LEMMA WriteDataSteps ==
    ASSUME ChunkIndInv, WriteData
    PROVE  ChunkIndInv'
<1>1. /\ Types /\ chunk \in ChunkType /\ chunk.version \in Nat /\ conn \in SUBSET Server
      /\ jobs \in [Server -> SUBSET Job] /\ replies \in [Server -> Seq(Packet)]
      /\ disk \in [Server -> Nat] /\ current \in SUBSET Server
      /\ ChunkInv(chunk) /\ Fresh(chunk, jobs, replies, current)
      /\ Knows(chunk, jobs, replies, disk, conn)
      /\ dropped = {} => OperationInv(chunk) /\ Holds(chunk, jobs, replies, disk, conn, current)
  BY ZenonT(30), MasterFacts
<1>2. chunk.version # 0 /\ chunk.session # NoSession
  BY ZenonT(60), <1>1 DEF WriteData, Fresh
<1>3. /\ chunk' = chunk /\ conn' = conn /\ jobs' = jobs /\ replies' = replies /\ disk' = disk
      /\ dropped' = dropped /\ requests' \in Nat /\ faults' \in Nat /\ dropped' \in SUBSET Server
      /\ current' = current \cap chunk.session.locations /\ current' \in SUBSET Server
  BY ZenonT(60), <1>1 DEF WriteData, Types
<1>4. ASSUME Holds(chunk, jobs, replies, disk, conn, current), NEW s \in Server
      PROVE  CopyInv(chunk, s, jobs[s], replies[s], disk[s], s \in conn, current')
  <2>1. CopyInv(chunk, s, jobs[s], replies[s], disk[s], s \in conn, current)
    BY ZenonT(60), <1>4 DEF Holds
  <2>2. \A v \in Replications(jobs[s], replies[s]) : v < chunk.version
    BY ZenonT(30), <1>2, <2>1 DEF CopyInv, Increase
  <2>3. \A i \in DOMAIN replies[s] :
          replies[s][i].op = "replicate" /\ replies[s][i].ok => replies[s][i].version # chunk.version
    <3>1. ~(chunk.version < chunk.version)
      BY SMTT(30), <1>1
    <3>2. QED
      BY ZenonT(30), <2>2, <3>1 DEF Replications
  <2>4. /\ s \in conn /\ s \in Valid(chunk) => s \in current'
        /\ disk[s] = chunk.version => s \in current'
    BY ZenonT(60), <1>2, <1>3, <2>1 DEF CopyInv, Holding, Writing
  <2>5. Holding(chunk, s, replies[s], disk[s], s \in conn, current')
    BY ZenonT(30), <2>3, <2>4 DEF Holding
  <2>6. QED
    BY ZenonT(60), <2>1, <2>5 DEF CopyInv
<1>5. dropped' = {} => OperationInv(chunk) /\ Holds(chunk, jobs, replies, disk, conn, current')
  BY ZenonT(60), <1>1, <1>3, <1>4 DEF Holds
<1>6. QED
  BY ZenonT(60), <1>1, <1>2, <1>3, <1>5, MasterSteps

\* A step that changes no more than the lock and the writer.
LEMMA SameSteps ==
    ASSUME ChunkIndInv, NEW m \in ChunkType, chunk' = m,
           UNCHANGED <<conn, jobs, replies, disk, current, dropped, requests, faults>>,
           m.version = chunk.version, m.parts = chunk.parts, m.operation = chunk.operation,
           m.inFile = chunk.inFile, m.needVersionIncrease = chunk.needVersionIncrease,
           m.interrupted = chunk.interrupted, m.waiting = chunk.waiting,
           m.session \in {chunk.session, NoSession},
           OperationInv(chunk) =>
              /\ m.session # NoSession => m.locked
              /\ m.waiting # "none" => m.locked
    PROVE  ChunkIndInv'
<1>1. /\ Types /\ chunk \in ChunkType /\ chunk.version \in Nat /\ conn \in SUBSET Server
      /\ jobs \in [Server -> SUBSET Job] /\ replies \in [Server -> Seq(Packet)]
      /\ disk \in [Server -> Nat] /\ current \in SUBSET Server
      /\ ChunkInv(chunk) /\ Fresh(chunk, jobs, replies, current)
      /\ Knows(chunk, jobs, replies, disk, conn)
      /\ dropped = {} => OperationInv(chunk) /\ Holds(chunk, jobs, replies, disk, conn, current)
  BY ZenonT(30), MasterFacts
<1>2. Knows(m, jobs, replies, disk, conn) /\ Valid(m) = Valid(chunk) /\ Busy(m) = Busy(chunk)
  BY ZenonT(60), <1>1, SamePhase
<1>3. /\ requests' \in Nat /\ faults' \in Nat /\ dropped' \in SUBSET Server
  BY ZenonT(30), <1>1 DEF Types
<1>4. ChunkInv(m) /\ Fresh(m, jobs, replies, current)
  <2>1. NoSession.version = 0 /\ 0 <= chunk.version
    BY SMTT(60), <1>1 DEF NoSession
  <2>2. ChunkInv(m)
    BY ZenonT(60), <1>1, <1>2, <2>1 DEF ChunkInv
  <2>3. Fresh(m, jobs, replies, current)
    BY ZenonT(30), <1>1 DEF Fresh
  <2>4. QED
    BY ZenonT(60), <2>2, <2>3
<1>5. ASSUME dropped = {}
      PROVE  OperationInv(m) /\ Holds(m, jobs, replies, disk, conn, current)
  <2>1. OperationInv(m)
    BY ZenonT(60), <1>1, <1>2, <1>5 DEF OperationInv
  <2>2. ASSUME NEW s \in Server
        PROVE  CopyInv(m, s, jobs[s], replies[s], disk[s], s \in conn, current)
    <3>1. CopyInv(chunk, s, jobs[s], replies[s], disk[s], s \in conn, current)
          /\ m.parts[s] = chunk.parts[s]
      BY ZenonT(30), <1>1, <1>5 DEF Holds
    <3>2. IsWritable(m) <=> IsWritable(chunk)
      BY ZenonT(30), <1>2 DEF IsWritable
    <3>3. QED
      BY ZenonT(60), <3>1, <3>2, SameCopy
  <2>3. QED
    BY ZenonT(60), <2>1, <2>2 DEF Holds
<1>6. QED
  BY ZenonT(60), <1>1, <1>2, <1>3, <1>4, <1>5, MasterSteps

\* The end of a write, a client that stops, a lock that expires.
LEMMA LockSteps ==
    ASSUME ChunkIndInv, WriteChunkEnd \/ ClientStops \/ LockExpires
    PROVE  ChunkIndInv'
<1>1. Types /\ chunk \in ChunkType
  BY ZenonT(30), MasterFacts
<1>2. CASE WriteChunkEnd
  <2>. DEFINE m == [chunk EXCEPT !.locked = FALSE, !.session = NoSession]
  <2>1. /\ m \in ChunkType /\ m.version = chunk.version /\ m.parts = chunk.parts
        /\ m.operation = chunk.operation /\ m.inFile = chunk.inFile
        /\ m.needVersionIncrease = chunk.needVersionIncrease
        /\ m.interrupted = chunk.interrupted /\ m.waiting = chunk.waiting
        /\ m.session = NoSession
    BY ZenonT(60), <1>1 DEF ChunkType, NoSession
  <2>2. Become(m) /\ chunk.session # NoSession
        /\ UNCHANGED <<conn, replies, disk, dropped, requests, faults>>
    BY ZenonT(30), <1>2 DEF WriteChunkEnd
  <2>. HIDE DEF m
  <2>3. chunk' = m /\ jobs' = jobs /\ current' = CurrentAfter(chunk, m, disk, current)
    BY ZenonT(30), <1>1, <2>1, <2>2, Becomes
  <2>4. current' = current
    BY ZenonT(30), <2>1, <2>3 DEF CurrentAfter
  <2>5. OperationInv(chunk) => m.waiting = "none"
    BY ZenonT(30), <2>1, <2>2 DEF OperationInv
  <2>6. QED
    BY ZenonT(30), <2>1, <2>2, <2>3, <2>4, <2>5, SameSteps
<1>3. CASE ClientStops
  <2>. DEFINE m == [chunk EXCEPT !.session = NoSession]
  <2>1. /\ m \in ChunkType /\ m.version = chunk.version /\ m.parts = chunk.parts
        /\ m.operation = chunk.operation /\ m.inFile = chunk.inFile
        /\ m.needVersionIncrease = chunk.needVersionIncrease
        /\ m.interrupted = chunk.interrupted /\ m.waiting = chunk.waiting
        /\ m.session = NoSession /\ m.locked = chunk.locked
    BY ZenonT(30), <1>1 DEF ChunkType, NoSession
  <2>2. chunk' = m /\ UNCHANGED <<conn, jobs, replies, disk, current, dropped, requests, faults>>
    BY ZenonT(30), <1>3 DEF ClientStops
  <2>. HIDE DEF m
  <2>3. OperationInv(chunk) => (m.waiting # "none" => m.locked)
    BY ZenonT(60), <2>1 DEF OperationInv
  <2>4. QED
    BY ZenonT(30), <2>1, <2>2, <2>3, SameSteps
<1>4. CASE LockExpires
  <2>. DEFINE m == [chunk EXCEPT !.locked = FALSE]
  <2>1. /\ m \in ChunkType /\ m.version = chunk.version /\ m.parts = chunk.parts
        /\ m.operation = chunk.operation /\ m.inFile = chunk.inFile
        /\ m.needVersionIncrease = chunk.needVersionIncrease
        /\ m.interrupted = chunk.interrupted /\ m.waiting = chunk.waiting
        /\ m.session = chunk.session
    BY ZenonT(30), <1>1 DEF ChunkType
  <2>2. /\ chunk' = m /\ chunk.session = NoSession /\ chunk.waiting = "none"
        /\ UNCHANGED <<conn, jobs, replies, disk, current, dropped, requests, faults>>
    BY ZenonT(30), <1>4 DEF LockExpires
  <2>. HIDE DEF m
  <2>3. QED
    BY ZenonT(30), <2>1, <2>2, SameSteps
<1>5. QED
  BY ZenonT(30), <1>2, <1>3, <1>4

\* When the chunk was found all its parts are of chunkservers that are up.
LEMMA FoundParts ==
    ASSUME Found, NEW s \in Server
    PROVE  /\ chunk.parts[s] # NoPart => s \in conn
           /\ s \in Valid(chunk) \/ s \in Invalid(chunk) \/ s \in Busy(chunk) => s \in conn
<1>1. chunk.parts[s] # NoPart => s \in conn
  BY ZenonT(30) DEF Found, Disconnected
<1>2. QED
  BY ZenonT(30), <1>1, PartSets

\* A request starts an operation.
LEMMA StartSteps ==
    ASSUME ChunkIndInv, Found, NEW m \in ChunkType, NEW S \in SUBSET Server,
           Become(m), UNCHANGED <<conn, replies, disk, dropped, faults>>, requests' \in Nat,
           m.version = chunk.version + 1, m.operation # "none", chunk.operation = "none",
           \A s \in S : m.parts[s].state = "busy" /\ m.parts[s].version = m.version,
           \A s \in Server \ S : m.parts[s] = chunk.parts[s],
           S # {}, S \subseteq conn, Valid(chunk) \subseteq S,
           chunk.version # 0 => S = Valid(chunk) /\ m.inFile = chunk.inFile,
           m.needVersionIncrease = chunk.needVersionIncrease,
           m.operation = "create" => m.needVersionIncrease,
           m.session \in {chunk.session, NoSession}, OperationInv(chunk) => m.session = NoSession,
           m.locked, m.inFile, m.waiting # "none"
    PROVE  ChunkIndInv'
<1>1. /\ Types /\ chunk \in ChunkType /\ chunk.version \in Nat /\ conn \in SUBSET Server
      /\ jobs \in [Server -> SUBSET Job] /\ replies \in [Server -> Seq(Packet)]
      /\ disk \in [Server -> Nat] /\ current \in SUBSET Server
      /\ ChunkInv(chunk) /\ Fresh(chunk, jobs, replies, current)
      /\ Knows(chunk, jobs, replies, disk, conn)
      /\ dropped = {} => OperationInv(chunk) /\ Holds(chunk, jobs, replies, disk, conn, current)
  BY ZenonT(60), MasterFacts
<1>2. /\ chunk' = m /\ jobs' = After(jobs, chunk, m)
      /\ current' = CurrentAfter(chunk, m, disk, current)
  BY ZenonT(60), <1>1, Becomes
<1>3. current' = current
  BY ZenonT(60), <1>2 DEF CurrentAfter
<1>4. Busy(chunk) = {}
  BY ZenonT(60), <1>1 DEF ChunkInv
<1>5. chunk.version = 0 => \A s \in Server : jobs[s] = {} /\ replies[s] = <<>>
  BY ZenonT(60), <1>1 DEF Fresh
<1>6. /\ Told(jobs, chunk, m, S) \in [Server -> SUBSET Job]
      /\ Knows(m, Told(jobs, chunk, m, S), replies, disk, conn)
      /\ Busy(m) = S /\ Valid(m) = S
      /\ m.session = NoSession /\ S \subseteq current
         /\ (\A s \in conn : OneStatus(chunk, s, jobs[s], replies[s]))
         /\ (\A s \in Server : \A k \in jobs[s] : k.op = "delete" /\ k.from # 0 => ~m.inFile)
         => Holds(m, Told(jobs, chunk, m, S), replies, disk, conn, current)
  BY ZenonT(60), <1>1, <1>4, <1>5, MovePhase
<1>7. m.version # chunk.version /\ m.version # 0 /\ m.version >= chunk.version
  BY SMTT(60), <1>1
<1>8. jobs' = Told(jobs, chunk, m, S)
  BY ZenonT(60), <1>2, <1>6, <1>7 DEF After
<1>9. ChunkInv(m)
  <2>1. chunk.session.version \in Nat /\ NoSession.version = 0 /\ m.version \in Nat
    BY ZenonT(60), <1>1 DEF ChunkType, NoSession
  <2>2. m.session.version <= m.version
    BY SMTT(60), <1>1, <1>7, <2>1 DEF ChunkInv
  <2>3. QED
    BY ZenonT(60), <2>2 DEF ChunkInv
<1>10. ASSUME dropped = {}
       PROVE  OperationInv(m) /\ Holds(m, jobs', replies, disk, conn, current)
  <2>1. m.session = NoSession
    BY ZenonT(60), <1>1, <1>10
  <2>2. OperationInv(m)
    BY ZenonT(60), <1>6, <2>1 DEF OperationInv
  <2>3. S \subseteq current
    BY ZenonT(60), <1>1, <1>10 DEF Holds, CopyInv, Holding, Fresh
  <2>4. \A s \in conn : OneStatus(chunk, s, jobs[s], replies[s])
    BY ZenonT(60), <1>1, <1>10 DEF Holds, CopyInv
  <2>5. \A s \in Server : \A k \in jobs[s] : k.op = "delete" /\ k.from # 0 => ~m.inFile
    BY ZenonT(60), <1>1, <1>5, <1>10 DEF Holds, CopyInv, Increase
  <2>6. QED
    BY ZenonT(30), <1>6, <1>8, <2>1, <2>2, <2>3, <2>4, <2>5
<1>11. faults' \in Nat /\ dropped' \in SUBSET Server
  BY ZenonT(30), <1>1 DEF Types
<1>12. QED
  BY ZenonT(30), <1>1, <1>2, <1>3, <1>6, <1>7, <1>8, <1>9, <1>10, <1>11, MasterSteps

\* A chunk is created, or truncated.
LEMMA RequestSteps ==
    ASSUME ChunkIndInv, TruncateChunk \/ \E S \in SUBSET Server : CreateChunk(S)
    PROVE  ChunkIndInv'
<1>1. /\ Types /\ chunk \in ChunkType /\ chunk.version \in Nat
      /\ Fresh(chunk, jobs, replies, current) /\ Found /\ requests' \in Nat
  <2>1. Types /\ chunk \in ChunkType /\ chunk.version \in Nat
        /\ Fresh(chunk, jobs, replies, current)
    BY ZenonT(30), MasterFacts
  <2>2. Request
    BY ZenonT(60) DEF CreateChunk, TruncateChunk
  <2>3. QED
    BY SMTT(30), <2>1, <2>2 DEF Request, Types
<1>2. ASSUME NEW S \in SUBSET Server, CreateChunk(S) PROVE ChunkIndInv'
  <2>. DEFINE a == StartOperation(chunk, "create", S)
              m == [a EXCEPT !.locked = TRUE, !.inFile = TRUE, !.waiting = "write"]
  <2>1. /\ Become(m) /\ UNCHANGED <<conn, replies, disk, dropped, faults>>
        /\ chunk.version = 0 /\ S # {} /\ S \subseteq conn
    BY ZenonT(30), <1>2 DEF CreateChunk
  <2>2. "create" \in Operation
    BY ZenonT(30) DEF Operation
  <2>3. /\ a \in ChunkType /\ a.version = chunk.version + 1 /\ a.operation = "create"
        /\ a.needVersionIncrease = chunk.needVersionIncrease /\ a.session = chunk.session
        /\ \A s \in Server :
             a.parts[s] = IF s \in S THEN [state |-> "busy", version |-> chunk.version + 1]
                          ELSE chunk.parts[s]
    BY SMTT(60), <1>1, <2>2, StartFields
  <2>. HIDE DEF a
  <2>4. /\ m \in ChunkType /\ m.version = chunk.version + 1 /\ m.operation = "create"
        /\ m.needVersionIncrease = chunk.needVersionIncrease /\ m.session = chunk.session
        /\ m.parts = a.parts /\ m.locked /\ m.inFile /\ m.waiting = "write"
    BY ZenonT(30), <2>3 DEF ChunkType
  <2>. HIDE DEF m
  <2>5. /\ \A s \in S : m.parts[s].state = "busy" /\ m.parts[s].version = m.version
        /\ \A s \in Server \ S : m.parts[s] = chunk.parts[s]
    BY SMTT(60), <2>3, <2>4
  <2>6. /\ chunk.operation = "none" /\ chunk.session = NoSession /\ chunk.needVersionIncrease
        /\ Valid(chunk) = {}
    BY SMTT(60), <1>1, <2>1, PartSets DEF Fresh, Valid, NoPart
  <2>7. QED
    BY ZenonT(60), <1>1, <2>1, <2>4, <2>5, <2>6, StartSteps
<1>3. ASSUME TruncateChunk PROVE ChunkIndInv'
  <2>. DEFINE a == [chunk EXCEPT !.locked = TRUE, !.waiting = "truncate"]
              m == StartOperation(a, "truncate", Valid(chunk))
  <2>1. /\ Become(m) /\ UNCHANGED <<conn, replies, disk, dropped, faults>>
        /\ IsWritable(chunk) /\ chunk.inFile /\ ~chunk.locked /\ chunk.operation = "none"
    BY ZenonT(30), <1>3 DEF TruncateChunk
  <2>2. "truncate" \in Operation /\ Valid(chunk) \in SUBSET Server
    BY ZenonT(30) DEF Operation, Valid
  <2>3. /\ a \in ChunkType /\ a.version = chunk.version /\ a.session = chunk.session
        /\ a.needVersionIncrease = chunk.needVersionIncrease /\ a.inFile = chunk.inFile
        /\ a.parts = chunk.parts /\ a.locked /\ a.waiting = "truncate"
    BY ZenonT(30), <1>1 DEF ChunkType
  <2>. HIDE DEF a
  <2>4. /\ m \in ChunkType /\ m.version = a.version + 1 /\ m.operation = "truncate"
        /\ m.needVersionIncrease = a.needVersionIncrease /\ m.locked = a.locked
        /\ m.inFile = a.inFile /\ m.waiting = a.waiting /\ m.session = a.session
        /\ \A s \in Server :
             m.parts[s] = IF s \in Valid(chunk) THEN [state |-> "busy", version |-> a.version + 1]
                          ELSE a.parts[s]
    <3>1. m = StartOperation(a, "truncate", Valid(chunk))
      BY ZenonT(30)
    <3>. HIDE DEF m
    <3>2. a \in ChunkType
      BY ZenonT(30), <2>3
    <3>3. QED
      BY SMTT(60), <2>2, <3>1, <3>2, StartFields
  <2>. HIDE DEF m
  <2>5. /\ \A s \in Valid(chunk) : m.parts[s].state = "busy" /\ m.parts[s].version = m.version
        /\ \A s \in Server \ Valid(chunk) : m.parts[s] = chunk.parts[s]
    BY SMTT(60), <2>2, <2>3, <2>4
  <2>6. Valid(chunk) # {} /\ Valid(chunk) \subseteq conn
    BY ZenonT(30), <1>1, <2>1, <2>2, FoundParts DEF IsWritable
  <2>7. OperationInv(chunk) => chunk.session = NoSession
    BY ZenonT(60), <2>1 DEF OperationInv
  <2>8. /\ m.version = chunk.version + 1 /\ m.operation # "none" /\ m.operation # "create"
        /\ m.needVersionIncrease = chunk.needVersionIncrease /\ m.locked /\ m.inFile
        /\ m.waiting # "none" /\ m.session = chunk.session /\ m.inFile = chunk.inFile
    BY ZenonT(60), <2>1, <2>3, <2>4
  <2>9. QED
    BY ZenonT(30), <1>1, <2>1, <2>2, <2>4, <2>5, <2>6, <2>7, <2>8, StartSteps
<1>4. QED
  BY ZenonT(30), <1>2, <1>3

\* A client asks to write.
LEMMA WriteSteps ==
    ASSUME ChunkIndInv, WriteChunk
    PROVE  ChunkIndInv'
\* A client gets the chunk, for a write of the present version.
<1>GrantCopy.
    ASSUME NEW c, NEW m, NEW s \in Server, NEW J, NEW q, NEW d, NEW U, NEW cur,
           m.version = c.version, m.parts[s] = c.parts[s], m.operation = "none",
           c.operation = "none", m.inFile = c.inFile,
           ~c.needVersionIncrease, ~m.needVersionIncrease, IsWritable(c),
           m.session.locations = Valid(c),
           CopyInv(c, s, J, q, d, s \in U, cur)
    PROVE  CopyInv(m, s, J, q, d, s \in U, cur)
  <2> USE <1>GrantCopy
  <2>1. /\ s \in Valid(m) <=> s \in Valid(c)
        /\ s \in Busy(m) <=> s \in Busy(c)
    BY ZenonT(60), PartSets
  <2>2. s \in U => OneStatus(m, s, J, q)
    BY ZenonT(60), <2>1 DEF CopyInv, OneStatus
  <2>3. Holding(m, s, q, d, s \in U, cur)
    BY ZenonT(60), <2>1 DEF CopyInv, Holding
  <2>4. d = c.version => s \in Valid(c)
    BY ZenonT(60) DEF CopyInv, Increase
  <2>5. Writing(m, s, d, s \in U)
    BY ZenonT(60), <2>1, <2>4 DEF Writing
  <2>6. Increase(m, s, J, q, d)
    BY ZenonT(30), <2>1, <2>4 DEF CopyInv, Increase
  <2>7. QED
    BY ZenonT(60), <2>2, <2>3, <2>5, <2>6 DEF CopyInv
<1>1. /\ Types /\ chunk \in ChunkType /\ chunk.version \in Nat /\ conn \in SUBSET Server
      /\ jobs \in [Server -> SUBSET Job] /\ replies \in [Server -> Seq(Packet)]
      /\ disk \in [Server -> Nat] /\ current \in SUBSET Server
      /\ ChunkInv(chunk) /\ Fresh(chunk, jobs, replies, current)
      /\ Knows(chunk, jobs, replies, disk, conn)
      /\ dropped = {} => OperationInv(chunk) /\ Holds(chunk, jobs, replies, disk, conn, current)
  BY ZenonT(30), MasterFacts
<1>. DEFINE c == [chunk EXCEPT !.locked = TRUE, !.session = NoSession, !.waiting = "write"]
            g == [c EXCEPT !.interrupted = FALSE]
<1>2. /\ Found /\ requests' \in Nat /\ faults' \in Nat /\ dropped' \in SUBSET Server
      /\ chunk.inFile /\ IsWritable(chunk) /\ chunk.operation = "none"
      /\ UNCHANGED <<conn, replies, disk, dropped, faults>>
  BY SMTT(30), <1>1 DEF WriteChunk, Request, Types
<1>3. /\ chunk.needVersionIncrease => Become(StartOperation(c, "set_version", Valid(c)))
      /\ ~chunk.needVersionIncrease => Become(ChunkStatus(g, TRUE))
  BY ZenonT(30) DEF WriteChunk
<1>4. /\ c \in ChunkType /\ c.version = chunk.version /\ c.session = NoSession
      /\ c.needVersionIncrease = chunk.needVersionIncrease /\ c.inFile = chunk.inFile
      /\ c.parts = chunk.parts /\ c.locked /\ c.waiting = "write"
      /\ c.operation = chunk.operation
  BY ZenonT(60), <1>1 DEF ChunkType, NoSession
<1>5. Valid(c) = Valid(chunk)
  BY ZenonT(30), <1>4 DEF Valid
<1>6. CASE chunk.needVersionIncrease
  <2>. HIDE DEF c
  <2>. DEFINE m == StartOperation(c, "set_version", Valid(c))
  <2>1. m = StartOperation(c, "set_version", Valid(c)) /\ Become(m)
    BY ZenonT(30), <1>3, <1>6
  <2>. HIDE DEF m
  <2>2. "set_version" \in Operation /\ Valid(c) \in SUBSET Server /\ c \in ChunkType
    BY ZenonT(30), <1>4 DEF Operation, Valid
  <2>3. /\ m \in ChunkType /\ m.version = c.version + 1 /\ m.operation = "set_version"
        /\ m.needVersionIncrease = c.needVersionIncrease /\ m.locked = c.locked
        /\ m.inFile = c.inFile /\ m.waiting = c.waiting /\ m.session = c.session
        /\ \A s \in Server :
             m.parts[s] = IF s \in Valid(c) THEN [state |-> "busy", version |-> c.version + 1]
                          ELSE c.parts[s]
    BY SMTT(60), <2>1, <2>2, StartFields
  <2>4. /\ \A s \in Valid(chunk) : m.parts[s].state = "busy" /\ m.parts[s].version = m.version
        /\ \A s \in Server \ Valid(chunk) : m.parts[s] = chunk.parts[s]
        /\ Valid(chunk) \in SUBSET Server
    BY SMTT(60), <1>4, <1>5, <2>2, <2>3
  <2>5. Valid(chunk) # {} /\ Valid(chunk) \subseteq conn
    BY ZenonT(30), <1>2, <2>4, FoundParts DEF IsWritable
  <2>6. /\ m.version = chunk.version + 1 /\ m.operation # "none" /\ m.operation # "create"
        /\ m.needVersionIncrease = chunk.needVersionIncrease /\ m.locked /\ m.inFile
        /\ m.waiting # "none" /\ m.session = NoSession /\ m.inFile = chunk.inFile
    BY ZenonT(60), <1>2, <1>4, <2>3
  <2>7. QED
    BY ZenonT(30), <1>1, <1>2, <2>1, <2>3, <2>4, <2>5, <2>6, StartSteps
<1>7. CASE ~chunk.needVersionIncrease
  <2>1. /\ g \in ChunkType /\ g.version = chunk.version /\ g.operation = chunk.operation
        /\ g.needVersionIncrease = chunk.needVersionIncrease /\ g.inFile = chunk.inFile
        /\ g.parts = chunk.parts /\ g.locked /\ g.waiting = "write"
    BY ZenonT(30), <1>4 DEF ChunkType
  <2>. HIDE DEF g, c
  <2>. DEFINE m == ChunkStatus(g, TRUE)
  <2>2. m = ChunkStatus(g, TRUE) /\ Become(m)
    BY ZenonT(30), <1>3, <1>7
  <2>. HIDE DEF m
  <2>3. Valid(g) = Valid(chunk)
    BY ZenonT(30), <2>1 DEF Valid
  <2>4. /\ m \in ChunkType /\ m.version = chunk.version /\ m.operation = "none"
        /\ ~m.needVersionIncrease
        /\ m.parts = chunk.parts /\ m.waiting = "none" /\ m.inFile = chunk.inFile
        /\ m.session = [version |-> chunk.version, locations |-> Valid(chunk)]
        /\ m.locked
    <3>1. /\ m \in ChunkType /\ m.version = g.version /\ m.operation = g.operation
          /\ m.needVersionIncrease = g.needVersionIncrease
          /\ m.parts = g.parts /\ m.waiting = "none" /\ m.inFile = g.inFile
          /\ g.waiting = "write" =>
               /\ m.session = [version |-> g.version, locations |-> Valid(g)]
               /\ m.locked = g.locked
      BY ZenonT(60), <2>1, <2>2, OkFields
    <3>2. QED
      BY ZenonT(60), <1>2, <1>7, <2>1, <2>3, <3>1
  <2>5. /\ chunk' = m /\ jobs' = jobs /\ current' = CurrentAfter(chunk, m, disk, current)
        /\ current' \in SUBSET Server
    BY ZenonT(60), <1>1, <2>2, <2>4, Becomes
  <2>6. Knows(m, jobs, replies, disk, conn) /\ Valid(m) = Valid(chunk) /\ Busy(m) = Busy(chunk)
    BY ZenonT(60), <1>1, <2>4, SamePhase
  <2>7. ChunkInv(m) /\ m.version # 0
    <3>1. m.session.version = m.version /\ m.version <= m.version
      BY SMTT(60), <1>1, <2>4
    <3>2. ChunkInv(m)
      BY ZenonT(60), <1>1, <1>2, <2>6, <3>1 DEF ChunkInv
    <3>3. QED
      BY ZenonT(60), <1>1, <1>2, <2>4, <3>2 DEF Fresh
  <2>8. ASSUME dropped = {}
        PROVE  OperationInv(m) /\ Holds(m, jobs, replies, disk, conn, current)
    <3>1. OperationInv(m)
      BY SMTT(30), <1>2, <2>4 DEF OperationInv
    <3>2. ASSUME NEW s \in Server
          PROVE  CopyInv(m, s, jobs[s], replies[s], disk[s], s \in conn, current)
      <4>1. /\ CopyInv(chunk, s, jobs[s], replies[s], disk[s], s \in conn, current)
            /\ m.parts[s] = chunk.parts[s] /\ m.session.locations = Valid(chunk)
        BY SMTT(60), <1>1, <2>4, <2>8 DEF Holds
      <4>2. QED
        BY ZenonT(60), <1>2, <1>7, <2>4, <4>1, <1>GrantCopy
    <3>3. QED
      BY ZenonT(30), <3>1, <3>2 DEF Holds
  <2>9. dropped = {} => current' = current
    BY ZenonT(60), <1>1, <1>2, <2>5 DEF CurrentAfter, OperationInv
  <2>10. QED
    BY ZenonT(30), <1>1, <1>2, <2>4, <2>5, <2>6, <2>7, <2>8, <2>9, MasterSteps
<1>8. QED
  BY ZenonT(30), <1>6, <1>7

=============================================================================
