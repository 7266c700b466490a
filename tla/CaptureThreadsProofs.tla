------------------------ MODULE CaptureThreadsProofs ------------------------
(***************************************************************************)
(* Theorems about CaptureThreads, for every set of sources, every limit    *)
(* and any number of packets.                                              *)
(***************************************************************************)
EXTENDS CaptureThreads, NumberLemmas, SequenceTheorems, TLAPS

(* The length of a packet *)
LEMMA PacketLen == \A p \in Packet : p.len \in Nat /\ p.len <= MaxLen
<1> TAKE p \in Packet
<1>1. p.len \in Lens
  BY DEF Packet
<1>2. p.len \in 0..MaxLen /\ MaxLen \in Nat
  BY <1>1, LensAssumption
<1> QED BY <1>2

USE LimitAssumption, EventAssumption

(* Where a thread holds a packet, it is one; a reader's is its own. *)
Holding == {"callback", "enqueue", "load", "store"}
Hands ==
    /\ \A s \in Srcs : rpc[s] \in Holding =>
          rhand[s] \in Packet /\ rhand[s].src = s
    /\ mpc \in {"gate", "write", "load", "store"} => mhand \in Packet

QueueCount == qpackets = Len(queue)

Typing == TypeOK /\ Hands /\ QueueCount

(* The initial state is well typed: no thread holds a packet yet. *)
LEMMA InitTyping == Init => Typing
<1> SUFFICES ASSUME Init PROVE Typing
  OBVIOUS
<1>1. TypeOK
  <2>1. /\ count \in [Srcs -> [Counters -> Nat]]
        /\ rbump \in [Srcs -> Bump] /\ mbump \in Bump
    BY DEF Init, NoBump, Bumping, Bump, Counters
  <2>2. queue \in Seq(Packet) /\ file \in Seq(Packet)
    BY DEF Init
  <2>3. go \in BOOLEAN /\ joined \in BOOLEAN /\ err \in BOOLEAN
    BY DEF Init
  <2>4. pcapErr \in [Srcs -> BOOLEAN]
    BY DEF Init
  <2>5. arrived \in [Srcs -> 0..MaxPackets] /\ lost \in [Srcs -> SUBSET (1..MaxPackets)]
    BY DEF Init
  <2>6. /\ rpc \in [Srcs -> ReaderPCs] /\ mpc \in MainPCs
        /\ pipeErr \in [Srcs -> {"PIPOK", "PIPEOF", "PIPERR"}]
        /\ rhand \in [Srcs -> Packet \cup {None}] /\ mhand \in Packet \cup {None}
    BY DEF Init, ReaderPCs, MainPCs
  <2>7. /\ qbytes \in Int /\ qpackets \in Nat
        /\ captured \in Nat /\ bytes \in Nat /\ inpkts \in Nat
        /\ announced \in Nat /\ errors \subseteq {"select", "input", "output"}
    BY DEF Init
  <2> QED BY <2>1, <2>2, <2>3, <2>4, <2>5, <2>6, <2>7 DEF TypeOK
<1>2. Hands /\ QueueCount
  BY DEF Init, Hands, QueueCount, Holding
<1> QED BY <1>1, <1>2 DEF Typing

(* The values a counter increment starts from are well typed. *)
LEMMA BumpingTyping ==
    /\ Bumping("dropped") \in Bump /\ Bumping("flushed") \in Bump
    /\ NoBump \in Bump
BY DEF Bumping, NoBump, Bump, Counters

(* A step of a reader thread keeps the types, and its hand a packet of its *)
(* own source from the callback until the packet is queued or counted.     *)
LEMMA ReaderTyping ==
    ASSUME Typing, NEW s \in Srcs, Reader(s) PROVE Typing'
<1> USE DEF Typing, Hands, QueueCount, Holding, shared, qvars, rvars, mvars,
            outvars, hist, Goto, ReaderPCs
<1>1. CASE ReaderCheck(s)
  BY <1>1 DEF ReaderCheck, TypeOK
<1>2. CASE CallbackTest(s)
  <2>1. rhand[s] \in Packet
    BY <1>2 DEF CallbackTest
  <2>2. CASE go
    BY <1>2, <2>2, ZenonT(60) DEF CallbackTest, TypeOK
  <2>3. CASE ~go
    <3>1. rbump' \in [Srcs -> Bump]
      <4>1. rbump' = [rbump EXCEPT ![s] = Bumping("flushed")]
        BY <1>2, <2>3 DEF CallbackTest
      <4> QED BY <4>1, BumpingTyping DEF TypeOK
    <3>2. lost' \in [Srcs -> SUBSET (1..MaxPackets)]
      <4>1. lost' = [lost EXCEPT ![s] = @ \cup {rhand[s].seq}]
        BY <1>2, <2>3 DEF CallbackTest
      <4>2. rhand[s].seq \in 1..MaxPackets
        BY <2>1 DEF Packet
      <4> QED BY <4>1, <4>2 DEF TypeOK
    <3> QED BY <1>2, <2>3, <3>1, <3>2, ZenonT(60) DEF CallbackTest, TypeOK
  <2> QED BY <2>2, <2>3
<1>3. CASE Enqueue(s)
  <2>1. rhand[s] \in Packet
    BY <1>3 DEF Enqueue
  <2>2. CASE HasRoom
    <3>1. /\ Push(rhand[s])
          /\ count' = [count EXCEPT ![s]["received"] = @ + 1]
          /\ rhand' = [rhand EXCEPT ![s] = None]
          /\ rpc' = [rpc EXCEPT ![s] = Returned(s)]
      BY <1>3, <2>2 DEF Enqueue
    <3>2. queue' \in Seq(Packet) /\ qbytes' \in Int /\ qpackets' \in Nat
      BY <2>1, <3>1 DEF Push, TypeOK, Packet
    <3>3. count' \in [Srcs -> [Counters -> Nat]]
      BY <3>1, SMTT(30) DEF TypeOK, Counters
    <3>4. rpc' \in [Srcs -> ReaderPCs] /\ rpc'[s] \notin Holding
      BY <3>1 DEF TypeOK, Returned
    <3>5. TypeOK'
      BY <1>3, <2>2, <3>1, <3>2, <3>3, <3>4 DEF Enqueue, TypeOK
    <3>6. Hands'
      BY <1>3, <2>2, <3>1, <3>4 DEF Enqueue, TypeOK
    <3>7. QueueCount'
      BY <2>1, <3>1 DEF Push, TypeOK
    <3> QED BY <3>5, <3>6, <3>7
  <2>3. CASE ~HasRoom
    <3>1. rbump' \in [Srcs -> Bump]
      <4>1. rbump' = [rbump EXCEPT ![s] = Bumping("dropped")]
        BY <1>3, <2>3 DEF Enqueue
      <4> QED BY <4>1, BumpingTyping DEF TypeOK
    <3>2. lost' \in [Srcs -> SUBSET (1..MaxPackets)]
      <4>1. lost' = [lost EXCEPT ![s] = @ \cup {rhand[s].seq}]
        BY <1>3, <2>3 DEF Enqueue
      <4>2. rhand[s].seq \in 1..MaxPackets
        BY <2>1 DEF Packet
      <4> QED BY <4>1, <4>2 DEF TypeOK
    <3> QED BY <1>3, <2>3, <3>1, <3>2, ZenonT(60) DEF Enqueue, TypeOK
  <2> QED BY <2>2, <2>3
<1>4. CASE ReaderLoad(s)
  <2>1. rbump[s].ctr \in Counters /\ count[s][rbump[s].ctr] \in Nat
    BY DEF TypeOK, Bump
  <2>2. rbump' \in [Srcs -> Bump]
    BY <1>4, <2>1 DEF ReaderLoad, TypeOK, Bump
  <2> QED BY <1>4, <2>2 DEF ReaderLoad, TypeOK
<1>5. CASE ReaderStore(s)
  BY <1>5, SMTT(30) DEF ReaderStore, TypeOK, Bump, Returned, NoBump, Bumping, Counters
<1>6. CASE DispatchNothing(s)
  BY <1>6 DEF DispatchNothing, TypeOK
<1>7. CASE DispatchPacket(s)
  BY <1>7 DEF DispatchPacket, TypeOK, Packet
<1>8. CASE DispatchPipeEnd(s)
  BY <1>8 DEF DispatchPipeEnd, TypeOK
<1>9. CASE DispatchPcapError(s)
  BY <1>9 DEF DispatchPcapError, TypeOK
<1>10. CASE DispatchSelectError(s)
  BY <1>10 DEF DispatchSelectError, TypeOK
<1> QED
  BY <1>1, <1>2, <1>3, <1>4, <1>5, <1>6, <1>7, <1>8, <1>9, <1>10 DEF Reader

(* A step of the main thread keeps the types: what it popped is a packet   *)
(* until it is written or counted.                                         *)
LEMMA MainTyping == ASSUME Typing, Main PROVE Typing'
<1> USE DEF Typing, Hands, QueueCount, Holding, shared, qvars, rvars, mvars,
            outvars, hist, MainPCs
<1>1. CASE LoopTest
  BY <1>1 DEF LoopTest, TypeOK
<1>2. CASE Pop
  <2>1. queue \in Seq(Packet) /\ queue # <<>>
    BY <1>2 DEF Pop, TypeOK
  <2>2. Head(queue) \in Packet /\ Tail(queue) \in Seq(Packet)
        /\ Len(Tail(queue)) = Len(queue) - 1 /\ Len(queue) \in Nat \ {0}
    BY <2>1
  <2>3. qbytes' \in Int /\ qpackets' \in Nat /\ QueueCount'
    BY <1>2, <2>2 DEF Pop, Take, TypeOK, Packet
  <2>4. queue' \in Seq(Packet) /\ mhand' \in Packet
    BY <1>2, <2>2 DEF Pop, Take
  <2> QED BY <1>2, <2>3, <2>4 DEF Pop, TypeOK
<1>3. CASE PopTimeout
  BY <1>3 DEF PopTimeout, TypeOK
<1>4. CASE WriteTest
  <2>1. mhand \in Packet
    BY <1>4 DEF WriteTest
  <2>2. CASE go
    BY <1>4, <2>2 DEF WriteTest, TypeOK
  <2>3. CASE ~go
    <3>1. mbump' \in Bump
      BY <1>4, <2>3, BumpingTyping DEF WriteTest
    <3>2. lost' \in [Srcs -> SUBSET (1..MaxPackets)]
      <4>1. lost' = [lost EXCEPT ![mhand.src] = @ \cup {mhand.seq}]
        BY <1>4, <2>3 DEF WriteTest
      <4>2. mhand.seq \in 1..MaxPackets
        BY <2>1 DEF Packet
      <4> QED BY <4>1, <4>2 DEF TypeOK
    <3> QED BY <1>4, <2>3, <3>1, <3>2 DEF WriteTest, TypeOK
  <2> QED BY <2>2, <2>3
<1>5. CASE WritePacket
  <2>1. mhand \in Packet /\ mhand.len \in Nat
    <3>1. mhand \in Packet
      BY <1>5 DEF WritePacket
    <3> QED BY <3>1, PacketLen
  <2>2. file' \in Seq(Packet) /\ bytes' \in Nat /\ captured' \in Nat
        /\ inpkts' \in Nat
    BY <1>5, <2>1 DEF WritePacket, TypeOK
  <2>3. go' \in BOOLEAN
    BY <1>5 DEF WritePacket
  <2>4. mpc' \in MainPCs /\ mpc' \notin {"gate", "write", "load", "store"}
    BY <1>5 DEF WritePacket, AfterWrite
  <2> QED BY <1>5, <2>2, <2>3, <2>4 DEF WritePacket, TypeOK
<1>6. CASE WriteError
  <2>1. mhand \in Packet
    BY <1>6 DEF WriteError
  <2>2. mbump' \in Bump
    BY <1>6, BumpingTyping DEF WriteError
  <2>3. lost' \in [Srcs -> SUBSET (1..MaxPackets)]
    <3>1. lost' = [lost EXCEPT ![mhand.src] = @ \cup {mhand.seq}]
      BY <1>6 DEF WriteError
    <3>2. mhand.seq \in 1..MaxPackets
      BY <2>1 DEF Packet
    <3> QED BY <3>1, <3>2 DEF TypeOK
  <2> QED BY <1>6, <2>2, <2>3 DEF WriteError, TypeOK
<1>7. CASE MainLoad
  <2>1. mhand.src \in Srcs
    BY <1>7 DEF MainLoad, Packet
  <2>2. mbump' \in Bump
    BY <1>7, <2>1 DEF MainLoad, TypeOK, Bump
  <2> QED BY <1>7, <2>2 DEF MainLoad, TypeOK
<1>8. CASE MainStore
  <2>1. count' \in [Srcs -> [Counters -> Nat]]
    <3>1. mhand.src \in Srcs /\ mbump.ctr \in Counters /\ mbump.val + 1 \in Nat
      BY <1>8 DEF MainStore, Packet, TypeOK, Bump
    <3> QED BY <1>8, <3>1 DEF MainStore, TypeOK
  <2>2. mpc' \in MainPCs /\ mpc' \notin {"gate", "write", "load", "store"}
    BY <1>8 DEF MainStore, AfterWrite
  <2> QED BY <1>8, <2>1, <2>2, BumpingTyping DEF MainStore, TypeOK
<1>9. CASE Scan
  BY <1>9 DEF Scan, TypeOK
<1>10. CASE UpdateNotDue
  BY <1>10 DEF UpdateNotDue, TypeOK
<1>11. CASE Update
  <2>1. go' \in BOOLEAN
    BY <1>11 DEF Update, TypeOK
  <2>2. announced' \in Nat /\ inpkts' \in Nat
    BY <1>11 DEF Update, TypeOK
  <2> QED BY <1>11, <2>1, <2>2 DEF Update, TypeOK
<1>12. CASE Join
  BY <1>12 DEF Join, TypeOK
<1>13. CASE Finish
  <2>1. errors' \subseteq {"select", "input", "output"}
    BY <1>13 DEF Finish, TypeOK
  <2>2. announced' \in Nat /\ inpkts' \in Nat
    BY <1>13 DEF Finish, TypeOK
  <2> QED BY <1>13, <2>1, <2>2 DEF Finish, TypeOK
<1> QED
  BY <1>1, <1>2, <1>3, <1>4, <1>5, <1>6, <1>7, <1>8, <1>9, <1>10, <1>11,
     <1>12, <1>13 DEF Main

(* Every step of the program keeps the types. *)
LEMMA NextTyping == ASSUME Typing, [Next]_vars PROVE Typing'
<1>1. CASE \E s \in Srcs : Reader(s)
  BY <1>1, ReaderTyping
<1>2. CASE Main
  BY <1>2, MainTyping
<1>3. CASE Signal
  BY <1>3 DEF Signal, Typing, TypeOK, Hands, QueueCount, qvars, rvars, mvars,
              outvars, hist
<1>4. CASE UNCHANGED vars
  BY <1>4 DEF vars, Typing, TypeOK, Hands, QueueCount, shared, qvars, rvars,
              mvars, outvars, hist
<1> QED BY <1>1, <1>2, <1>3, <1>4 DEF Next, Terminated

(* Every variable keeps its type, in every reachable state. *)
THEOREM TypeCorrect == Spec => []TypeOK
<1>1. Typing => TypeOK
  BY DEF Typing
<1> QED BY <1>1, InitTyping, NextTyping, PTL DEF Spec

(***************************************************************************)
(* The limits of the queue.                                                *)
(***************************************************************************)
(* Only a reader that found room adds to the queue, and adds one packet. *)
LEMMA NextQueueBounded ==
    ASSUME Typing, QueueBounded, [Next]_vars PROVE QueueBounded'
<1> USE DEF QueueBounded
<1>1. CASE UNCHANGED qvars
  BY <1>1 DEF qvars
<1>2. ASSUME NEW s \in Srcs, Enqueue(s) PROVE QueueBounded'
  <2>1. CASE HasRoom
    <3>1. qbytes' = qbytes + rhand[s].len /\ qpackets' = qpackets + 1
      BY <1>2, <2>1 DEF Enqueue, Push
    <3>2. rhand[s] \in Packet
      BY <1>2 DEF Enqueue, Typing, Hands, Holding
    <3>3. qbytes \in Int /\ qpackets \in Nat
      BY DEF Typing, TypeOK
    <3> QED BY <2>1, <3>1, <3>2, <3>3, PacketLen, LensAssumption DEF HasRoom
  <2>2. CASE ~HasRoom
    BY <1>2, <2>2, <1>1 DEF Enqueue
  <2> QED BY <2>1, <2>2
<1>3. CASE Pop
  <2>1. Head(queue) \in Packet
    BY <1>3 DEF Pop, Typing, TypeOK
  <2>2. /\ qbytes' = qbytes - Head(queue).len /\ qpackets' = qpackets - 1
        /\ qbytes \in Int /\ qpackets \in Nat
    BY <1>3 DEF Pop, Take, Typing, TypeOK
  <2> QED BY <2>1, <2>2, PacketLen, LensAssumption
<1>4. ASSUME NEW s \in Srcs, Reader(s) PROVE Enqueue(s) \/ UNCHANGED qvars
  BY <1>4 DEF Reader, ReaderCheck, CallbackTest, ReaderLoad, ReaderStore,
              DispatchNothing, DispatchPacket, DispatchPipeEnd,
              DispatchPcapError, DispatchSelectError
<1>5. ASSUME Main PROVE Pop \/ UNCHANGED qvars
  BY <1>5 DEF Main, LoopTest, PopTimeout, WriteTest, WritePacket, WriteError,
              MainLoad, MainStore, Scan, UpdateNotDue, Update, Join, Finish
<1>6. Signal \/ Terminated \/ UNCHANGED vars => UNCHANGED qvars
  BY DEF Signal, Terminated, vars
<1> QED BY <1>1, <1>2, <1>3, <1>4, <1>5, <1>6 DEF Next

(* The queue never exceeds its packet limit, and its byte limit by less    *)
(* than one packet, for any number of readers and any limits.              *)
THEOREM QueueLimits == Spec => []QueueBounded
<1>1. Init => QueueBounded
  BY LensAssumption DEF Init, QueueBounded
<1> QED BY <1>1, InitTyping, NextTyping, NextQueueBounded, PTL DEF Spec

(***************************************************************************)
(* The limits of the capture.  The writer has tested go since its last     *)
(* packet, and only the writer can reach a limit.                          *)
(***************************************************************************)
BelowLimits ==
    /\ AutostopPackets > 0 => captured < AutostopPackets
    /\ AutostopFilesize > 0 => bytes < AutostopFilesize

AutostopInv ==
    /\ captured = Len(file)
    /\ go \/ mpc = "write" => BelowLimits
    /\ AutostopExact

(* Only the writer adds to the file, and only below the limits. *)
LEMMA NextAutostop ==
    ASSUME Typing, AutostopInv, [Next]_vars PROVE AutostopInv'
<1> USE DEF AutostopInv, AutostopExact, BelowLimits
<1>1. ASSUME UNCHANGED <<file, captured, bytes>>, go' => go,
             mpc' = "write" => mpc = "write" \/ go
      PROVE AutostopInv'
  BY <1>1
<1>2. ASSUME NEW s \in Srcs, Reader(s) PROVE AutostopInv'
  <2>1. UNCHANGED <<file, captured, bytes>> /\ (go' => go) /\ UNCHANGED mpc
    BY <1>2 DEF Reader, ReaderCheck, CallbackTest, Enqueue, ReaderLoad,
                ReaderStore, DispatchNothing, DispatchPacket, DispatchPipeEnd,
                DispatchPcapError, DispatchSelectError, shared, mvars, outvars
  <2> QED BY <1>1, <2>1
<1>3. CASE WritePacket
  <2>1. mhand \in Packet
    BY <1>3 DEF WritePacket, Typing, Hands
  <2>2. /\ file' = Append(file, mhand) /\ captured' = captured + 1
        /\ bytes' = bytes + mhand.len /\ mpc' # "write"
        /\ go' => ~LimitHit(captured', bytes')
    BY <1>3 DEF WritePacket, AfterWrite
  <2>3. BelowLimits
    BY <1>3 DEF WritePacket
  <2>4. file \in Seq(Packet) /\ captured \in Nat /\ bytes \in Nat
    BY DEF Typing, TypeOK
  <2>5. captured' = Len(file')
    BY <2>1, <2>2, <2>4
  <2>6. AutostopExact'
    BY <2>1, <2>2, <2>3, <2>4, <2>5, PacketLen, LensAssumption
  <2>7. captured' \in Nat /\ bytes' \in Nat
    BY <2>1, <2>2, <2>4, PacketLen
  <2>8. go' => BelowLimits'
    BY <2>2, <2>7 DEF LimitHit
  <2> QED BY <2>2, <2>5, <2>6, <2>8
<1>4. ASSUME Main, ~WritePacket PROVE AutostopInv'
  <2>1. /\ UNCHANGED <<file, captured, bytes>> /\ (go' => go)
        /\ mpc' = "write" => mpc = "write" \/ go
    <3>1. CASE WriteTest
      BY <3>1 DEF WriteTest, shared, outvars
    <3>2. CASE WriteError
      BY <3>2 DEF WriteError
    <3>3. CASE LoopTest \/ Pop \/ PopTimeout \/ UpdateNotDue \/ Join
      BY <3>3 DEF LoopTest, Pop, PopTimeout, UpdateNotDue, Join, shared, outvars
    <3>4. CASE MainLoad \/ MainStore
      BY <3>4 DEF MainLoad, MainStore, AfterWrite, shared, outvars
    <3>5. CASE Scan
      BY <3>5 DEF Scan, outvars
    <3>6. CASE Update \/ Finish
      BY <3>6 DEF Update, Finish, shared
    <3> QED BY <1>4, <3>1, <3>2, <3>3, <3>4, <3>5, <3>6 DEF Main
  <2> QED BY <1>1, <2>1
<1>5. CASE Signal
  BY <1>1, <1>5 DEF Signal, mvars, outvars
<1>6. CASE UNCHANGED vars
  BY <1>1, <1>6 DEF vars, shared, mvars, outvars
<1> QED BY <1>2, <1>3, <1>4, <1>5, <1>6 DEF Next, Terminated

(* A capture stops exactly at its packet limit and less than one packet    *)
(* beyond its size limit, whatever the readers, signals and errors do.     *)
THEOREM AutostopHolds == Spec => []AutostopExact
<1>1. Init => AutostopInv
  BY LensAssumption DEF Init, AutostopInv, AutostopExact, BelowLimits
<1>2. AutostopInv => AutostopExact
  BY DEF AutostopInv
<1> QED BY <1>1, <1>2, InitTyping, NextTyping, NextAutostop, PTL DEF Spec

(***************************************************************************)
(* The way of the packets: none vanishes, none is doubled, each source     *)
(* keeps its order, and the counters of the queue are those of what is in  *)
(* it.  From this follow the final accounting and that the threads         *)
(* implement CaptureContract.                                              *)
(***************************************************************************)

(***************************************************************************)
(* The counters of the queue.                                              *)
(***************************************************************************)
(* Sums(t, sq): t gives for each n the length of the first n packets.      *)
Sums(t, sq) ==
    /\ t \in [0..Len(sq) -> Int]
    /\ t[0] = 0
    /\ \A n \in 1..Len(sq) : t[n] = t[n - 1] + sq[n].len

(* What BytesOf computes is the last of the sums, which are unique.        *)
LEMMA BytesOfIs ==
    ASSUME NEW sq \in Seq(Packet), NEW t, Sums(t, sq)
    PROVE  BytesOf(sq) = t[Len(sq)]
<1> DEFINE Step(f) == [n \in 0..Len(sq) |-> IF n = 0 THEN 0 ELSE f[n - 1] + sq[n].len]
<1>1. t = Step(t)
  BY DEF Sums
<1>2. ASSUME NEW f, f = Step(f) PROVE f = t
  <2> DEFINE Agree == {n \in Nat : n \in 0..Len(sq) => f[n] = t[n]}
  <2>1. 0 \in Agree
    BY <1>2 DEF Sums
  <2>2. ASSUME NEW n \in Nat, n \in Agree PROVE n + 1 \in Agree
    <3> SUFFICES ASSUME n + 1 \in 0..Len(sq) PROVE f[n + 1] = t[n + 1]
      OBVIOUS
    <3>1. n + 1 \in 1..Len(sq) /\ n \in 0..Len(sq) /\ (n + 1) - 1 = n
      OBVIOUS
    <3>2. f[n + 1] = f[n] + sq[n + 1].len
      BY <1>2, <3>1
    <3>3. t[n + 1] = t[n] + sq[n + 1].len
      BY <3>1 DEF Sums
    <3> QED
      BY <2>2, <3>1, <3>2, <3>3
  <2> HIDE DEF Agree
  <2>3. \A n \in Nat : n \in Agree
    BY <2>1, <2>2, SetInduction
  <2>4. \A n \in 0..Len(sq) : f[n] = t[n]
    BY <2>3 DEF Agree
  <2> QED
    BY <1>1, <1>2, <2>4 DEF Sums
<1> HIDE DEF Step
<1>3. (CHOOSE f : f = Step(f)) = t
  BY <1>1, <1>2
<1> QED
  BY <1>3 DEF BytesOf, Step

(* An added packet adds its length, a removed one takes it away.           *)
LEMMA SumsAppend ==
    ASSUME NEW sq \in Seq(Packet), NEW p \in Packet, NEW t, Sums(t, sq)
    PROVE  \E u : Sums(u, Append(sq, p)) /\ u[Len(sq) + 1] = t[Len(sq)] + p.len
<1> DEFINE u == [n \in 0..(Len(sq) + 1) |-> IF n <= Len(sq) THEN t[n] ELSE t[Len(sq)] + p.len]
<1>1. p.len \in Nat /\ Len(Append(sq, p)) = Len(sq) + 1 /\ Len(sq) \in Nat
  BY PacketLen
<1>2. u \in [0..(Len(sq) + 1) -> Int] /\ u[0] = 0
  BY <1>1, SMTT(30) DEF Sums
<1>3. \A n \in 1..(Len(sq) + 1) : u[n] = u[n - 1] + Append(sq, p)[n].len
  BY <1>1 DEF Sums
<1>4. u[Len(sq) + 1] = t[Len(sq)] + p.len
  BY <1>1
<1> QED
  BY <1>1, <1>2, <1>3, <1>4 DEF Sums

(* The sums of the tail are those of the sequence, less its first packet.  *)
LEMMA SumsTail ==
    ASSUME NEW sq \in Seq(Packet), sq # <<>>, NEW t, Sums(t, sq)
    PROVE  \E u : /\ Sums(u, Tail(sq))
                  /\ u[Len(Tail(sq))] = t[Len(sq)] - Head(sq).len
<1> DEFINE u == [n \in 0..(Len(sq) - 1) |-> t[n + 1] - Head(sq).len]
<1>1. /\ Head(sq) \in Packet /\ Head(sq).len \in Nat /\ Head(sq) = sq[1]
      /\ Len(sq) \in Nat \ {0} /\ Len(Tail(sq)) = Len(sq) - 1
      /\ \A n \in 1..(Len(sq) - 1) : Tail(sq)[n] = sq[n + 1]
  BY PacketLen
<1>2. t[1] = sq[1].len
  BY <1>1 DEF Sums
<1>3. u \in [0..(Len(sq) - 1) -> Int] /\ u[0] = 0
  BY <1>1, <1>2 DEF Sums
<1>4. ASSUME NEW n \in 1..(Len(sq) - 1) PROVE u[n] = u[n - 1] + Tail(sq)[n].len
  <2>1. t[n + 1] = t[n] + sq[n + 1].len /\ t[n] \in Int /\ sq[n + 1].len \in Nat
    BY <1>1, PacketLen DEF Sums
  <2>2. u[n] = t[n + 1] - Head(sq).len /\ u[n - 1] = t[n] - Head(sq).len
    BY <1>1
  <2> QED
    BY <1>1, <2>1, <2>2
<1>5. u[Len(sq) - 1] = t[Len(sq)] - Head(sq).len
  BY <1>1
<1> QED
  BY <1>1, <1>3, <1>4, <1>5 DEF Sums

(* The counters, in the form in which a step keeps them.                   *)
QueueSums == \E t : Sums(t, queue) /\ qbytes = t[Len(queue)]

(* With its sums given, qbytes is what BytesOf computes of the queue.      *)
LEMMA SumsAreAccounting == ASSUME Typing, QueueSums PROVE QueueAccounting
<1>1. PICK t : Sums(t, queue) /\ qbytes = t[Len(queue)]
  BY DEF QueueSums
<1>2. queue \in Seq(Packet) /\ qpackets = Len(queue)
  BY DEF Typing, TypeOK, QueueCount
<1> QED
  BY <1>1, <1>2, BytesOfIs DEF QueueAccounting

(* Only a reader that found room and the main thread touch the queue.      *)
LEMMA QueueTouched ==
    ASSUME [Next]_vars
    PROVE  UNCHANGED qvars \/ (\E s \in Srcs : Enqueue(s) /\ HasRoom) \/ Pop
<1>1. ASSUME NEW s \in Srcs, Reader(s) PROVE (Enqueue(s) /\ HasRoom) \/ UNCHANGED qvars
  <2>1. CASE Enqueue(s)
    BY <2>1 DEF Enqueue
  <2>2. CASE ~Enqueue(s)
    BY <1>1, <2>2 DEF Reader, ReaderCheck, CallbackTest, ReaderLoad, ReaderStore,
                DispatchNothing, DispatchPacket, DispatchPipeEnd,
                DispatchPcapError, DispatchSelectError
  <2> QED BY <2>1, <2>2
<1>2. ASSUME Main PROVE Pop \/ UNCHANGED qvars
  BY <1>2 DEF Main, LoopTest, PopTimeout, WriteTest, WritePacket, WriteError,
              MainLoad, MainStore, Scan, UpdateNotDue, Update, Join, Finish
<1>3. Signal \/ Terminated \/ UNCHANGED vars => UNCHANGED qvars
  BY DEF Signal, Terminated, vars
<1> QED BY <1>1, <1>2, <1>3 DEF Next

(* Every step keeps the sums: a packet joins at the end or leaves at the   *)
(* head.                                                                   *)
LEMMA NextQueueSums ==
    ASSUME Typing, QueueSums, [Next]_vars PROVE QueueSums'
<1>0. queue \in Seq(Packet)
  BY DEF Typing, TypeOK
<1>1. PICK t : Sums(t, queue) /\ qbytes = t[Len(queue)]
  BY DEF QueueSums
<1>2. CASE UNCHANGED qvars
  BY <1>1, <1>2 DEF QueueSums, qvars
<1>3. ASSUME NEW s \in Srcs, Enqueue(s), HasRoom PROVE QueueSums'
  <2>1. rhand[s] \in Packet
    BY <1>3 DEF Enqueue, Typing, Hands, Holding
  <2>2. queue' = Append(queue, rhand[s]) /\ qbytes' = qbytes + rhand[s].len
    BY <1>3 DEF Enqueue, Push
  <2>3. PICK u : /\ Sums(u, Append(queue, rhand[s]))
                 /\ u[Len(queue) + 1] = t[Len(queue)] + rhand[s].len
    BY <1>0, <1>1, <2>1, SumsAppend
  <2>4. Len(queue') = Len(queue) + 1
    BY <1>0, <2>1, <2>2
  <2> QED
    BY <1>1, <2>2, <2>3, <2>4 DEF QueueSums
<1>4. CASE Pop
  <2>1. queue # <<>> /\ queue' = Tail(queue) /\ qbytes' = qbytes - Head(queue).len
    BY <1>4 DEF Pop, Take
  <2>2. PICK u : Sums(u, Tail(queue)) /\ u[Len(Tail(queue))] = t[Len(queue)] - Head(queue).len
    BY <1>0, <1>1, <2>1, SumsTail
  <2> QED
    BY <1>1, <2>1, <2>2 DEF QueueSums
<1> QED BY <1>2, <1>3, <1>4, QueueTouched

(* At the start the queue is empty and its sums are zero.                  *)
LEMMA InitQueueSums == Init => QueueSums
<1> SUFFICES ASSUME Init PROVE QueueSums
  OBVIOUS
<1>1. Sums([n \in 0..0 |-> 0], queue) /\ qbytes = [n \in 0..0 |-> 0][Len(queue)]
  BY DEF Init, Sums
<1> QED
  BY <1>1 DEF QueueSums

(***************************************************************************)
(* Order and fate of the packets.                                          *)
(***************************************************************************)
Before(a, b) == a.src = b.src => a.seq < b.seq
Ordered(sq)  == \A i, j \in 1..Len(sq) : i < j => Before(sq[i], sq[j])

(* The way of the packets up to the hands of the readers, first the oldest *)
Way == file \o WriterHand \o queue

(* The packets each reader has passed on or lost.                          *)
Passed == [s \in Srcs |-> IF InCallback(s) THEN arrived[s] - 1 ELSE arrived[s]]

(* Of way, lost and passed: each source's packets are on the way in order, *)
(* and those it passed are on the way or lost, none both.                  *)
Exact(w, l, p) ==
    /\ Ordered(w)
    /\ \A s \in Srcs : /\ SeqsOf(w, s) \cap l[s] = {}
                       /\ SeqsOf(w, s) \cup l[s] = 1..p[s]

HandIsNext == \A s \in Srcs : InCallback(s) => rhand[s].seq = arrived[s]

PipelineInv == Exact(Way, lost, Passed) /\ HandIsNext

(* What the numbers of a source are when a sequence grows.                 *)
LEMMA SeqsOfAppend ==
    ASSUME NEW sq \in Seq(Packet), NEW p \in Packet, NEW s
    PROVE  SeqsOf(Append(sq, p), s) = SeqsOf(sq, s) \cup (IF p.src = s THEN {p.seq} ELSE {})
<1> DEFINE new == Append(sq, p)
<1>1. /\ Len(new) = Len(sq) + 1 /\ Len(sq) \in Nat /\ new[Len(sq) + 1] = p
      /\ \A i \in 1..Len(sq) : new[i] = sq[i]
      /\ DOMAIN new = 1..(Len(sq) + 1) /\ DOMAIN sq = 1..Len(sq)
  OBVIOUS
<1> HIDE DEF new
<1>2. ASSUME NEW x PROVE x \in SeqsOf(new, s) <=>
          x \in SeqsOf(sq, s) \/ (p.src = s /\ x = p.seq)
  BY <1>1 DEF SeqsOf, FromSource
<1> QED
  BY <1>2 DEF new

(* The numbers of two sequences are those of their concatenation.          *)
LEMMA SeqsOfConcat ==
    ASSUME NEW sq \in Seq(Packet), NEW tq \in Seq(Packet), NEW s
    PROVE  SeqsOf(sq \o tq, s) = SeqsOf(sq, s) \cup SeqsOf(tq, s)
<1> DEFINE new == sq \o tq
<1>1. /\ DOMAIN new = 1..(Len(sq) + Len(tq)) /\ Len(sq) \in Nat /\ Len(tq) \in Nat
      /\ DOMAIN sq = 1..Len(sq) /\ DOMAIN tq = 1..Len(tq)
      /\ \A i \in 1..Len(sq) : new[i] = sq[i]
      /\ \A i \in (Len(sq) + 1)..(Len(sq) + Len(tq)) : new[i] = tq[i - Len(sq)]
  <2>1. /\ new \in Seq(Packet) /\ Len(new) = Len(sq) + Len(tq)
        /\ \A i \in 1..(Len(sq) + Len(tq)) :
              new[i] = IF i <= Len(sq) THEN sq[i] ELSE tq[i - Len(sq)]
    BY ConcatProperties
  <2>2. Len(sq) \in Nat /\ Len(tq) \in Nat /\ DOMAIN sq = 1..Len(sq) /\ DOMAIN tq = 1..Len(tq)
    BY LenProperties
  <2>3. DOMAIN new = 1..(Len(sq) + Len(tq))
    BY <2>1, LenProperties
  <2> HIDE DEF new
  <2> QED
    BY <2>1, <2>2, <2>3
<1> HIDE DEF new
<1>2. \A i \in 1..Len(tq) : new[Len(sq) + i] = tq[i] /\ Len(sq) + i \in DOMAIN new
  BY <1>1
<1>3. \A i \in DOMAIN new : \/ i \in DOMAIN sq /\ new[i] = sq[i]
                            \/ i - Len(sq) \in DOMAIN tq /\ new[i] = tq[i - Len(sq)]
  BY <1>1
<1>4. ASSUME NEW x PROVE x \in SeqsOf(new, s) <=> x \in SeqsOf(sq, s) \/ x \in SeqsOf(tq, s)
  <2>1. ASSUME x \in SeqsOf(new, s) PROVE x \in SeqsOf(sq, s) \/ x \in SeqsOf(tq, s)
    BY <1>3, <2>1 DEF SeqsOf, FromSource
  <2>2. ASSUME x \in SeqsOf(sq, s) PROVE x \in SeqsOf(new, s)
    BY <1>1, <2>2 DEF SeqsOf, FromSource
  <2>3. ASSUME x \in SeqsOf(tq, s) PROVE x \in SeqsOf(new, s)
    BY <1>1, <1>2, <2>3 DEF SeqsOf, FromSource
  <2> QED BY <2>1, <2>2, <2>3
<1> QED
  BY <1>4 DEF new

(* A packet that comes after all others of its source keeps the order.     *)
LEMMA OrderedAppend ==
    ASSUME NEW sq \in Seq(Packet), NEW p \in Packet, Ordered(sq),
           \A x \in SeqsOf(sq, p.src) : x < p.seq
    PROVE  Ordered(Append(sq, p))
<1> DEFINE new == Append(sq, p)
<1>1. /\ Len(new) = Len(sq) + 1 /\ Len(sq) \in Nat /\ DOMAIN sq = 1..Len(sq)
      /\ new[Len(sq) + 1] = p
      /\ \A i \in 1..Len(sq) : new[i] = sq[i]
  OBVIOUS
<1> HIDE DEF new
<1>2. ASSUME NEW i \in 1..Len(sq) PROVE Before(sq[i], p)
  BY <1>1 DEF Before, SeqsOf, FromSource
<1>3. ASSUME NEW i \in 1..Len(new), NEW j \in 1..Len(new), i < j
      PROVE  Before(new[i], new[j])
  <2>1. CASE j = Len(sq) + 1
    BY <1>1, <1>2, <1>3, <2>1
  <2>2. CASE j # Len(sq) + 1
    BY <1>1, <1>3, <2>2 DEF Ordered
  <2> QED BY <2>1, <2>2
<1> QED
  BY <1>3 DEF Ordered, new

(* A packet in the middle: without it, the order is kept and the numbers   *)
(* are the others, of which none is its own.                               *)
LEMMA WithoutMiddle ==
    ASSUME NEW f \in Seq(Packet), NEW m \in Packet, NEW q \in Seq(Packet),
           Ordered((f \o <<m>>) \o q)
    PROVE  /\ Ordered((f \o <<>>) \o q)
           /\ \A s : SeqsOf((f \o <<m>>) \o q, s)
                       = SeqsOf((f \o <<>>) \o q, s) \cup (IF m.src = s THEN {m.seq} ELSE {})
           /\ m.seq \notin SeqsOf((f \o <<>>) \o q, m.src)
           /\ \A x \in SeqsOf(f, m.src) : x < m.seq
<1> DEFINE all == (f \o <<m>>) \o q
           rest == f \o q
           at(i) == IF i <= Len(f) THEN i ELSE i + 1
<1>0. f \o <<>> = f /\ f \o <<m>> = Append(f, m) /\ <<m>> \in Seq(Packet) /\ f \o <<m>> \in Seq(Packet)
  <2>1. f \o <<>> = f
    BY ConcatEmptySeq
  <2> QED
    BY <2>1
<1>1. /\ all \in Seq(Packet) /\ rest \in Seq(Packet)
      /\ Len(f) \in Nat /\ Len(q) \in Nat
      /\ Len(all) = Len(f) + 1 + Len(q) /\ Len(rest) = Len(f) + Len(q)
      /\ \A i \in 1..Len(f) : all[i] = f[i] /\ rest[i] = f[i]
      /\ all[Len(f) + 1] = m
      /\ \A i \in 1..Len(q) : all[Len(f) + 1 + i] = q[i] /\ rest[Len(f) + i] = q[i]
  BY <1>0
<1> HIDE DEF all, rest
<1>11. DOMAIN rest = 1..Len(rest) /\ DOMAIN f = 1..Len(f)
  BY <1>1, LenProperties
<1>2. ASSUME NEW i \in 1..Len(rest) PROVE at(i) \in 1..Len(all) /\ rest[i] = all[at(i)]
  <2>1. CASE i <= Len(f)
    BY <1>1, <2>1
  <2>2. CASE ~(i <= Len(f))
    <3>1. i - Len(f) \in 1..Len(q) /\ i = Len(f) + (i - Len(f))
          /\ at(i) = Len(f) + 1 + (i - Len(f))
      BY <1>1, <2>2
    <3> DEFINE k == i - Len(f)
    <3>2. k \in 1..Len(q) /\ i = Len(f) + k /\ at(i) = Len(f) + 1 + k
      BY <3>1
    <3> HIDE DEF k
    <3>3. rest[Len(f) + k] = q[k] /\ all[Len(f) + 1 + k] = q[k]
      BY <1>1, <3>2
    <3>4. Len(f) + 1 + k \in 1..Len(all)
      BY <1>1, <3>2
    <3> HIDE DEF at
    <3> QED
      BY <3>2, <3>3, <3>4
  <2> QED
    BY <2>1, <2>2
<1>3. \A i, j \in 1..Len(rest) : i < j => at(i) < at(j)
  BY <1>1
<1>4. Ordered(rest)
  BY <1>2, <1>3 DEF Ordered, all
<1>5. \A i \in 1..Len(rest) : at(i) # Len(f) + 1
  BY <1>1
<1>6. Len(f) + 1 \in 1..Len(all)
  BY <1>1
<1>7. \A i \in 1..Len(rest) : rest[i].src = m.src => rest[i].seq # m.seq
  <2> SUFFICES ASSUME NEW i \in 1..Len(rest), rest[i].src = m.src
               PROVE  rest[i].seq # m.seq
    OBVIOUS
  <2>1. /\ rest[i] = all[at(i)] /\ at(i) \in 1..Len(all) /\ at(i) # Len(f) + 1
        /\ all[Len(f) + 1] = m /\ Len(f) + 1 \in 1..Len(all)
    BY <1>1, <1>2, <1>5, <1>6
  <2>2. rest[i].seq \in Int /\ m.seq \in Int
    <3>1. rest[i] \in Packet
      BY <1>1, ElementOfSeq
    <3> QED
      BY <3>1 DEF Packet
  <2>3. at(i) < Len(f) + 1 \/ Len(f) + 1 < at(i)
    BY <1>1, <2>1
  <2>4. Before(rest[i], m) \/ Before(m, rest[i])
    BY <2>1, <2>3 DEF Ordered, all
  <2> QED
    BY <2>2, <2>4 DEF Before
<1>8. m.seq \notin SeqsOf(rest, m.src)
  BY <1>7, <1>11 DEF SeqsOf, FromSource
<1>9. ASSUME NEW s
      PROVE  SeqsOf(all, s) = SeqsOf(rest, s) \cup (IF m.src = s THEN {m.seq} ELSE {})
  <2>1. SeqsOf(all, s) = SeqsOf(Append(f, m), s) \cup SeqsOf(q, s)
    <3>1. PICK g \in Seq(Packet) : g = Append(f, m) /\ all = g \o q
      BY <1>0 DEF all
    <3>2. SeqsOf(g \o q, s) = SeqsOf(g, s) \cup SeqsOf(q, s)
      BY SeqsOfConcat
    <3> QED
      BY <3>1, <3>2
  <2>2. SeqsOf(Append(f, m), s) = SeqsOf(f, s) \cup (IF m.src = s THEN {m.seq} ELSE {})
    BY SeqsOfAppend
  <2>3. SeqsOf(rest, s) = SeqsOf(f, s) \cup SeqsOf(q, s)
    BY SeqsOfConcat DEF rest
  <2> QED
    BY <2>1, <2>2, <2>3
<1>10. \A x \in SeqsOf(f, m.src) : x < m.seq
  <2> SUFFICES ASSUME NEW i \in 1..Len(f), f[i].src = m.src PROVE f[i].seq < m.seq
    BY <1>11 DEF SeqsOf, FromSource
  <2>1. i < Len(f) + 1 /\ i \in 1..Len(all) /\ all[i] = f[i]
    BY <1>1
  <2> QED
    BY <1>1, <1>6, <2>1 DEF Ordered, all, Before
<1> QED
  BY <1>0, <1>4, <1>8, <1>9, <1>10 DEF all, rest

(***************************************************************************)
(* What happens to a packet, for any way of packets.                       *)
(***************************************************************************)
Fates == [Srcs -> SUBSET (1..MaxPackets)]

(* Its reader's next packet is lost.                                       *)
LEMMA ReaderLoses ==
    ASSUME NEW w, NEW l \in Fates, NEW p \in [Srcs -> Nat], Exact(w, l, p),
           NEW s \in Srcs
    PROVE  Exact(w, [l EXCEPT ![s] = @ \cup {p[s] + 1}], [p EXCEPT ![s] = @ + 1])
<1> DEFINE l2 == [l EXCEPT ![s] = @ \cup {p[s] + 1}]
           p2 == [p EXCEPT ![s] = @ + 1]
<1>1. ASSUME NEW t \in Srcs
      PROVE  SeqsOf(w, t) \cap l2[t] = {} /\ SeqsOf(w, t) \cup l2[t] = 1..p2[t]
  <2>1. SeqsOf(w, t) \cap l[t] = {} /\ SeqsOf(w, t) \cup l[t] = 1..p[t]
    BY DEF Exact
  <2>2. CASE t = s
    <3>1. l2[t] = l[t] \cup {p[t] + 1} /\ p2[t] = p[t] + 1 /\ p[t] \in Nat
      BY <2>2 DEF Fates
    <3> QED BY <2>1, <3>1
  <2>3. CASE t # s
    BY <2>1, <2>3 DEF Fates
  <2> QED BY <2>2, <2>3
<1> QED
  BY <1>1 DEF Exact

(* It is put at the end of the way.                                        *)
LEMMA ReaderQueues ==
    ASSUME NEW w \in Seq(Packet), NEW l \in Fates, NEW p \in [Srcs -> Nat],
           Exact(w, l, p), NEW a \in Packet, a.seq = p[a.src] + 1
    PROVE  Exact(Append(w, a), l, [p EXCEPT ![a.src] = @ + 1])
<1> DEFINE p2 == [p EXCEPT ![a.src] = @ + 1]
<1>0. a.src \in Srcs
  BY DEF Packet
<1>1. \A x \in SeqsOf(w, a.src) : x < a.seq
  BY <1>0 DEF Exact
<1>2. Ordered(Append(w, a))
  BY <1>1, OrderedAppend DEF Exact
<1>3. ASSUME NEW t \in Srcs
      PROVE  /\ SeqsOf(Append(w, a), t) \cap l[t] = {}
             /\ SeqsOf(Append(w, a), t) \cup l[t] = 1..p2[t]
  <2>1. SeqsOf(w, t) \cap l[t] = {} /\ SeqsOf(w, t) \cup l[t] = 1..p[t]
    BY DEF Exact
  <2>2. SeqsOf(Append(w, a), t) = SeqsOf(w, t) \cup (IF a.src = t THEN {a.seq} ELSE {})
    BY SeqsOfAppend
  <2>3. CASE t = a.src
    <3>1. p2[t] = p[t] + 1 /\ p[t] \in Nat /\ a.seq = p[t] + 1
      BY <2>3
    <3> QED BY <2>1, <2>2, <2>3, <3>1
  <2>4. CASE t # a.src
    BY <2>1, <2>2, <2>4
  <2> QED BY <2>3, <2>4
<1> QED
  BY <1>2, <1>3 DEF Exact

(* The packet in the writer's hand is lost.                                *)
LEMMA WriterLoses ==
    ASSUME NEW f \in Seq(Packet), NEW m \in Packet, NEW q \in Seq(Packet),
           NEW l \in Fates, NEW p, Exact((f \o <<m>>) \o q, l, p)
    PROVE  Exact((f \o <<>>) \o q, [l EXCEPT ![m.src] = @ \cup {m.seq}], p)
<1> DEFINE l2 == [l EXCEPT ![m.src] = @ \cup {m.seq}]
           all == (f \o <<m>>) \o q
           rest == (f \o <<>>) \o q
<1>0. /\ Ordered(rest) /\ m.seq \notin SeqsOf(rest, m.src)
      /\ \A s : SeqsOf(all, s) = SeqsOf(rest, s) \cup (IF m.src = s THEN {m.seq} ELSE {})
      /\ \A s \in Srcs : /\ SeqsOf(all, s) \cap l[s] = {}
                         /\ SeqsOf(all, s) \cup l[s] = 1..p[s]
  BY WithoutMiddle DEF Exact
<1> HIDE DEF all, rest
<1>1. ASSUME NEW t \in Srcs
      PROVE  SeqsOf(rest, t) \cap l2[t] = {} /\ SeqsOf(rest, t) \cup l2[t] = 1..p[t]
  <2>1. l2[t] = IF t = m.src THEN l[t] \cup {m.seq} ELSE l[t]
    BY DEF Fates
  <2> QED
    BY <1>0, <2>1
<1>2. Exact(rest, l2, p)
  BY <1>0, <1>1 DEF Exact
<1> QED
  BY <1>2 DEF rest

(* The head of the queue moves into the writer's hand.                     *)
LEMMA HeadMoves ==
    ASSUME NEW f \in Seq(Packet), NEW q \in Seq(Packet), q # <<>>
    PROVE  (f \o <<>>) \o q = (f \o <<Head(q)>>) \o Tail(q)
<1>1. Head(q) \in Packet /\ Tail(q) \in Seq(Packet) /\ <<Head(q)>> \in Seq(Packet)
  BY HeadTailProperties
<1>2. q = <<Head(q)>> \o Tail(q)
  BY <1>1
<1>3. (f \o <<Head(q)>>) \o Tail(q) = f \o (<<Head(q)>> \o Tail(q))
  BY <1>1, ConcatAssociative
<1> QED
  BY <1>2, <1>3, ConcatEmptySeq

(***************************************************************************)
(* The steps of the threads.                                               *)
(***************************************************************************)
(* The types that the steps rest on.                                       *)
LEMMA PipelineTypes ==
    ASSUME Typing
    PROVE  /\ file \in Seq(Packet) /\ queue \in Seq(Packet)
           /\ WriterHand \in Seq(Packet) /\ Way \in Seq(Packet)
           /\ lost \in Fates /\ arrived \in [Srcs -> Nat]
           /\ Writing => mhand \in Packet
           /\ \A s \in Srcs : InCallback(s) => rhand[s] \in Packet /\ rhand[s].src = s
           /\ \A p \in Packet : p.src \in Srcs /\ p.seq \in Nat
<1>1. file \in Seq(Packet) /\ queue \in Seq(Packet)
  BY DEF Typing, TypeOK
<1>2. arrived \in [Srcs -> Nat] /\ lost \in Fates
  BY DEF Typing, TypeOK, Fates
<1>3. /\ Writing => mhand \in Packet
      /\ \A s \in Srcs : InCallback(s) => rhand[s] \in Packet /\ rhand[s].src = s
  BY DEF Typing, Hands, Holding, Writing, InCallback
<1>4. \A p \in Packet : p.src \in Srcs /\ p.seq \in Nat
  BY DEF Packet
<1>5. WriterHand \in Seq(Packet)
  BY <1>3 DEF WriterHand
<1>6. Way \in Seq(Packet)
  BY <1>1, <1>5 DEF Way
<1> QED
  BY <1>1, <1>2, <1>3, <1>4, <1>5, <1>6

(* A reader with a packet in its hand has passed one less than arrived.    *)
LEMMA PassedTypes ==
    ASSUME Typing, HandIsNext
    PROVE  /\ Passed \in [Srcs -> Nat]
           /\ \A s \in Srcs : InCallback(s) => rhand[s].seq = Passed[s] + 1
<1>1. ASSUME NEW s \in Srcs, InCallback(s)
      PROVE  arrived[s] - 1 \in Nat /\ rhand[s].seq = arrived[s]
  <2>1. rhand[s] \in Packet /\ rhand[s].seq = arrived[s]
    BY <1>1, PipelineTypes DEF HandIsNext
  <2>2. rhand[s].seq \in 1..MaxPackets
    BY <2>1 DEF Packet
  <2> QED BY <2>1, <2>2
<1>2. \A s \in Srcs : arrived[s] \in Nat
  BY PipelineTypes
<1> QED
  BY <1>1, <1>2 DEF Passed

(* The steps that move no packet: the way, the lost and the passed stay.   *)
Settled == Way' = Way /\ lost' = lost /\ Passed' = Passed /\ HandIsNext'

(* A reader's step that keeps it in or out of its callback.                *)
LEMMA ReaderStays ==
    ASSUME Typing, HandIsNext, UNCHANGED <<file, queue, mvars, hist, rhand>>,
           \A s \in Srcs : InCallback(s)' <=> InCallback(s)
    PROVE  Settled
<1>1. Way' = Way
  BY DEF Way, WriterHand, Writing, mvars
<1>2. Passed' = Passed /\ HandIsNext' /\ lost' = lost
  BY DEF Passed, HandIsNext, hist
<1> QED
  BY <1>1, <1>2 DEF Settled

(* The steps of a reader: a packet arrives, is queued, or is lost by it.   *)
LEMMA ReaderPipeline ==
    ASSUME Typing, PipelineInv, NEW s \in Srcs, Reader(s) PROVE PipelineInv'
<1>0. /\ rpc \in [Srcs -> ReaderPCs] /\ rhand \in [Srcs -> Packet \cup {None}]
      /\ HandIsNext /\ Exact(Way, lost, Passed)
  BY DEF Typing, TypeOK, PipelineInv
<1>1. CASE \/ ReaderCheck(s) \/ ReaderLoad(s) \/ DispatchNothing(s) \/ DispatchPipeEnd(s)
           \/ DispatchPcapError(s) \/ DispatchSelectError(s) \/ (CallbackTest(s) /\ go)
  <2>1. UNCHANGED <<file, queue, mvars, hist, rhand>>
    BY <1>1 DEF ReaderCheck, ReaderLoad, DispatchNothing, DispatchPipeEnd,
                DispatchPcapError, DispatchSelectError, CallbackTest, qvars, outvars, hist
  <2>2. \A t \in Srcs : InCallback(t)' <=> InCallback(t)
    BY <1>0, <1>1 DEF ReaderCheck, ReaderLoad, DispatchNothing, DispatchPipeEnd,
                DispatchPcapError, DispatchSelectError, CallbackTest, Goto, InCallback
  <2> QED
    BY <1>0, <2>1, <2>2, ReaderStays DEF Settled, PipelineInv
<1>2. CASE ReaderStore(s)
  <2>1. Way' = Way /\ lost' = lost
    BY <1>2 DEF ReaderStore, Way, WriterHand, Writing, qvars, mvars, outvars, hist
  <2>2. /\ \A t \in Srcs : InCallback(t)' <=> InCallback(t)
        /\ \A t \in Srcs : InCallback(t) => rhand'[t] = rhand[t]
        /\ arrived' = arrived
    BY <1>0, <1>2 DEF ReaderStore, Goto, InCallback, Returned, hist
  <2>3. Passed' = Passed /\ HandIsNext'
    BY <1>0, <2>2 DEF Passed, HandIsNext
  <2> QED
    BY <1>0, <2>1, <2>3 DEF PipelineInv
<1>3. CASE DispatchPacket(s)
  <2>1. Way' = Way /\ lost' = lost
    BY <1>3 DEF DispatchPacket, Way, WriterHand, Writing, qvars, mvars, outvars
  <2>2. /\ ~InCallback(s) /\ InCallback(s)' /\ rhand'[s].seq = arrived[s] + 1
        /\ arrived' = [arrived EXCEPT ![s] = @ + 1]
        /\ \A t \in Srcs \ {s} : (InCallback(t)' <=> InCallback(t)) /\ rhand'[t] = rhand[t]
    BY <1>0, <1>3 DEF DispatchPacket, Goto, InCallback
  <2>3. HandIsNext'
    BY <1>0, <2>2, PipelineTypes DEF HandIsNext
  <2>4. Passed' = Passed
    BY <2>2, PipelineTypes DEF Passed
  <2> QED
    BY <1>0, <2>1, <2>3, <2>4 DEF PipelineInv
<1>4. ASSUME InCallback(s), ~InCallback(s)', UNCHANGED arrived,
             \A t \in Srcs \ {s} : (InCallback(t)' <=> InCallback(t)) /\ rhand'[t] = rhand[t]
      PROVE  Passed' = [Passed EXCEPT ![s] = @ + 1] /\ HandIsNext'
  <2>1. HandIsNext'
    BY <1>0, <1>4 DEF HandIsNext
  <2>2. Passed[s] = arrived[s] - 1 /\ Passed'[s] = arrived[s] /\ arrived[s] \in Nat
    BY <1>4, PipelineTypes DEF Passed
  <2>3. \A t \in Srcs \ {s} : Passed'[t] = Passed[t]
    BY <1>4 DEF Passed
  <2>4. Passed' \in [Srcs -> Int] /\ Passed \in [Srcs -> Int]
    BY <1>4, PipelineTypes DEF Passed
  <2> QED
    BY <2>1, <2>2, <2>3, <2>4
<1>5. CASE (CallbackTest(s) /\ ~go) \/ (Enqueue(s) /\ ~HasRoom)
  <2>1. Way' = Way /\ lost' = [lost EXCEPT ![s] = @ \cup {rhand[s].seq}]
    BY <1>5 DEF CallbackTest, Enqueue, Way, WriterHand, Writing, qvars, mvars, outvars
  <2>2. /\ InCallback(s) /\ ~InCallback(s)' /\ UNCHANGED arrived
        /\ \A t \in Srcs \ {s} : (InCallback(t)' <=> InCallback(t)) /\ rhand'[t] = rhand[t]
    BY <1>0, <1>5 DEF CallbackTest, Enqueue, Goto, InCallback
  <2>3. rhand[s].seq = Passed[s] + 1
    BY <1>0, <2>2, PassedTypes
  <2>4. Exact(Way, lost', Passed')
    <3>1. Passed \in [Srcs -> Nat] /\ lost \in Fates
      BY <1>0, PassedTypes, PipelineTypes
    <3>2. Exact(Way, [lost EXCEPT ![s] = @ \cup {Passed[s] + 1}], [Passed EXCEPT ![s] = @ + 1])
      BY <1>0, <3>1, ReaderLoses
    <3>3. lost' = [lost EXCEPT ![s] = @ \cup {Passed[s] + 1}] /\ Passed' = [Passed EXCEPT ![s] = @ + 1]
      BY <1>4, <2>1, <2>2, <2>3
    <3> QED
      BY <3>2, <3>3
  <2> QED
    BY <1>4, <2>1, <2>2, <2>4 DEF PipelineInv
<1>6. CASE Enqueue(s) /\ HasRoom
  <2>1. /\ InCallback(s) /\ ~InCallback(s)' /\ UNCHANGED arrived
        /\ \A t \in Srcs \ {s} : (InCallback(t)' <=> InCallback(t)) /\ rhand'[t] = rhand[t]
    BY <1>0, <1>6 DEF Enqueue, Goto, InCallback, Returned
  <2>2. rhand[s] \in Packet /\ rhand[s].src = s /\ rhand[s].seq = Passed[s] + 1
    BY <1>0, <2>1, PassedTypes, PipelineTypes
  <2>3. /\ lost' = lost /\ queue' = Append(queue, rhand[s])
        /\ file' = file /\ WriterHand' = WriterHand
    BY <1>6 DEF Enqueue, Push, WriterHand, Writing, mvars, outvars
  <2>4. Way' = Append(Way, rhand[s])
    <3> DEFINE f == file \o WriterHand
    <3>1. f \in Seq(Packet) /\ queue \in Seq(Packet)
      BY PipelineTypes
    <3> HIDE DEF f
    <3>2. f \o Append(queue, rhand[s]) = Append(f \o queue, rhand[s])
      BY <2>2, <3>1
    <3> QED
      BY <2>3, <3>2 DEF Way, f
  <2>5. Exact(Append(Way, rhand[s]), lost, Passed')
    <3>1. Passed \in [Srcs -> Nat] /\ lost \in Fates /\ Way \in Seq(Packet)
      BY <1>0, PassedTypes, PipelineTypes
    <3>2. Exact(Append(Way, rhand[s]), lost, [Passed EXCEPT ![s] = @ + 1])
      <4>1. Exact(Append(Way, rhand[s]), lost, [Passed EXCEPT ![rhand[s].src] = @ + 1])
        <5>1. rhand[s].seq = Passed[rhand[s].src] + 1 /\ Exact(Way, lost, Passed)
          BY <1>0, <2>2
        <5> QED
          BY <2>2, <3>1, <5>1, ReaderQueues
      <4> QED
        BY <2>2, <4>1
    <3>3. Passed' = [Passed EXCEPT ![s] = @ + 1]
      BY <1>4, <2>1
    <3> QED
      BY <3>2, <3>3
  <2> QED
    BY <1>4, <2>1, <2>3, <2>4, <2>5 DEF PipelineInv
<1> QED
  BY <1>1, <1>2, <1>3, <1>5, <1>6 DEF Reader

(* A step of the main thread passes its packet on, from the queue to its   *)
(* hand to the file, or loses it.                                          *)
LEMMA MainPipeline == ASSUME Typing, PipelineInv, Main PROVE PipelineInv'
<1>0. HandIsNext /\ Exact(Way, lost, Passed)
  BY DEF PipelineInv
<1>1. ASSUME Main PROVE UNCHANGED <<arrived, rvars>>
  BY <1>1 DEF Main, LoopTest, Pop, PopTimeout, WriteTest, WritePacket, WriteError,
         MainLoad, MainStore, Scan, UpdateNotDue, Update, Join, Finish, hist
<1>2. Passed' = Passed /\ HandIsNext'
  BY <1>0, <1>1 DEF Passed, HandIsNext, InCallback, rvars
<1>3. CASE \/ LoopTest \/ PopTimeout \/ MainLoad \/ MainStore \/ Scan \/ UpdateNotDue
           \/ Update \/ Join \/ Finish \/ (WriteTest /\ go)
  <2>1. UNCHANGED <<file, queue, lost>>
    BY <1>3 DEF LoopTest, PopTimeout, MainLoad, MainStore, Scan, UpdateNotDue, Update,
                Join, Finish, WriteTest, qvars, outvars, hist
  <2>2. (Writing' <=> Writing) /\ (Writing => mhand' = mhand)
    BY <1>3 DEF LoopTest, PopTimeout, MainLoad, MainStore, Scan, UpdateNotDue, Update,
                Join, Finish, WriteTest, AfterWrite, Writing
  <2>3. Way' = Way
    BY <2>1, <2>2 DEF Way, WriterHand
  <2> QED
    BY <1>0, <1>2, <2>1, <2>3 DEF PipelineInv
<1>4. CASE Pop
  <2>1. /\ ~Writing /\ Writing' /\ queue # <<>> /\ mhand' = Head(queue)
        /\ queue' = Tail(queue) /\ file' = file /\ lost' = lost
    BY <1>4 DEF Pop, Take, Writing, outvars, hist
  <2>2. Way = (file \o <<>>) \o queue /\ Way' = (file \o <<Head(queue)>>) \o Tail(queue)
    BY <2>1 DEF Way, WriterHand
  <2>3. (file \o <<>>) \o queue = (file \o <<Head(queue)>>) \o Tail(queue)
    BY <2>1, PipelineTypes, HeadMoves
  <2> QED
    BY <1>0, <1>2, <2>1, <2>2, <2>3 DEF PipelineInv
<1>5. CASE WritePacket
  <2>1. /\ Writing /\ ~Writing' /\ file' = Append(file, mhand)
        /\ queue' = queue /\ lost' = lost /\ mhand \in Packet
    BY <1>5, PipelineTypes DEF WritePacket, AfterWrite, Writing, qvars, hist
  <2>2. Way = (file \o <<mhand>>) \o queue /\ Way' = (Append(file, mhand) \o <<>>) \o queue
    BY <2>1 DEF Way, WriterHand
  <2>3. file \o <<mhand>> = Append(file, mhand) \o <<>>
    <3>1. file \o <<mhand>> = Append(file, mhand) /\ Append(file, mhand) \in Seq(Packet)
      BY <2>1, PipelineTypes
    <3> QED
      BY <3>1, ConcatEmptySeq
  <2> QED
    BY <1>0, <1>2, <2>1, <2>2, <2>3 DEF PipelineInv
<1>6. CASE WriteError \/ (WriteTest /\ ~go)
  <2>1. /\ Writing /\ ~Writing' /\ file' = file /\ queue' = queue /\ mhand \in Packet
        /\ lost' = [lost EXCEPT ![mhand.src] = @ \cup {mhand.seq}]
    BY <1>6, PipelineTypes DEF WriteError, WriteTest, Writing, qvars, outvars
  <2>2. Way = (file \o <<mhand>>) \o queue /\ Way' = (file \o <<>>) \o queue
    BY <2>1 DEF Way, WriterHand
  <2>3. Exact((file \o <<>>) \o queue, lost', Passed)
    BY <1>0, <2>1, <2>2, PipelineTypes, WriterLoses
  <2> QED
    BY <1>2, <2>2, <2>3 DEF PipelineInv
<1> QED
  BY <1>3, <1>4, <1>5, <1>6 DEF Main

(* Every step keeps the pipeline.                                          *)
LEMMA NextPipeline == ASSUME Typing, PipelineInv, [Next]_vars PROVE PipelineInv'
<1>1. CASE Signal \/ UNCHANGED vars
  <2>1. UNCHANGED <<file, queue, lost, arrived, mpc, mhand, rpc, rhand>>
    BY <1>1 DEF Signal, vars, qvars, rvars, mvars, outvars, hist
  <2> QED
    BY <2>1 DEF PipelineInv, Way, WriterHand, Writing, Passed, HandIsNext, InCallback
<1> QED
  BY <1>1, ReaderPipeline, MainPipeline DEF Next, Terminated

(* At the start nothing is on its way.                                     *)
LEMMA InitPipeline == Init => PipelineInv
<1> SUFFICES ASSUME Init PROVE PipelineInv
  OBVIOUS
<1>1. /\ Way = <<>> /\ HandIsNext /\ \A s \in Srcs : lost[s] = {} /\ Passed[s] = 0
  BY DEF Init, Way, WriterHand, Writing, HandIsNext, Passed, InCallback
<1>2. Ordered(<<>>) /\ \A s : SeqsOf(<<>>, s) = {}
  BY DEF Ordered, SeqsOf, FromSource
<1> QED
  BY <1>1, <1>2 DEF PipelineInv, Exact

(* With the packet in its reader's hand, the way of a source is complete.  *)
LEMMA PipelineIsExact ==
    ASSUME Typing, PipelineInv PROVE SourceOrder /\ Conservation
<1>1. ASSUME NEW s \in Srcs
      PROVE  /\ Pipeline(s) \in Seq(Packet) /\ Ordered(Pipeline(s))
             /\ SeqsOf(Pipeline(s), s) \cap lost[s] = {}
             /\ SeqsOf(Pipeline(s), s) \cup lost[s] = 1..arrived[s]
  <2>0. /\ Passed \in [Srcs -> Nat] /\ lost \in Fates /\ Way \in Seq(Packet)
        /\ HandIsNext /\ Exact(Way, lost, Passed)
    BY PassedTypes, PipelineTypes DEF PipelineInv
  <2>1. CASE ~InCallback(s)
    <3>1. Pipeline(s) = Way
      BY <2>0, <2>1, ConcatEmptySeq DEF Pipeline, ReaderHand, Way
    <3>2. Passed[s] = arrived[s]
      BY <2>1 DEF Passed
    <3> QED
      BY <2>0, <3>1, <3>2 DEF Exact
  <2>2. CASE InCallback(s)
    <3>1. rhand[s] \in Packet /\ rhand[s].src = s /\ rhand[s].seq = Passed[s] + 1
      BY <2>0, <2>2, PassedTypes, PipelineTypes
    <3>2. Pipeline(s) = Way \o <<rhand[s]>>
      BY <2>2 DEF Pipeline, ReaderHand, Way
    <3>3. Way \o <<rhand[s]>> = Append(Way, rhand[s]) /\ Append(Way, rhand[s]) \in Seq(Packet)
      BY <2>0, <3>1
    <3>4. Exact(Append(Way, rhand[s]), lost, [Passed EXCEPT ![rhand[s].src] = @ + 1])
      <4>1. rhand[s].seq = Passed[rhand[s].src] + 1 /\ Exact(Way, lost, Passed)
        BY <2>0, <3>1
      <4> QED
        BY <2>0, <3>1, <4>1, ReaderQueues
    <3>5. Passed[s] + 1 = arrived[s]
      BY <2>2, PipelineTypes DEF Passed
    <3> QED
      BY <2>0, <3>1, <3>2, <3>3, <3>4, <3>5 DEF Exact
  <2> QED BY <2>1, <2>2
<1>2. Conservation
  BY <1>1 DEF Conservation
<1>3. SourceOrder
  <2> SUFFICES ASSUME NEW s \in Srcs, NEW i \in FromSource(Pipeline(s), s),
                      NEW j \in FromSource(Pipeline(s), s), i < j
               PROVE  Pipeline(s)[i].seq < Pipeline(s)[j].seq
    BY DEF SourceOrder
  <2>1. DOMAIN Pipeline(s) = 1..Len(Pipeline(s))
    BY <1>1, LenProperties
  <2> QED
    BY <1>1, <2>1 DEF Ordered, Before, FromSource
<1> QED
  BY <1>2, <1>3

(* No packet vanishes, is doubled or overtakes one of its source, and the  *)
(* counters of the queue are always those of what is in it, whatever the   *)
(* readers, the writer, the limits and the errors do.                      *)
THEOREM PacketsAreExact == Spec => []PipelineExact
<1>1. Typing /\ QueueSums /\ PipelineInv => PipelineExact
  BY SumsAreAccounting, PipelineIsExact DEF PipelineExact
<1> QED
  BY <1>1, InitTyping, NextTyping, InitQueueSums, NextQueueSums, InitPipeline,
     NextPipeline, PTL DEF Spec

(***************************************************************************)
(* The end of the capture.                                                 *)
(***************************************************************************)
(* Once the main thread has joined them the readers are gone, and it ends  *)
(* only with the queue empty; what is not yet announced is what it counted *)
(* since the last announcement.                                            *)
EndInv ==
    /\ joined => \A s \in Srcs : rpc[s] = "done"
    /\ mpc \in {"drain", "finish", "done"} => joined
    /\ mpc \in {"loop", "pop", "scan", "update", "join"} => ~joined
    /\ mpc \in {"finish", "done"} => queue = <<>>
    /\ announced + inpkts = Len(file)
    /\ mpc = "done" => inpkts = 0

(* A reader does nothing once it has ended.                                *)
LEMMA ReaderEnd == ASSUME Typing, EndInv, NEW s \in Srcs, Reader(s) PROVE EndInv'
<1>1. rpc[s] # "done" /\ UNCHANGED <<mvars, file, inpkts, announced>>
  BY DEF Reader, ReaderCheck, CallbackTest, Enqueue, ReaderLoad, ReaderStore,
         DispatchNothing, DispatchPacket, DispatchPipeEnd, DispatchPcapError,
         DispatchSelectError, outvars
<1>2. ~joined /\ mpc \notin {"finish", "done"}
  BY <1>1 DEF EndInv
<1> QED
  BY <1>1, <1>2 DEF EndInv, mvars

(* The main thread joins all readers and empties the queue before it is    *)
(* done.                                                                   *)
LEMMA MainEnd == ASSUME Typing, EndInv, Main PROVE EndInv'
<1> USE DEF EndInv, shared, qvars, rvars, outvars
<1>0. file \in Seq(Packet) /\ announced \in Nat /\ inpkts \in Nat
  BY DEF Typing, TypeOK
<1>1. CASE LoopTest \/ PopTimeout \/ UpdateNotDue \/ Scan \/ MainLoad
  BY <1>1 DEF LoopTest, PopTimeout, UpdateNotDue, Scan, MainLoad
<1>2. CASE Pop
  BY <1>2 DEF Pop
<1>3. CASE WriteTest \/ WriteError
  BY <1>3 DEF WriteTest, WriteError
<1>4. CASE WritePacket
  <2>1. Len(file') = Len(file) + 1 /\ inpkts' = inpkts + 1 /\ announced' = announced
    BY <1>0, <1>4, PipelineTypes DEF WritePacket, Writing
  <2> QED
    BY <1>0, <1>4, <2>1 DEF WritePacket, AfterWrite
<1>5. CASE MainStore
  BY <1>5 DEF MainStore, AfterWrite
<1>6. CASE Update
  BY <1>0, <1>6 DEF Update
<1>7. CASE Join
  BY <1>7 DEF Join
<1>8. CASE Finish
  BY <1>0, <1>8 DEF Finish
<1> QED
  BY <1>1, <1>2, <1>3, <1>4, <1>5, <1>6, <1>7, <1>8 DEF Main

(* Every step keeps what holds from the join on.                           *)
LEMMA NextEnd == ASSUME Typing, EndInv, [Next]_vars PROVE EndInv'
<1>1. CASE Signal \/ UNCHANGED vars
  BY <1>1 DEF EndInv, Signal, vars, qvars, rvars, mvars, outvars
<1> QED
  BY <1>1, ReaderEnd, MainEnd DEF Next, Terminated

(* At the start all threads run.                                           *)
LEMMA InitEnd == Init => EndInv
BY DEF Init, EndInv

(* At the end the way is the file.                                         *)
LEMMA EndIsFinal == ASSUME Typing, PipelineInv, EndInv PROVE FinalAccounting
<1> SUFFICES ASSUME mpc = "done" PROVE FinalAccounting
  BY DEF FinalAccounting
<1>1. queue = <<>> /\ announced = Len(file) /\ \A s \in Srcs : rpc[s] = "done"
  BY DEF EndInv, Typing, TypeOK
<1>2. Way = file
  <2>1. Way = (file \o <<>>) \o <<>> /\ file \in Seq(Packet)
    BY <1>1, PipelineTypes DEF Way, WriterHand, Writing
  <2> QED
    BY <2>1, ConcatEmptySeq
<1>3. \A s \in Srcs : Passed[s] = arrived[s]
  BY <1>1 DEF Passed, InCallback
<1> QED
  BY <1>1, <1>2, <1>3 DEF FinalAccounting, PipelineInv, Exact

(***************************************************************************)
(* The counts of drops.  Two threads increment a counter without a lock,   *)
(* so an increment may be overwritten and a count may fall; whatever value *)
(* is stored in the end, it is at most what was lost when it was loaded.   *)
(***************************************************************************)
(* The values counter c of s has or may yet get one less than              *)
Vals(s, c) ==
    {count[s][c]}
    \cup {x \in {rbump[s].val} : rpc[s] = "store" /\ rbump[s].ctr = c}
    \cup {x \in {mbump.val} : mpc = "store" /\ mhand.src = s /\ mbump.ctr = c}

(* The threads that still have to count a packet of s.                     *)
ReaderOwes(s) == IF rpc[s] \in {"load", "store"} THEN 1 ELSE 0
MainOwes(s)   == IF mpc \in {"load", "store"} /\ mhand.src = s THEN 1 ELSE 0

DropsHold(s) ==
    \A x \in Vals(s, "dropped"), y \in Vals(s, "flushed") :
        x + y + ReaderOwes(s) + MainOwes(s) <= Cardinality(lost[s])

DropsInv == \A s \in Srcs : DropsHold(s)

(* What the counters and the packets lost are made of.                     *)
LEMMA DropsTypes ==
    ASSUME Typing
    PROVE  /\ \A s \in Srcs, c \in Counters : Vals(s, c) \subseteq Nat
           /\ \A s \in Srcs : /\ ReaderOwes(s) \in {0, 1} /\ MainOwes(s) \in {0, 1}
                              /\ Cardinality(lost[s]) \in Nat /\ IsFiniteSet(lost[s])
           /\ "dropped" \in Counters /\ "flushed" \in Counters
<1>1. ASSUME NEW s \in Srcs, NEW c \in Counters PROVE Vals(s, c) \subseteq Nat
  BY DEF Vals, Typing, TypeOK, Bump
<1>2. ASSUME NEW s \in Srcs PROVE Cardinality(lost[s]) \in Nat /\ IsFiniteSet(lost[s])
  <2>1. lost[s] \subseteq 1..MaxPackets /\ MaxPackets \in Nat
    BY EventAssumption DEF Typing, TypeOK
  <2>2. IsFiniteSet(1..MaxPackets)
    BY <2>1, FS_Interval
  <2>3. IsFiniteSet(lost[s])
    BY <2>1, <2>2, FS_Subset
  <2> QED
    BY <2>3, FS_CardinalityType
<1> QED
  BY <1>1, <1>2 DEF ReaderOwes, MainOwes, Counters

(* No thread takes on or counts a packet of s.                             *)
LEMMA NothingCounted ==
    ASSUME Typing, NEW s \in Srcs, DropsHold(s), lost'[s] = lost[s],
           Vals(s, "dropped")' \subseteq Vals(s, "dropped"),
           Vals(s, "flushed")' \subseteq Vals(s, "flushed"),
           ReaderOwes(s)' = ReaderOwes(s), MainOwes(s)' = MainOwes(s)
    PROVE  DropsHold(s)'
BY DropsTypes DEF DropsHold

(* A thread takes on to count a packet that is now lost.                   *)
LEMMA OneToCount ==
    ASSUME Typing, NEW s \in Srcs, DropsHold(s), NEW n, n \notin lost[s],
           lost'[s] = lost[s] \cup {n},
           Vals(s, "dropped")' \subseteq Vals(s, "dropped"),
           Vals(s, "flushed")' \subseteq Vals(s, "flushed"),
           ReaderOwes(s)' + MainOwes(s)' = ReaderOwes(s) + MainOwes(s) + 1
    PROVE  DropsHold(s)'
<1>1. Cardinality(lost'[s]) = Cardinality(lost[s]) + 1
  BY DropsTypes, FS_AddElement
<1>2. ReaderOwes(s)' \in {0, 1} /\ MainOwes(s)' \in {0, 1}
  BY DEF ReaderOwes, MainOwes
<1>3. ASSUME NEW x \in Vals(s, "dropped")', NEW y \in Vals(s, "flushed")'
      PROVE  x + y + ReaderOwes(s)' + MainOwes(s)' <= Cardinality(lost'[s])
  <2>1. x + y + ReaderOwes(s) + MainOwes(s) <= Cardinality(lost[s]) /\ x \in Nat /\ y \in Nat
    BY DropsTypes DEF DropsHold
  <2> QED
    BY <1>1, <1>2, <2>1, DropsTypes
<1> QED
  BY <1>3 DEF DropsHold

(* A thread stores the count of its packet.                                *)
LEMMA OneCounted ==
    ASSUME Typing, NEW s \in Srcs, DropsHold(s), lost'[s] = lost[s],
           NEW c \in Counters, NEW v \in Vals(s, c),
           Vals(s, c)' \subseteq Vals(s, c) \cup {v + 1},
           \A d \in Counters \ {c} : Vals(s, d)' \subseteq Vals(s, d),
           ReaderOwes(s)' + MainOwes(s)' + 1 = ReaderOwes(s) + MainOwes(s)
    PROVE  DropsHold(s)'
<1>1. ReaderOwes(s)' \in {0, 1} /\ MainOwes(s)' \in {0, 1}
  BY DEF ReaderOwes, MainOwes
<1>2. ASSUME NEW x \in Vals(s, "dropped")', NEW y \in Vals(s, "flushed")'
      PROVE  x + y + ReaderOwes(s)' + MainOwes(s)' <= Cardinality(lost'[s])
  <2>1. v \in Nat /\ Cardinality(lost[s]) \in Nat
    BY DropsTypes
  <2>2. PICK w \in Vals(s, "dropped") : x = w \/ (c = "dropped" /\ w = v /\ x = v + 1)
    BY DropsTypes
  <2>3. PICK z \in Vals(s, "flushed") : y = z \/ (c = "flushed" /\ z = v /\ y = v + 1)
    BY DropsTypes
  <2>4. w + z + ReaderOwes(s) + MainOwes(s) <= Cardinality(lost[s]) /\ w \in Nat /\ z \in Nat
    BY DropsTypes DEF DropsHold
  <2>5. x + y <= w + z + 1 /\ x \in Nat /\ y \in Nat
    BY <2>1, <2>2, <2>3, <2>4
  <2> QED
    BY <1>1, <2>1, <2>4, <2>5, DropsTypes
<1> QED
  BY <1>2 DEF DropsHold

(* The packets the threads lose were not lost before.                      *)
LEMMA LostOnce ==
    ASSUME Typing, PipelineInv
    PROVE  /\ \A s \in Srcs : InCallback(s) => rhand[s].seq \notin lost[s]
           /\ Writing => mhand.src \in Srcs /\ mhand.seq \notin lost[mhand.src]
<1>1. ASSUME NEW s \in Srcs, InCallback(s) PROVE rhand[s].seq \notin lost[s]
  <2>1. rhand[s].seq = Passed[s] + 1 /\ Passed[s] \in Nat
    BY <1>1, PassedTypes DEF PipelineInv
  <2>2. lost[s] \subseteq 1..Passed[s]
    BY DEF PipelineInv, Exact
  <2> QED BY <2>1, <2>2
<1>2. ASSUME Writing PROVE mhand.src \in Srcs /\ mhand.seq \notin lost[mhand.src]
  <2>1. mhand \in Packet /\ mhand.src \in Srcs /\ file \in Seq(Packet) /\ queue \in Seq(Packet)
    BY <1>2, PipelineTypes
  <2>2. Way = (file \o <<mhand>>) \o queue
    BY <1>2 DEF Way, WriterHand
  <2>3. mhand.seq \in SeqsOf(Way, mhand.src)
    BY <2>1, <2>2, WithoutMiddle DEF PipelineInv, Exact
  <2> QED
    BY <2>1, <2>3 DEF PipelineInv, Exact
<1> QED BY <1>1, <1>2

(* The steps of a reader: each packet it loses is counted at most once.    *)
LEMMA ReaderDrops ==
    ASSUME Typing, PipelineInv, DropsInv, NEW s \in Srcs, Reader(s) PROVE DropsInv'
<1>0. /\ rpc \in [Srcs -> ReaderPCs] /\ rbump \in [Srcs -> Bump] /\ lost \in Fates
      /\ count \in [Srcs -> [Counters -> Nat]]
      /\ \A t \in Srcs : DropsHold(t)
  BY DEF Typing, TypeOK, DropsInv, Fates
<1>1. UNCHANGED <<mpc, mhand, mbump>>
  BY DEF Reader, ReaderCheck, CallbackTest, Enqueue, ReaderLoad, ReaderStore,
         DispatchNothing, DispatchPacket, DispatchPipeEnd, DispatchPcapError,
         DispatchSelectError, mvars
<1>2. \A t \in Srcs : MainOwes(t)' = MainOwes(t)
  BY <1>1 DEF MainOwes
<1>3. ASSUME NEW t \in Srcs \ {s} PROVE DropsHold(t)'
  <2>1. rpc'[t] = rpc[t] /\ rbump'[t] = rbump[t] /\ count'[t] = count[t] /\ lost'[t] = lost[t]
    <3>1. CASE CallbackTest(s)
      BY <1>0, <3>1 DEF CallbackTest, Goto, Fates
    <3>2. CASE Enqueue(s)
      BY <1>0, <3>2 DEF Enqueue, Goto, Fates
    <3>3. CASE ReaderLoad(s) \/ ReaderStore(s)
      BY <1>0, <3>3 DEF ReaderLoad, ReaderStore, Goto, hist
    <3>4. CASE \/ ReaderCheck(s) \/ DispatchNothing(s) \/ DispatchPacket(s)
               \/ DispatchPipeEnd(s) \/ DispatchPcapError(s) \/ DispatchSelectError(s)
      BY <1>0, <3>4 DEF ReaderCheck, DispatchNothing, DispatchPacket, DispatchPipeEnd,
            DispatchPcapError, DispatchSelectError, Goto, hist
    <3> QED
      BY <3>1, <3>2, <3>3, <3>4 DEF Reader
  <2>2. /\ Vals(t, "dropped")' = Vals(t, "dropped") /\ Vals(t, "flushed")' = Vals(t, "flushed")
        /\ ReaderOwes(t)' = ReaderOwes(t)
    BY <1>1, <2>1 DEF Vals, ReaderOwes
  <2> QED
    BY <1>0, <1>2, <2>1, <2>2, NothingCounted
<1>4. DropsHold(s)'
  <2>1. CASE \/ ReaderCheck(s) \/ DispatchNothing(s) \/ DispatchPacket(s) \/ DispatchPipeEnd(s)
             \/ DispatchPcapError(s) \/ DispatchSelectError(s) \/ (CallbackTest(s) /\ go)
             \/ (Enqueue(s) /\ HasRoom)
    <3>1. /\ lost'[s] = lost[s] /\ rpc[s] \notin {"load", "store"} /\ rpc'[s] \notin {"load", "store"}
          /\ count'[s]["dropped"] = count[s]["dropped"]
          /\ count'[s]["flushed"] = count[s]["flushed"]
      BY <1>0, <2>1 DEF ReaderCheck, DispatchNothing, DispatchPacket, DispatchPipeEnd,
            DispatchPcapError, DispatchSelectError, CallbackTest, Enqueue, Goto, Returned,
            hist, Counters
    <3>2. /\ Vals(s, "dropped")' = Vals(s, "dropped") /\ Vals(s, "flushed")' = Vals(s, "flushed")
          /\ ReaderOwes(s)' = ReaderOwes(s)
      BY <1>1, <3>1 DEF Vals, ReaderOwes
    <3> QED
      BY <1>0, <1>2, <3>1, <3>2, NothingCounted
  <2>2. CASE (CallbackTest(s) /\ ~go) \/ (Enqueue(s) /\ ~HasRoom)
    <3>1. /\ lost'[s] = lost[s] \cup {rhand[s].seq} /\ rhand[s].seq \notin lost[s]
          /\ rpc[s] \notin {"load", "store"} /\ rpc'[s] = "load" /\ count' = count
      <4>1. rhand[s].seq \notin lost[s]
        BY <2>2, LostOnce DEF CallbackTest, Enqueue, InCallback
      <4> QED
        BY <1>0, <2>2, <4>1 DEF CallbackTest, Enqueue, Goto, Fates
    <3>2. /\ Vals(s, "dropped")' = Vals(s, "dropped") /\ Vals(s, "flushed")' = Vals(s, "flushed")
          /\ ReaderOwes(s)' = 1 /\ ReaderOwes(s) = 0
      BY <1>1, <3>1 DEF Vals, ReaderOwes
    <3>3. ReaderOwes(s)' + MainOwes(s)' = ReaderOwes(s) + MainOwes(s) + 1
      BY <1>2, <3>2, DropsTypes
    <3> QED
      BY <1>0, <3>1, <3>2, <3>3, OneToCount
  <2>3. CASE ReaderLoad(s)
    <3>1. /\ lost' = lost /\ count' = count /\ rpc[s] = "load" /\ rpc'[s] = "store"
          /\ rbump'[s] = [ctr |-> rbump[s].ctr, val |-> count[s][rbump[s].ctr]]
      BY <1>0, <2>3 DEF ReaderLoad, Goto, hist
    <3>2. ASSUME NEW c PROVE Vals(s, c)' \subseteq Vals(s, c)
      BY <1>1, <3>1 DEF Vals
    <3>3. ReaderOwes(s)' = ReaderOwes(s)
      BY <3>1 DEF ReaderOwes
    <3> QED
      BY <1>0, <1>2, <3>1, <3>2, <3>3, NothingCounted
  <2>4. CASE ReaderStore(s)
    <3>0. PICK c \in Counters, v \in Nat : c = rbump[s].ctr /\ v = rbump[s].val
      BY <1>0 DEF Bump
    <3>1. /\ lost' = lost /\ rpc[s] = "store" /\ rpc'[s] \notin {"load", "store"}
          /\ count'[s] = [count[s] EXCEPT ![c] = v + 1]
      BY <1>0, <2>4, <3>0 DEF ReaderStore, Goto, Returned, hist, Bump
    <3>2. v \in Vals(s, c)
      BY <3>0, <3>1 DEF Vals
    <3>3. Vals(s, c)' \subseteq Vals(s, c) \cup {v + 1}
      BY <1>0, <1>1, <3>1 DEF Vals
    <3>4. \A d \in Counters \ {c} : Vals(s, d)' \subseteq Vals(s, d)
      BY <1>0, <1>1, <3>1 DEF Vals
    <3>5. ReaderOwes(s)' + MainOwes(s)' + 1 = ReaderOwes(s) + MainOwes(s)
      <4>1. ReaderOwes(s)' = 0 /\ ReaderOwes(s) = 1
        BY <3>1 DEF ReaderOwes
      <4> QED
        BY <1>2, <4>1, DropsTypes
    <3> QED
      BY <1>0, <3>1, <3>2, <3>3, <3>4, <3>5, OneCounted
  <2> QED
    BY <2>1, <2>2, <2>3, <2>4 DEF Reader
<1> QED
  BY <1>3, <1>4 DEF DropsInv

(* The steps of the main thread: likewise.                                 *)
LEMMA MainDrops ==
    ASSUME Typing, PipelineInv, DropsInv, Main PROVE DropsInv'
<1>0. /\ lost \in Fates /\ count \in [Srcs -> [Counters -> Nat]] /\ mbump \in Bump
      /\ \A t \in Srcs : DropsHold(t)
  BY DEF Typing, TypeOK, DropsInv, Fates
<1>1. UNCHANGED <<rpc, rbump>>
  BY DEF Main, LoopTest, Pop, PopTimeout, WriteTest, WritePacket, WriteError,
         MainLoad, MainStore, Scan, UpdateNotDue, Update, Join, Finish, rvars
<1>2. \A t \in Srcs : ReaderOwes(t)' = ReaderOwes(t)
  BY <1>1 DEF ReaderOwes
<1> SUFFICES ASSUME NEW t \in Srcs PROVE DropsHold(t)'
  BY DEF DropsInv
<1>3. CASE \/ LoopTest \/ Pop \/ PopTimeout \/ Scan \/ UpdateNotDue \/ Update \/ Join
           \/ Finish \/ WritePacket \/ (WriteTest /\ go)
  <2>1. /\ lost' = lost /\ count' = count
        /\ mpc \notin {"load", "store"} /\ mpc' \notin {"load", "store"}
    BY <1>3 DEF LoopTest, Pop, PopTimeout, Scan, UpdateNotDue, Update, Join, Finish,
                WritePacket, WriteTest, AfterWrite, hist
  <2>2. /\ Vals(t, "dropped")' = Vals(t, "dropped") /\ Vals(t, "flushed")' = Vals(t, "flushed")
        /\ MainOwes(t)' = MainOwes(t)
    BY <1>1, <2>1 DEF Vals, MainOwes
  <2> QED
    BY <1>0, <1>2, <2>1, <2>2, NothingCounted
<1>4. CASE WriteError \/ (WriteTest /\ ~go)
  <2>1. /\ lost' = [lost EXCEPT ![mhand.src] = @ \cup {mhand.seq}] /\ Writing
        /\ mpc' = "load" /\ count' = count /\ mhand' = mhand
    BY <1>4 DEF WriteError, WriteTest, Writing
  <2>2. mhand.src \in Srcs /\ mhand.seq \notin lost[mhand.src]
    BY <2>1, LostOnce
  <2>3. Vals(t, "dropped")' = Vals(t, "dropped") /\ Vals(t, "flushed")' = Vals(t, "flushed")
    BY <1>1, <2>1 DEF Vals, Writing
  <2>4. CASE t = mhand.src
    <3>1. MainOwes(t) = 0 /\ MainOwes(t)' = 1
      BY <2>1, <2>4 DEF MainOwes, Writing
    <3>2. lost'[t] = lost[t] \cup {mhand.seq} /\ mhand.seq \notin lost[t]
      BY <1>0, <2>1, <2>2, <2>4 DEF Fates
    <3>3. ReaderOwes(t)' + MainOwes(t)' = ReaderOwes(t) + MainOwes(t) + 1
      BY <1>2, <3>1, DropsTypes
    <3> QED
      BY <1>0, <2>3, <3>2, <3>3, OneToCount
  <2>5. CASE t # mhand.src
    <3>1. MainOwes(t)' = MainOwes(t) /\ lost'[t] = lost[t]
      BY <1>0, <2>1, <2>5 DEF MainOwes, Writing, Fates
    <3> QED
      BY <1>0, <1>2, <2>3, <3>1, NothingCounted
  <2> QED BY <2>4, <2>5
<1>5. CASE MainLoad
  <2>1. /\ lost' = lost /\ count' = count /\ mpc = "load" /\ mpc' = "store" /\ mhand' = mhand
        /\ mbump' = [ctr |-> mbump.ctr, val |-> count[mhand.src][mbump.ctr]]
    BY <1>5 DEF MainLoad, hist
  <2>2. ASSUME NEW c PROVE Vals(t, c)' \subseteq Vals(t, c)
    BY <1>1, <2>1 DEF Vals
  <2>3. MainOwes(t)' = MainOwes(t)
    BY <2>1 DEF MainOwes
  <2> QED
    BY <1>0, <1>2, <2>1, <2>2, <2>3, NothingCounted
<1>6. CASE MainStore
  <2>0. PICK c \in Counters, v \in Nat : c = mbump.ctr /\ v = mbump.val
    BY <1>0 DEF Bump
  <2>1. /\ lost' = lost /\ mpc = "store" /\ mpc' \notin {"load", "store"}
        /\ count' = [count EXCEPT ![mhand.src][c] = v + 1]
    BY <1>0, <1>6, <2>0 DEF MainStore, AfterWrite, hist, Bump
  <2>2. CASE t = mhand.src
    <3>1. count'[t] = [count[t] EXCEPT ![c] = v + 1]
      BY <1>0, <2>1, <2>2
    <3>2. v \in Vals(t, c)
      BY <2>0, <2>1, <2>2 DEF Vals
    <3>3. Vals(t, c)' \subseteq Vals(t, c) \cup {v + 1}
      BY <1>0, <1>1, <2>1, <3>1 DEF Vals
    <3>4. \A d \in Counters \ {c} : Vals(t, d)' \subseteq Vals(t, d)
      BY <1>0, <1>1, <2>1, <3>1 DEF Vals
    <3>5. ReaderOwes(t)' + MainOwes(t)' + 1 = ReaderOwes(t) + MainOwes(t)
      <4>1. MainOwes(t)' = 0 /\ MainOwes(t) = 1
        BY <2>1, <2>2 DEF MainOwes
      <4> QED
        BY <1>2, <4>1, DropsTypes
    <3> QED
      BY <1>0, <2>1, <3>2, <3>3, <3>4, <3>5, OneCounted
  <2>3. CASE t # mhand.src
    <3>1. count'[t] = count[t] /\ MainOwes(t)' = 0 /\ MainOwes(t) = 0
      BY <1>0, <2>1, <2>3 DEF MainOwes
    <3>2. Vals(t, "dropped")' = Vals(t, "dropped") /\ Vals(t, "flushed")' = Vals(t, "flushed")
      BY <1>1, <2>1, <2>3, <3>1 DEF Vals
    <3> QED
      BY <1>0, <1>2, <2>1, <3>1, <3>2, NothingCounted
  <2> QED BY <2>2, <2>3
<1> QED
  BY <1>3, <1>4, <1>5, <1>6 DEF Main

(* Every step keeps the accounting of lost packets.                        *)
LEMMA NextDrops ==
    ASSUME Typing, PipelineInv, DropsInv, [Next]_vars PROVE DropsInv'
<1>1. CASE Signal \/ UNCHANGED vars
  <2>1. UNCHANGED <<count, rpc, rbump, mpc, mhand, mbump, lost>>
    BY <1>1 DEF Signal, vars, rvars, mvars, hist
  <2> QED
    BY <2>1 DEF DropsInv, DropsHold, Vals, ReaderOwes, MainOwes
<1> QED
  BY <1>1, ReaderDrops, MainDrops DEF Next, Terminated

(* At the start none is lost and none counted.                             *)
LEMMA InitDrops == Init => DropsInv
<1> SUFFICES ASSUME Init, NEW s \in Srcs PROVE DropsHold(s)
  BY DEF DropsInv
<1>1. Vals(s, "dropped") = {0} /\ Vals(s, "flushed") = {0}
  BY DEF Init, Vals, Counters
<1>2. ReaderOwes(s) = 0 /\ MainOwes(s) = 0 /\ Cardinality(lost[s]) = 0
  BY FS_EmptySet DEF Init, ReaderOwes, MainOwes
<1> QED
  BY <1>1, <1>2 DEF DropsHold

(* So no counter exceeds the packets that were lost.                       *)
LEMMA DropsAreTrue == ASSUME Typing, DropsInv PROVE DropsNotOvercounted
<1> SUFFICES ASSUME NEW s \in Srcs
             PROVE  count[s]["dropped"] + count[s]["flushed"] <= Cardinality(lost[s])
  BY DEF DropsNotOvercounted
<1>1. count[s]["dropped"] \in Vals(s, "dropped") /\ count[s]["flushed"] \in Vals(s, "flushed")
  BY DEF Vals
<1> QED
  BY <1>1, DropsTypes DEF DropsInv, DropsHold

(* At the end every packet is in the file or lost and every packet of the  *)
(* file has been announced; and no more drops are ever counted than there  *)
(* were, however the unlocked increments of the threads interleave.        *)
THEOREM CountsAreTrue == Spec => []CountsTrue
<1>1. Typing /\ PipelineInv /\ EndInv /\ DropsInv => CountsTrue
  BY EndIsFinal, DropsAreTrue DEF CountsTrue
<1> QED
  BY <1>1, InitTyping, NextTyping, InitPipeline, NextPipeline, InitEnd, NextEnd,
     InitDrops, NextDrops, PTL DEF Spec

(***************************************************************************)
(* Why the capture stops.                                                  *)
(***************************************************************************)
NoCancel == Events \cap {"signal", "duration"} = {}

(* What may clear go when nobody cancels the capture; once true, for good. *)
Trouble == errors # {} \/ err \/ \E s \in Srcs : pcapErr[s]
Ended   == LimitHit(captured, bytes) \/ \A s \in Srcs : pipeErr[s] # "PIPOK"

StopInv ==
    /\ ~go => Trouble \/ Ended
    /\ joined \/ mpc \in {"join", "drain", "finish", "done"} => ~go
    /\ mpc = "done" /\ Trouble => errors # {}

(* Reaching a limit, or all pipes being at their end, is final.            *)
LEMMA EndedStays ==
    ASSUME Typing, Ended, captured' \in Nat, bytes' \in Nat,
           captured <= captured', bytes <= bytes',
           \A s \in Srcs : pipeErr[s] # "PIPOK" => pipeErr'[s] # "PIPOK"
    PROVE  Ended'
<1>1. captured \in Nat /\ bytes \in Nat
  BY DEF Typing, TypeOK
<1>2. LimitHit(captured, bytes) => LimitHit(captured', bytes')
  BY <1>1, LimitAssumption DEF LimitHit
<1>3. (\A s \in Srcs : pipeErr[s] # "PIPOK") => \A s \in Srcs : pipeErr'[s] # "PIPOK"
  OBVIOUS
<1>4. Ended' <=> LimitHit(captured', bytes') \/ \A s \in Srcs : pipeErr'[s] # "PIPOK"
  BY DEF Ended, LimitHit
<1> QED
  BY <1>2, <1>3, <1>4 DEF Ended

(* A reader clears go only with an error that it recorded.                 *)
LEMMA ReaderStop ==
    ASSUME NoCancel, Typing, EndInv, StopInv, NEW s \in Srcs, Reader(s) PROVE StopInv'
<1>0. /\ pipeErr \in [Srcs -> {"PIPOK", "PIPEOF", "PIPERR"}] /\ pcapErr \in [Srcs -> BOOLEAN]
      /\ captured \in Nat /\ bytes \in Nat
  BY DEF Typing, TypeOK
<1>1. rpc[s] # "done" /\ UNCHANGED <<mvars, err, captured, bytes>>
  BY DEF Reader, ReaderCheck, CallbackTest, Enqueue, ReaderLoad, ReaderStore,
         DispatchNothing, DispatchPacket, DispatchPipeEnd, DispatchPcapError,
         DispatchSelectError, outvars
<1>2. mpc # "done"
  BY <1>1 DEF EndInv
<1>3. /\ errors \subseteq errors' /\ (go' => go)
      /\ \A t \in Srcs : pcapErr[t] => pcapErr'[t]
      /\ \A t \in Srcs : pipeErr[t] # "PIPOK" => pipeErr'[t] # "PIPOK"
  BY <1>0 DEF Reader, ReaderCheck, CallbackTest, Enqueue, ReaderLoad, ReaderStore,
         DispatchNothing, DispatchPacket, DispatchPipeEnd, DispatchPcapError,
         DispatchSelectError, outvars, shared
<1>4. Trouble => Trouble'
  BY <1>1, <1>3 DEF Trouble
<1>5. Ended => Ended'
  BY <1>0, <1>1, <1>3, EndedStays
<1>6. go' \/ ~go \/ Trouble'
  <2>1. CASE DispatchPcapError(s)
    BY <1>0, <2>1 DEF DispatchPcapError, Trouble
  <2>2. CASE DispatchSelectError(s)
    BY <2>2 DEF DispatchSelectError, Trouble
  <2>3. CASE ~DispatchPcapError(s) /\ ~DispatchSelectError(s)
    BY <2>3 DEF Reader, ReaderCheck, CallbackTest, Enqueue, ReaderLoad, ReaderStore,
         DispatchNothing, DispatchPacket, DispatchPipeEnd, shared
  <2> QED BY <2>1, <2>2, <2>3
<1> QED
  BY <1>1, <1>2, <1>3, <1>4, <1>5, <1>6 DEF StopInv, mvars

(* The main thread clears go only for a reason that is recorded.           *)
LEMMA MainStop ==
    ASSUME NoCancel, Typing, EndInv, StopInv, Main PROVE StopInv'
<1>0. /\ captured \in Nat /\ bytes \in Nat /\ go \in BOOLEAN /\ err \in BOOLEAN
      /\ (Writing => mhand.len \in Nat)
  BY PacketLen, PipelineTypes DEF Typing, TypeOK
<1>1. UNCHANGED <<pipeErr, pcapErr>> /\ errors \subseteq errors' /\ (err => err')
  BY DEF Main, LoopTest, Pop, PopTimeout, WriteTest, WritePacket, WriteError,
         MainLoad, MainStore, Scan, UpdateNotDue, Update, Join, Finish, shared, outvars
<1>2. Trouble => Trouble'
  BY <1>1 DEF Trouble
<1>3. captured' \in Nat /\ bytes' \in Nat /\ captured <= captured' /\ bytes <= bytes'
  <2>1. CASE WritePacket
    BY <1>0, <2>1 DEF WritePacket, Writing
  <2>2. CASE ~WritePacket
    BY <1>0, <2>2 DEF Main, LoopTest, Pop, PopTimeout, WriteTest, WriteError,
         MainLoad, MainStore, Scan, UpdateNotDue, Update, Join, Finish, outvars
  <2> QED BY <2>1, <2>2
<1>4. Ended => Ended'
  BY <1>1, <1>3, EndedStays
<1>5. (go' => go) /\ (go' \/ ~go \/ Trouble' \/ Ended')
  <2>1. CASE WritePacket
    BY <2>1 DEF WritePacket, Ended
  <2>2. CASE WriteError
    BY <2>2 DEF WriteError, Trouble
  <2>3. CASE Scan
    BY <1>1, <2>3 DEF Scan, Ended
  <2>4. CASE Update
    BY <2>4 DEF Update, NoCancel
  <2>5. CASE ~(WritePacket \/ WriteError \/ Scan \/ Update)
    BY <2>5 DEF Main, LoopTest, Pop, PopTimeout, WriteTest,
         MainLoad, MainStore, UpdateNotDue, Join, Finish, shared
  <2> QED BY <2>1, <2>2, <2>3, <2>4, <2>5
<1>6. joined' \/ mpc' \in {"join", "drain", "finish", "done"} => ~go'
  BY <1>5 DEF StopInv, Main, LoopTest, Pop, PopTimeout, WriteTest, WritePacket, WriteError,
         MainLoad, MainStore, Scan, UpdateNotDue, Update, Join, Finish, AfterWrite, shared
<1>7. mpc' = "done" /\ Trouble' => errors' # {}
  <2>1. mpc' = "done" => Finish
    BY DEF Main, LoopTest, Pop, PopTimeout, WriteTest, WritePacket, WriteError,
         MainLoad, MainStore, Scan, UpdateNotDue, Update, Join, Finish, AfterWrite
  <2>2. ASSUME Finish, Trouble' PROVE errors' # {}
    BY <1>1, <2>2 DEF Finish, Trouble
  <2> QED BY <2>1, <2>2
<1> QED
  BY <1>2, <1>4, <1>5, <1>6, <1>7 DEF StopInv

(* Every step keeps the reasons for which a capture stops.                 *)
LEMMA NextStop ==
    ASSUME NoCancel, Typing, EndInv, StopInv, [Next]_vars PROVE StopInv'
<1>1. CASE UNCHANGED vars
  BY <1>1 DEF StopInv, Trouble, Ended, LimitHit, vars, shared, mvars, outvars
<1>2. ~Signal
  BY DEF NoCancel, Signal
<1> QED
  BY <1>1, <1>2, ReaderStop, MainStop DEF Next, Terminated

(* A capture nobody cancels ends only for a limit, an error the parent is  *)
(* told of, or because every source is a pipe at its end.                  *)
THEOREM NeverStopsSilently == Spec => []NoSilentStop
<1>1. CASE NoCancel
  <2>1. Init => StopInv
    BY DEF Init, StopInv
  <2>2. StopInv => NoSilentStop
    BY DEF StopInv, NoSilentStop, Ended
  <2> QED
    BY <1>1, <2>1, <2>2, InitTyping, NextTyping, InitEnd, NextEnd, NextStop, PTL DEF Spec
<1>2. CASE ~NoCancel
  <2>1. NoSilentStop
    BY <1>2 DEF NoSilentStop, NoCancel
  <2> QED
    BY <2>1, PTL
<1> QED BY <1>1, <1>2

(***************************************************************************)
(* A stop takes effect: only the packet in a writer past its test is still *)
(* to come.                                                                *)
(***************************************************************************)
AtMost(n) ==
    /\ ~go
    /\ Len(file) <= n + 1
    /\ mpc = "write" => Len(file) <= n

(* Whatever follows a stop, the file gets at most one packet more.         *)
LEMMA NextAtMost ==
    ASSUME NEW n \in Nat, Typing, AtMost(n), [Next]_vars PROVE AtMost(n)'
<1>0. file \in Seq(Packet) /\ go \in BOOLEAN
  BY DEF Typing, TypeOK
<1>1. CASE WritePacket
  <2>1. Len(file') = Len(file) + 1 /\ ~go' /\ mpc' # "write" /\ mpc = "write"
    BY <1>0, <1>1, PipelineTypes DEF WritePacket, AfterWrite, Writing, AtMost
  <2> QED
    BY <1>0, <2>1 DEF AtMost
<1>2. ASSUME Main, ~WritePacket PROVE ~go' /\ mpc' # "write" /\ file' = file
  <2>0. ~go
    BY DEF AtMost
  <2>1. CASE \/ LoopTest \/ Pop \/ PopTimeout \/ WriteTest \/ WriteError \/ MainLoad
             \/ MainStore \/ UpdateNotDue \/ Join \/ Finish
    BY <2>0, <2>1 DEF LoopTest, Pop, PopTimeout, WriteTest, WriteError, MainLoad,
         MainStore, UpdateNotDue, Join, Finish, AfterWrite, shared, outvars
  <2>2. CASE Scan
    BY <2>0, <2>2 DEF Scan, outvars
  <2>3. CASE Update
    BY <2>0, <2>3 DEF Update
  <2> QED
    BY <1>2, <2>1, <2>2, <2>3 DEF Main
<1>3. ASSUME NEW s \in Srcs, Reader(s) PROVE ~go' /\ UNCHANGED <<mpc, file>>
  BY <1>3 DEF AtMost, Reader, ReaderCheck, CallbackTest, Enqueue, ReaderLoad, ReaderStore,
         DispatchNothing, DispatchPacket, DispatchPipeEnd, DispatchPcapError,
         DispatchSelectError, shared, mvars, outvars
<1>4. Signal \/ UNCHANGED vars => ~go' /\ UNCHANGED <<mpc, file>>
  BY DEF AtMost, Signal, vars, shared, mvars, outvars
<1> QED
  BY <1>1, <1>2, <1>3, <1>4 DEF AtMost, Next, Terminated

(* Once go is false, at most one more packet reaches the file.             *)
THEOREM StopsInTime == Spec => StopTakesEffect
<1>0. ASSUME NEW n \in 0..(MaxPackets * Cardinality(Srcs))
      PROVE  Spec => [](~go /\ Len(file) = n => [](Len(file) <= n + 1))
  <2>0. n \in Nat
    OBVIOUS
  <2>1. Typing /\ AtMost(n) /\ [Next]_vars => AtMost(n)'
    BY <2>0, NextAtMost
  <2>2. Typing /\ ~go /\ Len(file) = n => AtMost(n)
    BY <2>0 DEF AtMost
  <2>3. AtMost(n) => Len(file) <= n + 1
    BY DEF AtMost
  <2> QED
    BY <2>1, <2>2, <2>3, InitTyping, NextTyping, PTL DEF Spec
<1> QED
  BY <1>0 DEF StopTakesEffect

(***************************************************************************)
(* The threads implement the contract.                                     *)
(***************************************************************************)
(* What is pending are the packets that neither the file nor the losses    *)
(* have: those in a thread's hand, and at the end none.                    *)
LEMMA PendingPackets ==
    ASSUME Typing, PipelineInv
    PROVE  /\ \A s \in Srcs : Contract!Written(s) = SeqsOf(file, s)
           /\ \A s \in Srcs : InCallback(s) => rhand[s].seq \in Contract!Pending(s)
           /\ Writing => /\ mhand.src \in Srcs /\ mhand.seq \in Contract!Pending(mhand.src)
                         /\ \A m \in Contract!Written(mhand.src) : m < mhand.seq
           /\ (~Writing /\ queue = <<>> /\ \A s \in Srcs : ~InCallback(s))
                 => \A s \in Srcs : Contract!Pending(s) = {}
<1>0. /\ Exact(Way, lost, Passed) /\ HandIsNext /\ Passed \in [Srcs -> Nat]
      /\ file \in Seq(Packet) /\ queue \in Seq(Packet) /\ WriterHand \in Seq(Packet)
      /\ arrived \in [Srcs -> Nat]
  BY PassedTypes, PipelineTypes DEF PipelineInv
<1>1. ASSUME NEW s \in Srcs PROVE Contract!Written(s) = SeqsOf(file, s)
  BY DEF Contract!Written, SeqsOf, FromSource
<1>2. ASSUME NEW s \in Srcs PROVE SeqsOf(file, s) \subseteq SeqsOf(Way, s)
  <2>1. file \o WriterHand \in Seq(Packet)
    BY <1>0, ConcatProperties
  <2>2. SeqsOf(Way, s) = (SeqsOf(file, s) \cup SeqsOf(WriterHand, s)) \cup SeqsOf(queue, s)
    <3>1. SeqsOf(file \o WriterHand, s) = SeqsOf(file, s) \cup SeqsOf(WriterHand, s)
      BY <1>0, SeqsOfConcat
    <3> DEFINE written == file \o WriterHand
    <3>2. written \in Seq(Packet) /\ Way = written \o queue
      BY <2>1 DEF Way
    <3> HIDE DEF written
    <3>3. SeqsOf(Way, s) = SeqsOf(written, s) \cup SeqsOf(queue, s)
      BY <1>0, <3>2, SeqsOfConcat
    <3> QED
      BY <3>1, <3>3 DEF written
  <2> QED BY <2>2
<1>3. \A s \in Srcs : Passed[s] <= arrived[s]
  BY <1>0 DEF Passed
<1>4. ASSUME NEW s \in Srcs, InCallback(s) PROVE rhand[s].seq \in Contract!Pending(s)
  <2>1. rhand[s].seq = Passed[s] + 1 /\ rhand[s].seq = arrived[s]
    BY <1>0, <1>4, PassedTypes DEF HandIsNext
  <2>2. SeqsOf(Way, s) \cup lost[s] = 1..Passed[s]
    BY <1>0 DEF Exact
  <2> QED
    BY <1>0, <1>1, <1>2, <2>1, <2>2 DEF Contract!Pending
<1>5. ASSUME Writing
      PROVE  /\ mhand.src \in Srcs /\ mhand.seq \in Contract!Pending(mhand.src)
             /\ \A m \in Contract!Written(mhand.src) : m < mhand.seq
  <2>1. mhand \in Packet /\ mhand.src \in Srcs /\ Way = (file \o <<mhand>>) \o queue
    BY <1>5, PipelineTypes DEF Way, WriterHand
  <2>2. mhand.seq \in SeqsOf(Way, mhand.src) /\ \A x \in SeqsOf(file, mhand.src) : x < mhand.seq
    BY <1>0, <2>1, WithoutMiddle DEF Exact
  <2>3. mhand.seq \notin SeqsOf(file, mhand.src)
    BY <2>1, <2>2, PipelineTypes
  <2>4. mhand.seq \notin lost[mhand.src] /\ mhand.seq \in 1..Passed[mhand.src]
    BY <1>0, <2>1, <2>2 DEF Exact
  <2> QED
    BY <1>0, <1>1, <1>3, <2>1, <2>2, <2>3, <2>4 DEF Contract!Pending
<1>6. ASSUME ~Writing, queue = <<>>, \A s \in Srcs : ~InCallback(s), NEW s \in Srcs
      PROVE  Contract!Pending(s) = {}
  <2>1. Way = file
    BY <1>0, <1>6, ConcatEmptySeq DEF Way, WriterHand
  <2>2. Passed[s] = arrived[s]
    BY <1>6 DEF Passed
  <2> QED
    BY <1>0, <1>1, <2>1, <2>2 DEF Contract!Pending, Exact
<1> QED
  BY <1>1, <1>4, <1>5, <1>6

(* A step of a reader is an arrival, a loss or a stutter of the contract.  *)
LEMMA ReaderRefines ==
    ASSUME Typing, PipelineInv, EndInv, NEW s \in Srcs, Reader(s)
    PROVE  [Contract!Next]_Contract!vars
<1>1. rpc[s] # "done" /\ UNCHANGED <<mpc, file>>
  BY DEF Reader, ReaderCheck, CallbackTest, Enqueue, ReaderLoad, ReaderStore,
         DispatchNothing, DispatchPacket, DispatchPipeEnd, DispatchPcapError,
         DispatchSelectError, mvars, outvars
<1>2. mpc # "done"
  BY <1>1 DEF EndInv
<1>3. CASE DispatchPacket(s)
  <2>1. Contract!Arrive(s)
    BY <1>1, <1>2, <1>3 DEF DispatchPacket, Contract!Arrive
  <2> QED BY <2>1 DEF Contract!Next
<1>4. CASE (CallbackTest(s) /\ ~go) \/ (Enqueue(s) /\ ~HasRoom)
  <2>1. /\ lost' = [lost EXCEPT ![s] = @ \cup {rhand[s].seq}] /\ arrived' = arrived
        /\ InCallback(s)
    BY <1>4 DEF CallbackTest, Enqueue, InCallback
  <2>2. rhand[s].seq \in Contract!Pending(s)
    BY <2>1, PendingPackets
  <2>3. Contract!Lose(s)
    BY <1>1, <1>2, <2>1, <2>2 DEF Contract!Lose
  <2> QED BY <2>3 DEF Contract!Next
<1>5. CASE ~DispatchPacket(s) /\ ~(CallbackTest(s) /\ ~go) /\ ~(Enqueue(s) /\ ~HasRoom)
  <2>1. UNCHANGED <<arrived, lost>>
    BY <1>5 DEF Reader, ReaderCheck, CallbackTest, Enqueue, ReaderLoad, ReaderStore,
         DispatchNothing, DispatchPipeEnd, DispatchPcapError, DispatchSelectError, hist
  <2> QED
    BY <1>1, <2>1 DEF Contract!vars
<1> QED
  BY <1>3, <1>4, <1>5

(* A step of the main thread is a writing, a loss, the end or a stutter.   *)
LEMMA MainRefines ==
    ASSUME Typing, PipelineInv, EndInv, Main
    PROVE  [Contract!Next]_Contract!vars
<1>1. CASE WritePacket
  <2>1. /\ file' = Append(file, mhand) /\ Writing /\ mpc # "done" /\ mpc' # "done"
        /\ UNCHANGED <<arrived, lost>> /\ mhand \in Packet
    BY <1>1, PipelineTypes DEF WritePacket, AfterWrite, Writing, hist
  <2>2. PICK s \in Srcs, n \in 1..MaxPackets, l \in Lens :
            mhand = [src |-> s, seq |-> n, len |-> l]
    BY <2>1 DEF Packet
  <2>3. n \in Contract!Pending(s) /\ \A m \in Contract!Written(s) : m < n
    BY <2>1, <2>2, PendingPackets
  <2>4. Contract!Write(s)
    BY <2>1, <2>2, <2>3 DEF Contract!Write
  <2> QED BY <2>4 DEF Contract!Next
<1>2. CASE WriteError \/ (WriteTest /\ ~go)
  <2>1. /\ lost' = [lost EXCEPT ![mhand.src] = @ \cup {mhand.seq}] /\ Writing
        /\ UNCHANGED <<arrived, file>> /\ mpc # "done" /\ mpc' # "done"
    BY <1>2 DEF WriteError, WriteTest, Writing, outvars
  <2>2. PICK s \in Srcs : s = mhand.src
    BY <2>1, PendingPackets
  <2>3. mhand.seq \in Contract!Pending(s)
    BY <2>1, <2>2, PendingPackets
  <2>4. Contract!Lose(s)
    BY <2>1, <2>2, <2>3 DEF Contract!Lose
  <2> QED BY <2>4 DEF Contract!Next
<1>3. CASE Finish
  <2>1. /\ mpc = "finish" /\ mpc' = "done" /\ UNCHANGED <<arrived, file, lost>>
    BY <1>3 DEF Finish, hist
  <2>2. queue = <<>> /\ ~Writing /\ \A s \in Srcs : ~InCallback(s)
    BY <2>1 DEF EndInv, Writing, InCallback
  <2>3. \A s \in Srcs : Contract!Pending(s) = {}
    BY <2>2, PendingPackets
  <2>4. Contract!End
    BY <2>1, <2>3 DEF Contract!End
  <2> QED BY <2>4 DEF Contract!Next
<1>4. CASE \/ LoopTest \/ Pop \/ PopTimeout \/ MainLoad \/ MainStore \/ Scan
           \/ UpdateNotDue \/ Update \/ Join \/ (WriteTest /\ go)
  <2>1. UNCHANGED <<arrived, lost, file>> /\ mpc # "done" /\ mpc' # "done"
    BY <1>4 DEF LoopTest, Pop, PopTimeout, MainLoad, MainStore, Scan,
           UpdateNotDue, Update, Join, WriteTest, AfterWrite, hist, outvars
  <2> QED
    BY <2>1 DEF Contract!vars
<1> QED
  BY <1>1, <1>2, <1>3, <1>4 DEF Main

(* The threads, the queue and the locks keep the promise of the contract:  *)
(* every packet that arrives is written or lost, once, in the order of its *)
(* source, and the capture ends when the fate of all is settled.           *)
THEOREM ThreadsImplementContract == Spec => ImplementsContract
<1>1. Init => Contract!Init
  BY DEF Init, Contract!Init
<1>2. ASSUME Typing, PipelineInv, EndInv, [Next]_vars PROVE [Contract!Next]_Contract!vars
  <2>1. CASE Signal \/ UNCHANGED vars
    <3>1. UNCHANGED <<arrived, lost, file, mpc>>
      BY <2>1 DEF Signal, vars, mvars, outvars, hist
    <3> QED BY <3>1 DEF Contract!vars
  <2> QED
    BY <1>2, <2>1, ReaderRefines, MainRefines DEF Next, Terminated
<1> QED
  BY <1>1, <1>2, InitTyping, NextTyping, InitPipeline, NextPipeline, InitEnd,
     NextEnd, PTL DEF Spec, ImplementsContract, Contract!Spec
=============================================================================
