---------------------------- MODULE PcapngMuxProofs ----------------------------
(***************************************************************************)
(* Theorems about PcapngMux, for every list of sources, every queue limit  *)
(* and any number of sections, interfaces, packets and files.              *)
(***************************************************************************)
EXTENDS PcapngMux, TLAPS

USE MuxAssumption
USE DEF source, tables, output, report

(* The parts of the state that the numbering of interfaces depends on are  *)
(* well typed.                                                             *)
BlockOK(b) ==
    /\ b \in BlockType
    /\ b.type \in {"SHB", "IDB"} => IsPcapng(b.src)
    /\ b.type # "SHB" => b.ifc > 0

Typing ==
    /\ TypeOK
    /\ \A k \in DOMAIN queue : BlockOK(queue[k])
    /\ pc # "open" => file \in Files

(* The initial state is well typed. *)
LEMMA InitTyping == Init => Typing
<1> SUFFICES ASSUME Init PROVE Typing
  OBVIOUS
<1>1. setup \in SetupType
  BY DEF Init
<1>2. Len(setup.kinds) \in Nat
  BY <1>1 DEF SetupType
<1>3. TypeOK
  <2>1. /\ sec \in [Sources -> Nat] /\ nif \in [Sources -> Nat]
        /\ cursec \in [Sources -> Nat]
    BY DEF Init
  <2>2. map \in [Sources -> Seq(Nat)]
    BY DEF Init
  <2>3. queue \in Seq(BlockType) /\ saved \in Seq(IfaceType) /\ idbs \in Seq(IfaceType)
    BY DEF Init
  <2>4. /\ file \in 0 .. MaxFiles /\ pending \in 0 .. MaxFiles
        /\ parent \in 0 .. MaxFiles
        /\ counted \in [in : 0 .. MaxFiles, at : 0 .. MaxFiles]
    BY DEF Init
  <2>5. opened \in 0 .. Len(setup.kinds) /\ captured \in Nat /\ inpkts \in Nat
    BY <1>2 DEF Init
  <2>6. /\ pc \in {"open", "capture", "done", "aborted"} /\ go \in BOOLEAN
        /\ lost \subseteq Sources /\ savedShb \in BOOLEAN /\ headed \subseteq Files
    BY DEF Init
  <2> QED BY <1>1, <2>1, <2>2, <2>3, <2>4, <2>5, <2>6 DEF TypeOK
<1>4. queue = <<>> /\ pc = "open"
  BY DEF Init
<1> QED BY <1>3, <1>4 DEF Typing

(* The block at the head of the queue, and the queue without it *)
LEMMA HeadOK ==
    ASSUME Typing, NEW types, Popped(types)
    PROVE  /\ Head(queue) = queue[1] /\ BlockOK(Head(queue))
           /\ Head(queue).type \in types
           /\ queue' \in Seq(BlockType)
           /\ Len(queue') = Len(queue) - 1
           /\ \A k \in DOMAIN queue' : k + 1 \in DOMAIN queue /\ queue'[k] = queue[k + 1]
<1>1. queue \in Seq(BlockType) /\ queue # <<>>
  BY DEF Typing, TypeOK, Popped
<1> QED BY <1>1 DEF Typing, Popped

(* The capture under way never changes. *)
LEMMA SetupFixed == ASSUME [Next]_vars PROVE setup' = setup
<1>1. ASSUME NEW s, SendShb(s) \/ SendIdb(s) \/ SendData(s) PROVE setup' = setup
  BY <1>1 DEF SendShb, SendIdb, SendData, Arrive
<1>2. ASSUME Flush \/ WriteShb \/ WriteIdb \/ BadId \/ DataError PROVE setup' = setup
  BY <1>2 DEF Flush, WriteShb, WriteIdb, BadId, DataError, Popped
<1>3. ASSUME WriteIsb \/ WriteEpb PROVE setup' = setup
  BY <1>3 DEF WriteIsb, WriteEpb, Written, Popped
<1>4. ASSUME \/ OpenInput \/ InitOutput \/ Update \/ Stop \/ Finish \/ Ended
             \/ UNCHANGED vars
      PROVE  setup' = setup
  BY <1>4 DEF OpenInput, InitOutput, Update, Stop, Finish, Ended, vars
<1> QED BY <1>1, <1>2, <1>3, <1>4 DEF Next

(* The header of a new file, its report and the count keep their types. *)
LEMMA SwitchTyping ==
    ASSUME TypeOK, NEW n \in Nat, FileSwitchOrStop(n)
    PROVE  /\ file' \in 0 .. MaxFiles /\ idbs' \in Seq(IfaceType)
           /\ headed' \subseteq Files /\ inpkts' \in Nat
           /\ pending' \in 0 .. MaxFiles /\ parent' \in 0 .. MaxFiles
           /\ counted' \in [in : 0 .. MaxFiles, at : 0 .. MaxFiles]
           /\ go' \in BOOLEAN
           /\ file' = file \/ file' \in Files
<1>1. CASE go' = FALSE /\ inpkts' = n /\ UNCHANGED <<output, pending, parent, counted>>
  BY <1>1 DEF TypeOK, Files
<1>2. CASE /\ file < MaxFiles /\ file' = file + 1 /\ WriteHeader(file')
           /\ Count(n) /\ inpkts' = 0 /\ ReportFile(file') /\ UNCHANGED go
  <2>1. file' \in 0 .. MaxFiles /\ file' \in Files
    BY <1>2 DEF TypeOK, Files
  <2>2. idbs' \in Seq(IfaceType) /\ headed' \subseteq Files
    <3>1. idbs' = <<>> \/ idbs' = saved
      BY <1>2 DEF WriteHeader
    <3>2. saved \in Seq(IfaceType) /\ headed \subseteq Files
      BY DEF TypeOK
    <3>3. headed' = headed \/ headed' = headed \cup {file'}
      BY <1>2 DEF WriteHeader
    <3>4. <<>> \in Seq(IfaceType)
      OBVIOUS
    <3>5. idbs' \in Seq(IfaceType)
      BY <3>1, <3>2, <3>4
    <3>6. headed' \subseteq Files
      BY <2>1, <3>2, <3>3 DEF Files
    <3> QED BY <3>5, <3>6
  <2>3. pending' \in 0 .. MaxFiles /\ parent' \in 0 .. MaxFiles
    BY <1>2, <2>1 DEF TypeOK, ReportFile
  <2>4. counted' \in [in : 0 .. MaxFiles, at : 0 .. MaxFiles]
    BY <1>2 DEF TypeOK, Count
  <2> QED BY <1>2, <2>1, <2>2, <2>3, <2>4 DEF TypeOK
<1> QED BY <1>1, <1>2 DEF FileSwitchOrStop

(* Every step keeps the types. *)
LEMMA StepTyping == ASSUME Typing, [Next]_vars PROVE Typing'
<1> USE DEF Typing
<1>1. setup' = setup /\ Sources' = Sources /\ BlockType' = BlockType
  BY SetupFixed DEF Sources, BlockType
<1>2. \A b : BlockOK(b)' <=> BlockOK(b)
  BY <1>1 DEF BlockOK, IsPcapng
<1>3. Len(setup.kinds) \in Nat /\ Sources = 1 .. Len(setup.kinds)
  BY DEF TypeOK, SetupType, Sources
<1>4. CASE OpenInput
  <2>1. opened' \in Sources /\ opened' \in 0 .. Len(setup.kinds)
    BY <1>3, <1>4 DEF OpenInput, TypeOK
  <2>2. saved' \in Seq(IfaceType) /\ map' \in [Sources -> Seq(Nat)]
    <3>1. CASE IsPcapng(opened')
      BY <1>4, <3>1 DEF OpenInput, TypeOK
    <3>2. CASE ~IsPcapng(opened')
      <4>1. Iface(opened', 0, 1) \in IfaceType
        BY <2>1 DEF Iface, IfaceType
      <4>2. saved' \in Seq(IfaceType) /\ Len(saved') \in Nat
        <5>1. saved \in Seq(IfaceType)
          BY DEF TypeOK
        <5>2. saved' = Append(saved, Iface(opened', 0, 1))
          BY <1>4, <3>2 DEF OpenInput
        <5> QED BY <4>1, <5>1, <5>2
      <4>3. <<Len(saved')>> \in Seq(Nat)
        BY <4>2
      <4> QED BY <1>4, <3>2, <4>2, <4>3 DEF OpenInput, TypeOK
    <3> QED BY <3>1, <3>2
  <2> QED BY <1>1, <1>2, <1>4, <2>1, <2>2 DEF OpenInput, TypeOK, Files
<1>5. CASE InitOutput
  <2>1. idbs' \in Seq(IfaceType) /\ headed' \subseteq Files /\ file' \in 0 .. MaxFiles
    <3>1. file' = 1 /\ file' \in Files /\ file' \in 0 .. MaxFiles
      BY <1>5 DEF InitOutput, Files
    <3>2. saved \in Seq(IfaceType) /\ <<>> \in Seq(IfaceType) /\ headed \subseteq Files
      BY DEF TypeOK
    <3>3. idbs' = <<>> \/ idbs' = saved
      BY <1>5 DEF InitOutput, WriteHeader
    <3>4. headed' = headed \/ headed' = headed \cup {file'}
      BY <1>5, <3>1 DEF InitOutput, WriteHeader
    <3>5. idbs' \in Seq(IfaceType)
      BY <3>2, <3>3
    <3>6. headed' \subseteq Files
      BY <3>1, <3>2, <3>4
    <3> QED BY <3>1, <3>5, <3>6
  <2>2. pending' \in 0 .. MaxFiles /\ parent' \in 0 .. MaxFiles
    BY <1>5 DEF InitOutput, TypeOK, ReportFile
  <2> QED BY <1>1, <1>2, <1>5, <2>1, <2>2, SMTT(30) DEF InitOutput, TypeOK, Files
<1>6. ASSUME NEW b, BlockOK(b), Arrive(b) PROVE Typing'
  <2>1. b \in BlockType /\ b.src \in Sources /\ b.sec \in Nat /\ b.n \in Nat
    BY <1>6 DEF BlockOK, BlockType
  <2>2. sec' \in [Sources -> Nat] /\ nif' \in [Sources -> Nat]
    BY <1>6, <2>1 DEF Arrive, TypeOK
  <2>3. lost' \subseteq Sources
    BY <1>6, <2>1 DEF Arrive, TypeOK
  <2>4. queue' \in Seq(BlockType) /\ \A k \in DOMAIN queue' : BlockOK(queue'[k])
    <3>1. queue \in Seq(BlockType)
      BY DEF TypeOK
    <3>2. queue' = queue \/ queue' = Append(queue, b)
      BY <1>6 DEF Arrive
    <3> QED BY <1>6, <2>1, <3>1, <3>2
  <2> QED BY <1>1, <1>2, <1>6, <2>2, <2>3, <2>4 DEF Arrive, TypeOK, Files
<1>7. ASSUME NEW s \in Sources, SendShb(s) PROVE Typing'
  <2>1. BlockOK(Block(s, "SHB", sec[s] + 1, 0, 0))
    BY <1>7 DEF SendShb, Block, BlockOK, BlockType, TypeOK
  <2> QED BY <1>6, <1>7, <2>1 DEF SendShb
<1>8. ASSUME NEW s \in Sources, SendIdb(s) PROVE Typing'
  <2>1. BlockOK(Block(s, "IDB", sec[s], nif[s] + 1, nif[s] + 1))
    <3>1. sec[s] \in Nat /\ nif[s] + 1 \in Nat /\ nif[s] + 1 > 0
      BY DEF TypeOK
    <3>2. IsPcapng(s)
      BY <1>8 DEF SendIdb
    <3> QED BY <3>1, <3>2 DEF Block, BlockOK, BlockType
  <2> QED BY <1>6, <1>8, <2>1 DEF SendIdb
<1>9. ASSUME NEW s \in Sources, SendData(s) PROVE Typing'
  <2>1. PICK i \in 1 .. nif[s], t \in {"EPB", "ISB"} : Arrive(Block(s, t, sec[s], nif[s], i))
    BY <1>9 DEF SendData
  <2>2. BlockOK(Block(s, t, sec[s], nif[s], i))
    BY DEF Block, BlockOK, BlockType, TypeOK
  <2> QED BY <1>6, <2>1, <2>2
<1>10. ASSUME NEW types, Popped(types)
       PROVE  /\ queue' \in Seq(BlockType) /\ \A k \in DOMAIN queue' : BlockOK(queue'[k])
              /\ BlockOK(Head(queue))
  BY <1>10, HeadOK
<1>11. CASE Flush
  BY <1>1, <1>2, <1>10, <1>11 DEF Flush, Popped, TypeOK, Files
<1>12. CASE WriteShb
  <2> DEFINE b == Head(queue)
  <2>1. b.src \in Sources /\ b.sec \in Nat /\ b \in BlockType
    BY <1>10, <1>12 DEF WriteShb, BlockOK, BlockType
  <2>2. cursec' \in [Sources -> Nat] /\ map' \in [Sources -> Seq(Nat)]
    <3>1. cursec' = [cursec EXCEPT ![b.src] = b.sec] /\ map' = [map EXCEPT ![b.src] = <<>>]
      BY <1>12 DEF WriteShb
    <3>2. <<>> \in Seq(Nat)
      OBVIOUS
    <3> QED BY <2>1, <3>1, <3>2 DEF TypeOK
  <2>3. CASE Passthrough /\ savedShb' = TRUE /\ saved' = <<>> /\ PassShb
    <3>1. saved' \in Seq(IfaceType) /\ savedShb' \in BOOLEAN
      BY <2>3
    <3>2. /\ idbs' \in Seq(IfaceType) /\ go' \in BOOLEAN
          /\ file' = file /\ inpkts' \in Nat
          /\ pending' \in 0 .. MaxFiles /\ parent' \in 0 .. MaxFiles
          /\ counted' \in [in : 0 .. MaxFiles, at : 0 .. MaxFiles]
      <4>1. CASE go' = FALSE /\ UNCHANGED <<output, report>>
        BY <4>1 DEF TypeOK
      <4>2. CASE /\ idbs' = <<>> /\ headed' = headed \cup {file} /\ pending' = 0
                 /\ parent' = IF pending # 0 THEN pending ELSE parent
                 /\ UNCHANGED <<go, file, inpkts, counted>>
        <5>1. idbs' \in Seq(IfaceType) /\ go' \in BOOLEAN
          BY <4>2 DEF TypeOK
        <5>2. pending' \in 0 .. MaxFiles /\ parent' \in 0 .. MaxFiles
          BY <4>2 DEF TypeOK
        <5>3. /\ file' = file /\ inpkts' \in Nat
              /\ counted' \in [in : 0 .. MaxFiles, at : 0 .. MaxFiles]
          BY <4>2 DEF TypeOK
        <5> QED BY <5>1, <5>2, <5>3
      <4> QED BY <2>3, <4>1, <4>2 DEF PassShb
    <3>3. headed' \subseteq Files
      <4>1. file \in Files /\ headed \subseteq Files
        BY <1>12 DEF WriteShb, Popped, TypeOK
      <4>2. headed' = headed \/ headed' = headed \cup {file}
        BY <2>3 DEF PassShb
      <4> QED BY <4>1, <4>2
    <3> QED BY <1>1, <1>2, <1>10, <1>12, <2>2, <3>1, <3>2, <3>3
            DEF WriteShb, Popped, TypeOK, Files
  <2>4. CASE ~Passthrough /\ saved' = Delete(map[b.src])
             /\ UNCHANGED <<savedShb, go, output, report>>
    <3>1. saved' \in Seq(IfaceType)
      <4>1. saved \in Seq(IfaceType)
        BY DEF TypeOK
      <4>2. Dummy \in IfaceType
        BY DEF Dummy, Iface, IfaceType
      <4> QED BY <2>4, <4>1, <4>2 DEF Delete
    <3> QED BY <1>1, <1>2, <1>10, <1>12, <2>2, <2>4, <3>1
            DEF WriteShb, Popped, TypeOK, Files
  <2> QED BY <1>12, <2>3, <2>4 DEF WriteShb
<1>13. CASE WriteIdb
  <2> DEFINE b == Head(queue)
  <2>1. b.src \in Sources /\ Origin(b) \in IfaceType
    BY <1>3, <1>10, <1>13 DEF WriteIdb, BlockOK, BlockType, Origin, Iface, IfaceType
  <2>2. saved' \in Seq(IfaceType) /\ Len(saved') \in Nat
    BY <1>13, <2>1 DEF WriteIdb, TypeOK
  <2>3. map' \in [Sources -> Seq(Nat)]
    BY <1>13, <2>1, <2>2 DEF WriteIdb, TypeOK
  <2>4. idbs' \in Seq(IfaceType) /\ go' \in BOOLEAN
    <3>1. idbs \in Seq(IfaceType) /\ go \in BOOLEAN
      BY DEF TypeOK
    <3>2. idbs' = idbs \/ idbs' = Append(idbs, Origin(b))
      BY <1>13 DEF WriteIdb
    <3>3. idbs' \in Seq(IfaceType)
      BY <2>1, <3>1, <3>2
    <3>4. go' \in BOOLEAN
      BY <1>13, <3>1 DEF WriteIdb
    <3> QED BY <3>3, <3>4
  <2> QED BY <1>1, <1>2, <1>10, <1>13, <2>2, <2>3, <2>4
          DEF WriteIdb, Popped, TypeOK, Files
<1>14. CASE BadId
  BY <1>1, <1>2, <1>10, <1>14 DEF BadId, Popped, TypeOK, Files
<1>15. CASE DataError
  BY <1>1, <1>2, <1>10, <1>15 DEF DataError, Popped, TypeOK, Files
<1>16. CASE WriteIsb
  BY <1>1, <1>2, <1>10, <1>16 DEF WriteIsb, Written, Popped, TypeOK, Files
<1>17. CASE WriteEpb
  <2>1. /\ file' \in 0 .. MaxFiles /\ idbs' \in Seq(IfaceType)
        /\ headed' \subseteq Files /\ inpkts' \in Nat
        /\ pending' \in 0 .. MaxFiles /\ parent' \in 0 .. MaxFiles
        /\ counted' \in [in : 0 .. MaxFiles, at : 0 .. MaxFiles]
        /\ go' \in BOOLEAN
        /\ file' = file \/ file' \in Files
    <3>1. CASE FileSwitchOrStop(inpkts + 1)
      BY <3>1, SwitchTyping DEF TypeOK
    <3>2. CASE /\ inpkts' = inpkts + 1 /\ go' \in BOOLEAN
               /\ UNCHANGED <<output, pending, parent, counted>>
      BY <3>2 DEF TypeOK, Files
    <3> QED BY <1>17, <3>1, <3>2 DEF WriteEpb
  <2>2. file' \in Files
    BY <1>17, <2>1 DEF WriteEpb, Written, Popped
  <2>3. captured' \in Nat
    BY <1>17 DEF WriteEpb, TypeOK
  <2> QED BY <1>1, <1>2, <1>10, <1>17, <2>1, <2>2, <2>3
          DEF WriteEpb, Written, Popped, TypeOK, Files
<1>18. CASE Update
  <2>1. /\ file' \in 0 .. MaxFiles /\ idbs' \in Seq(IfaceType)
        /\ headed' \subseteq Files /\ inpkts' \in Nat
        /\ pending' \in 0 .. MaxFiles /\ parent' \in 0 .. MaxFiles
        /\ counted' \in [in : 0 .. MaxFiles, at : 0 .. MaxFiles]
        /\ go' \in BOOLEAN
        /\ file' = file \/ file' \in Files
    <3>1. CASE FileSwitchOrStop(0)
      BY <3>1, SwitchTyping
    <3>2. CASE /\ Count(inpkts) /\ inpkts' = 0
               /\ UNCHANGED <<go, output, pending, parent>>
      BY <3>2 DEF Count, TypeOK, Files
    <3> QED BY <1>18, <3>1, <3>2 DEF Update
  <2> QED BY <1>1, <1>2, <1>18, <2>1 DEF Update, TypeOK, Files
<1>19. CASE Stop
  BY <1>1, <1>2, <1>19 DEF Stop, TypeOK, Files
<1>20. CASE Finish
  BY <1>1, <1>2, <1>20 DEF Finish, Count, TypeOK, Files
<1>21. CASE Ended \/ UNCHANGED vars
  BY <1>1, <1>2, <1>21 DEF Ended, vars, TypeOK, Files
<1> QED BY <1>4, <1>5, <1>7, <1>8, <1>9, <1>11, <1>12, <1>13, <1>14, <1>15,
           <1>16, <1>17, <1>18, <1>19, <1>20, <1>21 DEF Next

(* Every variable of the multiplexer keeps its type. *)
THEOREM TypeCorrect == Spec => []TypeOK
<1>1. Init => Typing
  BY InitTyping
<1>2. Typing /\ [Next]_vars => Typing'
  BY StepTyping
<1>3. Typing => TypeOK
  BY DEF Typing
<1> QED BY <1>1, <1>2, <1>3, PTL DEF Spec

(***************************************************************************)
(* The invariant.  c and n are the section and the number of interfaces    *)
(* that a block of a source is to follow.                                  *)
(***************************************************************************)
Following(c, n, b) ==
    \/ b.type = "SHB" /\ b.sec = c + 1 /\ b.n = 0
    \/ b.type = "IDB" /\ b.sec = c /\ b.n = n + 1 /\ b.ifc = n + 1
    \/ b.type \in {"EPB", "ISB"} /\ b.sec = c /\ b.n = n /\ b.ifc \in 1 .. n

(* Block k is the next one of its source after block j. *)
Neighbours(j, k) ==
    /\ j < k /\ queue[j].src = queue[k].src
    /\ \A m \in (j + 1) .. (k - 1) : queue[m].src # queue[k].src

(* The blocks of s in the queue follow what is written, one the other, up  *)
(* to what s has sent.                                                     *)
Chain(s) ==
    /\ \A k \in DOMAIN queue :
          (queue[k].src = s /\ \A j \in 1 .. (k - 1) : queue[j].src # s) =>
              Following(cursec[s], Len(map[s]), queue[k])
    /\ \A j, k \in DOMAIN queue :
          (queue[k].src = s /\ Neighbours(j, k)) =>
              Following(queue[j].sec, queue[j].n, queue[k])
    /\ \A k \in DOMAIN queue :
          (queue[k].src = s /\ \A j \in (k + 1) .. Len(queue) : queue[j].src # s) =>
              queue[k].sec = sec[s] /\ queue[k].n = nif[s]
    /\ (\A k \in DOMAIN queue : queue[k].src # s) =>
              cursec[s] = sec[s] /\ Len(map[s]) = nif[s]

Chains == (pc = "capture" /\ go) => \A s \in Sources \ lost : Chain(s)

(* While inputs are opened nothing has been sent, and the inputs opened so *)
(* far have their interface.                                               *)
Opening ==
    pc = "open" =>
        /\ queue = <<>> /\ ~savedShb /\ cursec = sec
        /\ \A s \in Sources : sec[s] = 0
        /\ \A s \in Sources :
              Len(map[s]) = IF IsPcapng(s) \/ s > opened THEN 0 ELSE 1
        /\ \A s \in Sources : nif[s] = IF IsPcapng(s) THEN 0 ELSE 1

(* The table of a source leads to that source's interfaces; when no SHB or *)
(* IDB of it was dropped, to the right one.                                *)
Tables ==
    \A s \in Sources : \A i \in DOMAIN map[s] :
        /\ map[s][i] \in DOMAIN saved
        /\ saved[map[s][i]].src = s
        /\ saved[map[s][i]].ifc > 0
        /\ s \notin lost => saved[map[s][i]] = Iface(s, cursec[s], i)

(* Passing through, the numbers are the source's, and nothing is written   *)
(* before the first SHB, which an empty queue cannot refuse.               *)
Passing ==
    Passthrough =>
        /\ Len(saved) = Len(map[1])
        /\ \A i \in DOMAIN map[1] : map[1][i] = i
        /\ ~savedShb => saved = <<>>
        /\ (~savedShb /\ pc = "capture" /\ go) =>
              \/ queue = <<>> /\ sec[1] = 0 /\ nif[1] = 0
              \/ queue # <<>> /\ queue[1].type = "SHB"

MuxInv ==
    /\ Chains /\ Opening /\ Tables /\ Passing
    /\ FileInStep /\ AbortOnlyAfterLoss

(* When the block at the head has taken effect, or is of another source,   *)
(* the rest of the queue follows.                                          *)
LEMMA PopChain ==
    ASSUME Typing, NEW types, Popped(types), NEW s \in Sources, Chain(s),
           IF Head(queue).src = s
             THEN cursec'[s] = Head(queue).sec /\ Len(map'[s]) = Head(queue).n
             ELSE cursec'[s] = cursec[s] /\ Len(map'[s]) = Len(map[s])
    PROVE  Chain(s)'
<1> DEFINE h == Head(queue)
<1>1. /\ queue \in Seq(BlockType) /\ queue # <<>> /\ h = queue[1] /\ queue' \in Seq(BlockType)
      /\ Len(queue') = Len(queue) - 1 /\ 1 \in DOMAIN queue
      /\ \A k \in DOMAIN queue' : k + 1 \in DOMAIN queue /\ queue'[k] = queue[k + 1]
  <2>1. queue \in Seq(BlockType) /\ queue # <<>>
    BY DEF Typing, TypeOK, Popped
  <2>2. 1 \in DOMAIN queue
    BY <2>1
  <2> QED BY <2>1, <2>2, HeadOK
<1>7. /\ DOMAIN queue = 1 .. Len(queue) /\ DOMAIN queue' = 1 .. Len(queue')
      /\ Len(queue) \in Nat /\ Len(queue') \in Nat /\ Len(queue) = Len(queue') + 1
  BY <1>1
<1>8. \A k \in DOMAIN queue' : queue'[k] = queue[k + 1]
  BY <1>1
<1>2. sec' = sec /\ nif' = nif
  BY DEF Popped
<1>3. ASSUME NEW k \in DOMAIN queue', queue'[k].src = s,
             \A j \in 1 .. (k - 1) : queue'[j].src # s
      PROVE  Following(cursec'[s], Len(map'[s]), queue'[k])
  <2>1. k \in Nat /\ k >= 1 /\ k + 1 \in DOMAIN queue /\ queue'[k] = queue[k + 1]
    BY <1>1, <1>3
  <2>2. \A j \in 2 .. k : queue[j].src # s
    <3> TAKE j \in 2 .. k
    <3>1. j - 1 \in 1 .. (k - 1) /\ j - 1 \in DOMAIN queue' /\ (j - 1) + 1 = j
      BY <1>7, <2>1
    <3>2. queue'[j - 1].src # s /\ queue'[j - 1] = queue[j]
      BY <1>8, <1>3, <3>1
    <3> QED BY <3>2
  <2>3. CASE h.src = s
    <3>1. Neighbours(1, k + 1)
      BY <1>1, <1>3, <2>1, <2>2, <2>3 DEF Neighbours
    <3>2. Following(queue[1].sec, queue[1].n, queue[k + 1])
      BY <1>1, <1>3, <2>1, <3>1 DEF Chain
    <3> QED BY <1>1, <2>1, <2>3, <3>2
  <2>4. CASE h.src # s
    <3>1. \A j \in 1 .. ((k + 1) - 1) : queue[j].src # s
      BY <1>1, <2>1, <2>2, <2>4
    <3>2. Following(cursec[s], Len(map[s]), queue[k + 1])
      BY <1>3, <2>1, <3>1 DEF Chain
    <3> QED BY <2>1, <2>4, <3>2
  <2> QED BY <2>3, <2>4
<1>4. ASSUME NEW j \in DOMAIN queue', NEW k \in DOMAIN queue', queue'[k].src = s,
             Neighbours(j, k)'
      PROVE  Following(queue'[j].sec, queue'[j].n, queue'[k])
  <2>1. /\ j \in Nat /\ k \in Nat /\ j + 1 \in DOMAIN queue /\ k + 1 \in DOMAIN queue
        /\ queue'[j] = queue[j + 1] /\ queue'[k] = queue[k + 1] /\ j >= 1
    BY <1>1, <1>4
  <2>2. \A m \in (j + 2) .. k : queue[m].src # queue[k + 1].src
    <3> TAKE m \in (j + 2) .. k
    <3>1. m - 1 \in (j + 1) .. (k - 1) /\ m - 1 \in DOMAIN queue' /\ (m - 1) + 1 = m
      BY <1>7, <2>1
    <3>2. queue'[m - 1].src # queue'[k].src
      BY <1>4, <3>1 DEF Neighbours
    <3>3. queue'[m - 1] = queue[m]
      BY <1>8, <3>1
    <3> QED BY <2>1, <3>2, <3>3
  <2>3. Neighbours(j + 1, k + 1)
    BY <1>4, <2>1, <2>2 DEF Neighbours
  <2> QED BY <1>4, <2>1, <2>3 DEF Chain
<1>5. ASSUME NEW k \in DOMAIN queue', queue'[k].src = s,
             \A j \in (k + 1) .. Len(queue') : queue'[j].src # s
      PROVE  queue'[k].sec = sec'[s] /\ queue'[k].n = nif'[s]
  <2>1. k \in Nat /\ k + 1 \in DOMAIN queue /\ queue'[k] = queue[k + 1] /\ k >= 1
    BY <1>1, <1>5
  <2>2. \A j \in ((k + 1) + 1) .. Len(queue) : queue[j].src # s
    <3> TAKE j \in ((k + 1) + 1) .. Len(queue)
    <3>1. j - 1 \in (k + 1) .. Len(queue') /\ j - 1 \in DOMAIN queue' /\ (j - 1) + 1 = j
      BY <1>7, <2>1
    <3>2. queue'[j - 1].src # s /\ queue'[j - 1] = queue[j]
      BY <1>8, <1>5, <3>1
    <3> QED BY <3>2
  <2> QED BY <1>2, <1>5, <2>1, <2>2 DEF Chain
<1>6. ASSUME \A k \in DOMAIN queue' : queue'[k].src # s
      PROVE  cursec'[s] = sec'[s] /\ Len(map'[s]) = nif'[s]
  <2>1. \A j \in 2 .. Len(queue) : queue[j].src # s
    <3> TAKE j \in 2 .. Len(queue)
    <3>1. j - 1 \in DOMAIN queue' /\ (j - 1) + 1 = j
      BY <1>7
    <3>2. queue'[j - 1].src # s /\ queue'[j - 1] = queue[j]
      BY <1>8, <1>6, <3>1
    <3> QED BY <3>2
  <2>2. CASE h.src = s
    BY <1>1, <1>2, <2>1, <2>2 DEF Chain
  <2>3. CASE h.src # s
    <3>1. \A k \in DOMAIN queue : queue[k].src # s
      BY <1>1, <2>1, <2>3
    <3> QED BY <1>2, <2>3, <3>1 DEF Chain
  <2> QED BY <2>2, <2>3
<1> QED BY <1>3, <1>4, <1>5, <1>6 DEF Chain

(* A block that follows what its source has sent keeps the chain whether   *)
(* it is queued or, when it is no SHB or IDB, dropped.                     *)
LEMMA ArriveChain ==
    ASSUME Typing, NEW b, BlockOK(b), Arrive(b),
           Following(sec[b.src], nif[b.src], b),
           NEW s \in Sources, s \notin lost', Chain(s)
    PROVE  Chain(s)'
<1> DEFINE L == Len(queue)
<1>1. b.src \in Sources /\ sec \in [Sources -> Nat] /\ nif \in [Sources -> Nat]
      /\ queue \in Seq(BlockType) /\ L \in Nat /\ b \in BlockType
  <2>1. b \in BlockType /\ b.src \in Sources
    BY DEF BlockOK, BlockType
  <2>2. /\ sec \in [Sources -> Nat] /\ nif \in [Sources -> Nat]
        /\ queue \in Seq(BlockType)
    BY DEF Typing, TypeOK
  <2>3. L \in Nat
    BY <2>2
  <2> QED BY <2>1, <2>2, <2>3
<1>2. map' = map /\ cursec' = cursec
  BY DEF Arrive
<1>3. sec' = [sec EXCEPT ![b.src] = b.sec] /\ nif' = [nif EXCEPT ![b.src] = b.n]
  BY DEF Arrive
<1>4. CASE queue' = queue
  <2>1. CASE b.src = s /\ b.type \in {"SHB", "IDB"}
    <3>1. lost' = lost \cup {b.src}
      <4>1. Len(queue') # Len(queue) \/ ~(queue' = Append(queue, b))
        BY <1>1, <1>4
      <4> QED BY <1>1, <1>4, <2>1, <4>1 DEF Arrive
    <3> QED BY <2>1, <3>1
  <2>2. CASE ~(b.src = s /\ b.type \in {"SHB", "IDB"})
    <3>1. sec'[s] = sec[s] /\ nif'[s] = nif[s]
      BY <1>1, <1>3, <2>2 DEF Following
    <3> QED BY <1>2, <1>4, <3>1 DEF Chain, Neighbours
  <2> QED BY <2>1, <2>2
<1>5. CASE queue' = Append(queue, b)
  <2>1. /\ Len(queue') = L + 1 /\ queue'[L + 1] = b /\ DOMAIN queue' = 1 .. (L + 1)
        /\ \A k \in 1 .. L : queue'[k] = queue[k]
        /\ DOMAIN queue = 1 .. L
    BY <1>1, <1>5
  <2>2. CASE b.src # s
    <3>1. sec'[s] = sec[s] /\ nif'[s] = nif[s]
      BY <1>1, <1>3, <2>2
    <3>2. \A k \in DOMAIN queue' : queue'[k].src = s => k \in 1 .. L
      BY <2>1, <2>2
    <3>3. ASSUME NEW k \in DOMAIN queue', queue'[k].src = s,
                 \A j \in 1 .. (k - 1) : queue'[j].src # s
          PROVE  Following(cursec'[s], Len(map'[s]), queue'[k])
      <4>1. k \in 1 .. L /\ queue[k].src = s
        BY <2>1, <3>2, <3>3
      <4>2. \A j \in 1 .. (k - 1) : queue[j].src # s
        BY <1>1, <2>1, <3>3, <4>1
      <4> QED BY <1>2, <2>1, <4>1, <4>2 DEF Chain
    <3>4. ASSUME NEW j \in DOMAIN queue', NEW k \in DOMAIN queue', queue'[k].src = s,
                 Neighbours(j, k)'
          PROVE  Following(queue'[j].sec, queue'[j].n, queue'[k])
      <4>1. j \in 1 .. L /\ k \in 1 .. L
        BY <1>1, <2>1, <3>2, <3>4 DEF Neighbours
      <4>2. Neighbours(j, k)
        BY <1>1, <2>1, <3>4, <4>1 DEF Neighbours
      <4> QED BY <2>1, <3>4, <4>1, <4>2 DEF Chain
    <3>5. ASSUME NEW k \in DOMAIN queue', queue'[k].src = s,
                 \A j \in (k + 1) .. Len(queue') : queue'[j].src # s
          PROVE  queue'[k].sec = sec'[s] /\ queue'[k].n = nif'[s]
      <4>1. k \in 1 .. L
        BY <3>2, <3>5
      <4>2. \A j \in (k + 1) .. L : queue[j].src # s
        BY <1>1, <2>1, <3>5, <4>1
      <4> QED BY <2>1, <3>1, <3>5, <4>1, <4>2 DEF Chain
    <3>6. ASSUME \A k \in DOMAIN queue' : queue'[k].src # s
          PROVE  cursec'[s] = sec'[s] /\ Len(map'[s]) = nif'[s]
      BY <1>1, <1>2, <2>1, <3>1, <3>6 DEF Chain
    <3> QED BY <3>3, <3>4, <3>5, <3>6 DEF Chain
  <2>3. CASE b.src = s
    <3>1. sec'[s] = b.sec /\ nif'[s] = b.n
      BY <1>1, <1>3, <2>3
    <3>2. Following(sec[s], nif[s], b)
      BY <2>3
    <3>3. ASSUME NEW k \in DOMAIN queue', queue'[k].src = s,
                 \A j \in 1 .. (k - 1) : queue'[j].src # s
          PROVE  Following(cursec'[s], Len(map'[s]), queue'[k])
      <4>1. CASE k \in 1 .. L
        BY <1>1, <1>2, <2>1, <3>3, <4>1 DEF Chain
      <4>2. CASE k = L + 1
        <5>1. \A j \in DOMAIN queue : queue[j].src # s
          BY <1>1, <2>1, <3>3, <4>2
        <5> QED BY <1>2, <2>1, <3>2, <4>2, <5>1 DEF Chain
      <4> QED BY <1>1, <2>1, <4>1, <4>2
    <3>4. ASSUME NEW j \in DOMAIN queue', NEW k \in DOMAIN queue', queue'[k].src = s,
                 Neighbours(j, k)'
          PROVE  Following(queue'[j].sec, queue'[j].n, queue'[k])
      <4>0. j \in 1 .. L
        BY <1>1, <2>1, <3>4 DEF Neighbours
      <4>1. CASE k \in 1 .. L
        <5>1. Neighbours(j, k)
          BY <1>1, <2>1, <3>4, <4>0, <4>1 DEF Neighbours
        <5> QED BY <2>1, <3>4, <4>0, <4>1, <5>1 DEF Chain
      <4>2. CASE k = L + 1
        <5>1. queue[j].src = s /\ \A m \in (j + 1) .. L : queue[m].src # s
          BY <1>1, <2>1, <2>3, <3>4, <4>0, <4>2 DEF Neighbours
        <5>2. queue[j].sec = sec[s] /\ queue[j].n = nif[s]
          BY <2>1, <4>0, <5>1 DEF Chain
        <5> QED BY <2>1, <3>2, <4>0, <4>2, <5>2
      <4> QED BY <1>1, <2>1, <4>1, <4>2
    <3>5. ASSUME NEW k \in DOMAIN queue', queue'[k].src = s,
                 \A j \in (k + 1) .. Len(queue') : queue'[j].src # s
          PROVE  queue'[k].sec = sec'[s] /\ queue'[k].n = nif'[s]
      <4>1. k = L + 1
        BY <1>1, <2>1, <2>3, <3>5
      <4> QED BY <2>1, <3>1, <4>1
    <3>6. ~ \A k \in DOMAIN queue' : queue'[k].src # s
      <4>1. L + 1 \in DOMAIN queue' /\ queue'[L + 1] = b
        BY <1>1, <2>1
      <4> QED BY <2>3, <4>1
    <3> QED BY <3>3, <3>4, <3>5, <3>6 DEF Chain
  <2> QED BY <2>2, <2>3
<1> QED BY <1>4, <1>5 DEF Arrive

(* The facts about a popped block that the writer relies on. *)
LEMMA HeadFollows ==
    ASSUME Typing, MuxInv, go, NEW types, Popped(types), Head(queue).src \notin lost
    PROVE  LET b == Head(queue) IN Following(cursec[b.src], Len(map[b.src]), b)
<1>1. /\ queue \in Seq(BlockType) /\ queue # <<>>
      /\ Head(queue) = queue[1] /\ BlockOK(Head(queue))
  BY HeadOK DEF Typing, TypeOK, Popped
<1>2. Head(queue).src \in Sources \ lost
  BY <1>1 DEF BlockOK, BlockType
<1>3. Chain(Head(queue).src)
  BY <1>2 DEF MuxInv, Chains, Popped
<1>4. 1 \in DOMAIN queue
  BY <1>1
<1> QED BY <1>1, <1>3, <1>4 DEF Chain

(* Passing through, what comes before the first SHB is the first SHB. *)
LEMMA HeadIsShb ==
    ASSUME Typing, MuxInv, go, NEW types, Popped(types), "SHB" \notin types
    PROVE  Passthrough => savedShb
<1>1. Head(queue) = queue[1] /\ Head(queue).type \in types /\ queue # <<>>
  BY HeadOK DEF Popped
<1> QED BY <1>1 DEF MuxInv, Passing, Popped

(* A new file describes what is saved. *)
LEMMA HeaderIsSaved ==
    ASSUME Passing, NEW f, WriteHeader(f) PROVE idbs' = saved
BY DEF Passing, WriteHeader

(* What depends on the tables alone stays when they stay. *)
LEMMA SameTables ==
    ASSUME Tables, setup' = setup, map' = map, saved' = saved, cursec' = cursec,
           lost \subseteq lost'
    PROVE  Tables'
BY DEF Tables, Sources, Iface

(* An input is opened: it gets an entry of its own, or waits for its IDBs. *)
LEMMA OpenInputInv == ASSUME Typing, MuxInv, OpenInput PROVE MuxInv'
<1>1. setup' = setup /\ pc = "open" /\ pc' = "open" /\ lost' = lost
  BY DEF OpenInput
<1>2. Sources' = Sources /\ Passthrough' = Passthrough /\ \A s : IsPcapng(s)' = IsPcapng(s)
  BY <1>1 DEF Sources, Passthrough, IsPcapng
<1>3. Sources = 1 .. Len(setup.kinds) /\ Len(setup.kinds) \in Nat /\ opened \in Nat
  BY DEF Typing, TypeOK, SetupType, Sources
<1>4. opened' = opened + 1 /\ opened' \in Sources
  BY <1>3 DEF OpenInput
<1>5. /\ saved \in Seq(IfaceType) /\ map \in [Sources -> Seq(Nat)]
      /\ cursec \in [Sources -> Nat]
  BY DEF Typing, TypeOK
<1>6. CASE IsPcapng(opened')
  <2>1. saved' = saved /\ map' = map /\ cursec' = cursec
    BY <1>6 DEF OpenInput
  <2>2. Tables'
    BY <1>1, <2>1, SameTables DEF MuxInv
  <2>3. \A s \in Sources : (IsPcapng(s) \/ s > opened) <=> (IsPcapng(s) \/ s > opened')
    BY <1>3, <1>4, <1>6
  <2>4. Opening'
    BY <1>1, <1>2, <2>1, <2>3 DEF MuxInv, Opening, OpenInput
  <2>5. Passing'
    BY <1>1, <1>2, <2>1 DEF MuxInv, Passing, OpenInput
  <2> QED BY <1>1, <2>2, <2>4, <2>5 DEF MuxInv, Chains, FileInStep, AbortOnlyAfterLoss
<1>7. CASE ~IsPcapng(opened')
  <2> DEFINE o == opened + 1
             e == Iface(o, 0, 1)
  <2>1. saved' = Append(saved, e) /\ map' = [map EXCEPT ![o] = <<Len(saved')>>]
        /\ cursec' = cursec
    BY <1>4, <1>7 DEF OpenInput
  <2>2. e.src = o /\ e.ifc = 1 /\ e \in IfaceType
    BY <1>3, <1>4 DEF Iface, IfaceType
  <2>3. /\ Len(saved') = Len(saved) + 1 /\ saved'[Len(saved')] = e
        /\ \A k \in DOMAIN saved : k \in DOMAIN saved' /\ saved'[k] = saved[k]
        /\ Len(saved') \in DOMAIN saved'
    BY <1>5, <2>1, <2>2
  <2>4. map'[o] = <<Len(saved')>> /\ \A s \in Sources : s # o => map'[s] = map[s]
    BY <1>4, <1>5, <2>1
  <2>5. cursec[o] = 0
    BY <1>1, <1>4 DEF MuxInv, Opening
  <2>6. Tables'
    <3> SUFFICES ASSUME NEW s \in Sources, NEW i \in DOMAIN map'[s]
                 PROVE  /\ map'[s][i] \in DOMAIN saved'
                        /\ saved'[map'[s][i]].src = s
                        /\ saved'[map'[s][i]].ifc > 0
                        /\ s \notin lost' => saved'[map'[s][i]] = Iface(s, cursec'[s], i)
      BY <1>2 DEF Tables
    <3>1. CASE s = o
      <4>1. i = 1 /\ map'[s][i] = Len(saved')
        BY <2>4, <3>1
      <4> QED BY <2>1, <2>2, <2>3, <2>5, <3>1, <4>1
    <3>2. CASE s # o
      BY <1>1, <2>1, <2>3, <2>4, <3>2 DEF MuxInv, Tables
    <3> QED BY <3>1, <3>2
  <2>7. Opening'
    <3>1. \A s \in Sources : Len(map'[s]) = IF IsPcapng(s) \/ s > o THEN 0 ELSE 1
      <4> TAKE s \in Sources
      <4>1. CASE s = o
        <5>1. ~IsPcapng(s) /\ ~(s > o)
          BY <1>3, <1>4, <1>7, <4>1
        <5>2. Len(map'[s]) = 1
          BY <2>4, <4>1
        <5> QED BY <5>1, <5>2
      <4>2. CASE s # o
        <5>1. (s > o) <=> (s > opened)
          BY <1>3, <4>2
        <5>2. Len(map[s]) = IF IsPcapng(s) \/ s > opened THEN 0 ELSE 1
          BY <1>1 DEF MuxInv, Opening
        <5> QED BY <2>4, <4>2, <5>1, <5>2
      <4> QED BY <4>1, <4>2
    <3> QED BY <1>1, <1>2, <1>4, <2>1, <3>1 DEF MuxInv, Opening, OpenInput
  <2>8. ~Passthrough
    <3> SUFFICES ASSUME Passthrough PROVE FALSE
      OBVIOUS
    <3>1. setup.kinds = <<"pcapng">>
      BY DEF Passthrough
    <3>2. opened' = 1 /\ setup.kinds[1] = "pcapng"
      BY <1>3, <1>4, <3>1
    <3> QED BY <1>7, <3>2 DEF IsPcapng
  <2>9. Passing'
    BY <1>2, <2>8 DEF Passing
  <2> QED BY <1>1, <2>6, <2>7, <2>9 DEF MuxInv, Chains, FileInStep, AbortOnlyAfterLoss
<1> QED BY <1>6, <1>7

(* The first file is set up: nothing is queued, and the entries are those  *)
(* of the sources that are not pcapng.                                     *)
LEMMA InitOutputInv == ASSUME Typing, MuxInv, InitOutput PROVE MuxInv'
<1>1. /\ setup' = setup /\ lost' = lost /\ saved' = saved /\ map' = map
      /\ cursec' = cursec /\ sec' = sec /\ nif' = nif /\ queue' = queue
      /\ savedShb' = savedShb /\ pc = "open" /\ pc' = "capture" /\ go' = go
  BY DEF InitOutput
<1>2. Sources' = Sources /\ Passthrough' = Passthrough
  BY <1>1 DEF Sources, Passthrough
<1>3. idbs' = saved'
  BY <1>1, HeaderIsSaved DEF InitOutput, MuxInv
<1>4. queue' = <<>>
  BY <1>1 DEF MuxInv, Opening
<1>5. \A s \in Sources : cursec[s] = sec[s] /\ Len(map[s]) = nif[s]
  <2>1. \A s \in Sources : ~(s > opened)
    <3>1. opened = Len(setup.kinds) /\ Len(setup.kinds) \in Nat
      BY DEF InitOutput, Typing, TypeOK, SetupType
    <3>2. Sources = 1 .. Len(setup.kinds)
      BY DEF Typing, TypeOK, SetupType, Sources
    <3> QED BY <3>1, <3>2
  <2> QED BY <1>1, <2>1 DEF MuxInv, Opening
<1>6. Chains'
  <2> SUFFICES ASSUME NEW s \in Sources PROVE Chain(s)'
    BY <1>2 DEF Chains
  <2> QED BY <1>1, <1>4, <1>5 DEF Chain
<1>7. Tables'
  BY <1>1, SameTables DEF MuxInv
<1>8. Passing'
  <2> SUFFICES ASSUME Passthrough PROVE Passing'
    BY <1>2 DEF Passing
  <2>1. 1 \in Sources /\ IsPcapng(1)
    BY DEF Passthrough, Sources, IsPcapng
  <2>2. sec[1] = 0 /\ nif[1] = 0
    BY <1>1, <2>1 DEF MuxInv, Opening
  <2> QED BY <1>1, <1>2, <1>4, <2>2 DEF MuxInv, Passing
<1>9. FileInStep'
  BY <1>3 DEF FileInStep
<1> QED BY <1>1, <1>6, <1>7, <1>8, <1>9 DEF MuxInv, Opening, AbortOnlyAfterLoss

(* A block arrives that follows what its source has sent. *)
LEMMA ArriveInv ==
    ASSUME Typing, MuxInv, NEW b, BlockOK(b), Arrive(b),
           Following(sec[b.src], nif[b.src], b), b.type = "IDB" => sec[b.src] > 0
    PROVE  MuxInv'
<1>1. /\ setup' = setup /\ pc' = pc /\ pc = "capture" /\ go' = go /\ go
      /\ map' = map /\ saved' = saved /\ cursec' = cursec /\ savedShb' = savedShb
      /\ idbs' = idbs /\ lost \subseteq lost'
  BY DEF Arrive
<1>2. Sources' = Sources /\ Passthrough' = Passthrough
  BY <1>1 DEF Sources, Passthrough
<1>3. Chains'
  <2> SUFFICES ASSUME NEW s \in Sources, s \notin lost' PROVE Chain(s)'
    BY <1>2 DEF Chains
  <2>1. Chain(s)
    BY <1>1 DEF MuxInv, Chains
  <2> QED BY <2>1, ArriveChain
<1>4. Tables'
  BY <1>1, SameTables DEF MuxInv
<1>5. Passing'
  <2> SUFFICES ASSUME Passthrough, ~savedShb
               PROVE  queue' # <<>> /\ queue'[1].type = "SHB"
    BY <1>1, <1>2 DEF MuxInv, Passing
  <2>1. queue \in Seq(BlockType) /\ setup.limit \in Nat /\ b \in BlockType
    BY DEF Typing, TypeOK, SetupType, BlockOK
  <2>2. CASE queue = <<>> /\ sec[1] = 0 /\ nif[1] = 0
    <3>1. HasRoom
      BY <2>1, <2>2 DEF HasRoom
    <3>2. queue' = Append(queue, b)
      BY <3>1 DEF Arrive
    <3>3. b.src = 1
      BY <2>1 DEF BlockType, Passthrough, Sources
    <3>4. b.type = "SHB"
      <4>1. Following(0, 0, b)
        BY <2>2, <3>3
      <4>2. b.type # "IDB"
        BY <2>2, <3>3
      <4> QED BY <4>1, <4>2 DEF Following
    <3> QED BY <2>1, <2>2, <3>2, <3>4
  <2>3. CASE queue # <<>> /\ queue[1].type = "SHB"
    BY <2>1, <2>3, SMTT(30) DEF Arrive
  <2> QED BY <1>1, <2>2, <2>3 DEF MuxInv, Passing
<1>6. FileInStep'
  BY <1>1 DEF MuxInv, FileInStep
<1> QED BY <1>1, <1>3, <1>4, <1>5, <1>6 DEF MuxInv, Opening, AbortOnlyAfterLoss

(* Every block a source sends follows those before. *)
LEMMA SendInv ==
    ASSUME Typing, MuxInv, NEW s \in Sources, SendShb(s) \/ SendIdb(s) \/ SendData(s)
    PROVE  MuxInv'
<1>1. sec[s] \in Nat /\ nif[s] \in Nat
  BY DEF Typing, TypeOK
<1>2. CASE SendShb(s)
  <2> DEFINE b == Block(s, "SHB", sec[s] + 1, 0, 0)
  <2>1. BlockOK(b) /\ b.type = "SHB" /\ b.src = s
    BY <1>1, <1>2 DEF SendShb, Block, BlockOK, BlockType
  <2>2. Following(sec[s], nif[s], b)
    BY DEF Block, Following
  <2>3. Arrive(b)
    BY <1>2 DEF SendShb
  <2> QED BY <2>1, <2>2, <2>3, ArriveInv
<1>3. CASE SendIdb(s)
  <2> DEFINE b == Block(s, "IDB", sec[s], nif[s] + 1, nif[s] + 1)
  <2>1. BlockOK(b) /\ b.src = s
    BY <1>1, <1>3 DEF SendIdb, Block, BlockOK, BlockType
  <2>2. Following(sec[s], nif[s], b)
    BY DEF Block, Following
  <2>3. Arrive(b) /\ sec[s] > 0
    BY <1>3 DEF SendIdb
  <2> QED BY <2>1, <2>2, <2>3, ArriveInv
<1>4. CASE SendData(s)
  <2>1. PICK i \in 1 .. nif[s], t \in {"EPB", "ISB"} : Arrive(Block(s, t, sec[s], nif[s], i))
    BY <1>4 DEF SendData
  <2> DEFINE b == Block(s, t, sec[s], nif[s], i)
  <2>2. BlockOK(b) /\ b.src = s /\ b.type # "IDB"
    BY <1>1 DEF Block, BlockOK, BlockType
  <2>3. Following(sec[s], nif[s], b)
    BY DEF Block, Following
  <2> QED BY <2>1, <2>2, <2>3, ArriveInv
<1> QED BY <1>2, <1>3, <1>4

(* A new section of a source: its old entries are deleted, no others. *)
LEMMA ShbInv == ASSUME Typing, MuxInv, WriteShb PROVE MuxInv'
<1> DEFINE b == Head(queue)
           s == b.src
<1>1. /\ setup' = setup /\ pc' = pc /\ pc = "capture" /\ go /\ lost' = lost
      /\ Popped({"SHB"})
      /\ cursec' = [cursec EXCEPT ![s] = b.sec] /\ map' = [map EXCEPT ![s] = <<>>]
  BY DEF WriteShb, Popped
<1>2. Sources' = Sources /\ Passthrough' = Passthrough
  BY <1>1 DEF Sources, Passthrough
<1>3. /\ BlockOK(b) /\ b.type = "SHB" /\ s \in Sources
  BY <1>1, HeadOK DEF BlockOK, BlockType
<1>4. /\ cursec \in [Sources -> Nat] /\ map \in [Sources -> Seq(Nat)]
      /\ saved \in Seq(IfaceType) /\ idbs \in Seq(IfaceType)
  BY DEF Typing, TypeOK
<1>5. /\ cursec'[s] = b.sec /\ map'[s] = <<>>
      /\ \A t \in Sources : t # s => cursec'[t] = cursec[t] /\ map'[t] = map[t]
  BY <1>1, <1>3, <1>4
<1>6. Chains'
  <2> SUFFICES ASSUME NEW t \in Sources, t \notin lost PROVE Chain(t)'
    BY <1>1, <1>2 DEF Chains
  <2>1. Chain(t)
    BY <1>1 DEF MuxInv, Chains
  <2>2. CASE t = s
    <3>1. Following(cursec[s], Len(map[s]), b)
      BY <1>1, <2>2, HeadFollows
    <3>2. cursec'[t] = b.sec /\ Len(map'[t]) = b.n
      BY <1>3, <1>5, <2>2, <3>1 DEF Following
    <3> QED BY <1>1, <2>1, <2>2, <3>2, PopChain
  <2>3. CASE t # s
    <3>1. cursec'[t] = cursec[t] /\ Len(map'[t]) = Len(map[t])
      BY <1>5, <2>3
    <3> QED BY <1>1, <2>1, <2>3, <3>1, PopChain
  <2> QED BY <2>2, <2>3
<1>7. CASE Passthrough /\ savedShb' = TRUE /\ saved' = <<>> /\ PassShb
  <2>1. Sources = {1} /\ s = 1
    BY <1>3, <1>7 DEF Passthrough, Sources
  <2>2. Tables'
    BY <1>2, <1>5, <2>1 DEF Tables
  <2>3. Passing'
    BY <1>5, <1>7, <2>1 DEF Passing
  <2>4. FileInStep'
    <3>1. go' = FALSE \/ idbs' = <<>>
      BY <1>7 DEF PassShb
    <3> QED BY <1>7, <3>1 DEF FileInStep
  <2> QED BY <1>1, <1>6, <2>2, <2>3, <2>4 DEF MuxInv, Opening, AbortOnlyAfterLoss
<1>8. CASE ~Passthrough /\ saved' = Delete(map[s]) /\ UNCHANGED <<savedShb, go, output, report>>
  <2>1. /\ DOMAIN saved' = DOMAIN saved /\ Len(saved') = Len(saved)
        /\ \A k \in DOMAIN saved :
              saved'[k] = IF \E i \in DOMAIN map[s] : map[s][i] = k THEN Dummy ELSE saved[k]
    BY <1>4, <1>8 DEF Delete
  <2>2. Tables'
    <3> SUFFICES ASSUME NEW t \in Sources, NEW i \in DOMAIN map'[t]
                 PROVE  /\ map'[t][i] \in DOMAIN saved'
                        /\ saved'[map'[t][i]].src = t
                        /\ saved'[map'[t][i]].ifc > 0
                        /\ t \notin lost' => saved'[map'[t][i]] = Iface(t, cursec'[t], i)
      BY <1>2 DEF Tables
    <3>1. t # s
      BY <1>5
    <3>2. map'[t] = map[t] /\ cursec'[t] = cursec[t]
      BY <1>5, <3>1
    <3>3. map[t][i] \in DOMAIN saved /\ saved[map[t][i]].src = t
      BY <3>2 DEF MuxInv, Tables
    <3>4. ~ \E j \in DOMAIN map[s] : map[s][j] = map[t][i]
      BY <1>3, <3>1, <3>3 DEF MuxInv, Tables
    <3>5. saved'[map[t][i]] = saved[map[t][i]]
      BY <2>1, <3>3, <3>4
    <3> QED BY <1>1, <2>1, <3>2, <3>3, <3>5 DEF MuxInv, Tables
  <2>3. Passing'
    BY <1>2, <1>8 DEF Passing
  <2>4. FileInStep'
    <3>1. Len(idbs) = Len(saved) /\ \A k \in DOMAIN saved : saved[k] # Dummy => idbs[k] = saved[k]
      BY <1>1 DEF MuxInv, FileInStep
    <3>2. idbs' = idbs
      BY <1>8
    <3> QED BY <2>1, <3>1, <3>2 DEF FileInStep
  <2> QED BY <1>1, <1>6, <2>2, <2>3, <2>4 DEF MuxInv, Opening, AbortOnlyAfterLoss
<1> QED BY <1>7, <1>8 DEF WriteShb

(* A new interface gets the next number, in the tables and in the file. *)
LEMMA IdbInv == ASSUME Typing, MuxInv, WriteIdb PROVE MuxInv'
<1> DEFINE b == Head(queue)
           s == b.src
           e == Origin(b)
<1>1. /\ setup' = setup /\ pc' = pc /\ pc = "capture" /\ go /\ lost' = lost
      /\ Popped({"IDB"}) /\ cursec' = cursec /\ savedShb' = savedShb
      /\ saved' = Append(saved, e)
      /\ map' = [map EXCEPT ![s] = Append(@, Len(saved'))]
  BY DEF WriteIdb, Popped
<1>2. Sources' = Sources /\ Passthrough' = Passthrough
  BY <1>1 DEF Sources, Passthrough
<1>3. /\ BlockOK(b) /\ b.type = "IDB" /\ s \in Sources /\ b.ifc \in Nat /\ b.ifc > 0
      /\ b.sec \in Nat /\ b.n \in Nat
  BY <1>1, HeadOK DEF BlockOK, BlockType
<1>4. e \in IfaceType /\ e.src = s /\ e.ifc = b.ifc /\ e = Iface(s, b.sec, b.ifc)
  <2>1. s \in Nat
    <3>1. setup.kinds \in Seq(Kinds)
      BY DEF Typing, TypeOK, SetupType
    <3>2. DOMAIN setup.kinds \subseteq Nat
      BY <3>1
    <3> QED BY <1>3, <3>2 DEF Sources
  <2>2. e = Iface(s, b.sec, b.ifc)
    BY DEF Origin
  <2> QED BY <1>3, <2>1, <2>2 DEF Iface, IfaceType
<1>5. /\ map \in [Sources -> Seq(Nat)] /\ saved \in Seq(IfaceType) /\ idbs \in Seq(IfaceType)
  BY DEF Typing, TypeOK
<1>6. /\ Len(saved) \in Nat /\ Len(saved') = Len(saved) + 1 /\ saved'[Len(saved) + 1] = e
      /\ \A k \in DOMAIN saved : k \in DOMAIN saved' /\ saved'[k] = saved[k]
      /\ Len(saved') \in DOMAIN saved' /\ saved' \in Seq(IfaceType)
      /\ DOMAIN saved = 1 .. Len(saved) /\ DOMAIN saved' = 1 .. (Len(saved) + 1)
  BY <1>1, <1>4, <1>5
<1>7. /\ map[s] \in Seq(Nat) /\ Len(map[s]) \in Nat
      /\ map'[s] = Append(map[s], Len(saved) + 1)
      /\ Len(map'[s]) = Len(map[s]) + 1
      /\ map'[s][Len(map[s]) + 1] = Len(saved) + 1
      /\ DOMAIN map[s] = 1 .. Len(map[s]) /\ DOMAIN map'[s] = 1 .. (Len(map[s]) + 1)
      /\ \A i \in DOMAIN map[s] : map'[s][i] = map[s][i]
      /\ \A t \in Sources : t # s => map'[t] = map[t]
  <2>1. map[s] \in Seq(Nat) /\ Len(saved) + 1 \in Nat
    BY <1>3, <1>5, <1>6
  <2>2. /\ map'[s] = Append(map[s], Len(saved) + 1)
        /\ \A t \in Sources : t # s => map'[t] = map[t]
    BY <1>1, <1>3, <1>5, <1>6
  <2> QED BY <2>1, <2>2
<1>8. s \notin lost => b.sec = cursec[s] /\ b.n = Len(map[s]) + 1 /\ b.ifc = Len(map[s]) + 1
  BY <1>1, <1>3, HeadFollows DEF Following
<1>9. Chains'
  <2> SUFFICES ASSUME NEW t \in Sources, t \notin lost, go' PROVE Chain(t)'
    BY <1>1, <1>2 DEF Chains
  <2>1. Chain(t)
    BY <1>1 DEF MuxInv, Chains
  <2>2. CASE t = s
    <3>1. cursec'[t] = b.sec /\ Len(map'[t]) = b.n
      BY <1>1, <1>7, <1>8, <2>2
    <3> QED BY <1>1, <2>1, <2>2, <3>1, PopChain
  <2>3. CASE t # s
    <3>1. cursec'[t] = cursec[t] /\ Len(map'[t]) = Len(map[t])
      BY <1>1, <1>7, <2>3
    <3> QED BY <1>1, <2>1, <2>3, <3>1, PopChain
  <2> QED BY <2>2, <2>3
<1>10. Tables'
  <2> SUFFICES ASSUME NEW t \in Sources, NEW i \in DOMAIN map'[t]
               PROVE  /\ map'[t][i] \in DOMAIN saved'
                      /\ saved'[map'[t][i]].src = t
                      /\ saved'[map'[t][i]].ifc > 0
                      /\ t \notin lost' => saved'[map'[t][i]] = Iface(t, cursec'[t], i)
    BY <1>2 DEF Tables
  <2>1. CASE t = s /\ i = Len(map[s]) + 1
    <3>1. map'[t][i] = Len(saved) + 1 /\ saved'[map'[t][i]] = e
      BY <1>6, <1>7, <2>1, SMTT(30)
    <3>2. t \notin lost => e = Iface(t, cursec[t], i)
      BY <1>4, <1>8, <2>1
    <3> QED BY <1>1, <1>3, <1>4, <1>6, <2>1, <3>1, <3>2, SMTT(30)
  <2>2. CASE ~(t = s /\ i = Len(map[s]) + 1)
    <3>1. i \in DOMAIN map[t] /\ map'[t][i] = map[t][i]
      <4>1. CASE t = s
        <5>1. i \in 1 .. (Len(map[s]) + 1) /\ i # Len(map[s]) + 1
          BY <1>7, <2>2, <4>1
        <5>2. i \in DOMAIN map[s]
          BY <1>7, <5>1
        <5>3. map'[s][i] = map[s][i]
          BY <1>7, <5>2
        <5> QED BY <4>1, <5>2, <5>3
      <4>2. CASE t # s
        BY <1>7, <4>2
      <4> QED BY <4>1, <4>2
    <3>2. /\ map[t][i] \in DOMAIN saved
          /\ saved[map[t][i]].src = t
          /\ saved[map[t][i]].ifc > 0
          /\ t \notin lost => saved[map[t][i]] = Iface(t, cursec[t], i)
      BY <3>1 DEF MuxInv, Tables
    <3>3. /\ map'[t][i] \in DOMAIN saved'
          /\ saved'[map'[t][i]] = saved[map[t][i]]
      BY <1>6, <3>1, <3>2
    <3> QED BY <1>1, <3>1, <3>2, <3>3
  <2> QED BY <2>1, <2>2, SMTT(30)
<1>11. Passing'
  <2> SUFFICES ASSUME Passthrough PROVE Passing'
    BY <1>2 DEF Passing
  <2>1. s = 1
    BY <1>3 DEF Passthrough, Sources
  <2>2. savedShb'
    BY <1>1, HeadIsShb
  <2>3. Len(saved) = Len(map[1]) /\ \A i \in DOMAIN map[1] : map[1][i] = i
    BY DEF MuxInv, Passing
  <2>4. Len(saved') = Len(map'[1])
    BY <1>6, <1>7, <2>1, <2>3
  <2>5. \A i \in DOMAIN map'[1] : map'[1][i] = i
    <3> TAKE i \in DOMAIN map'[1]
    <3>1. i \in DOMAIN map[1] \/ i = Len(map[1]) + 1
      BY <1>7, <2>1, SMTT(30)
    <3>2. CASE i \in DOMAIN map[1]
      <4>1. map'[1][i] = map[1][i]
        BY <1>7, <2>1, <3>2
      <4> QED BY <2>3, <3>2, <4>1
    <3>3. CASE i = Len(map[1]) + 1
      BY <1>7, <2>1, <2>3, <3>3
    <3> QED BY <3>1, <3>2, <3>3
  <2> QED BY <2>2, <2>4, <2>5 DEF Passing
<1>12. FileInStep'
  <2> SUFFICES ASSUME go' PROVE FileInStep'
    BY DEF FileInStep
  <2>1. idbs' = Append(idbs, e)
    BY DEF WriteIdb
  <2>2. Len(idbs) = Len(saved) /\ \A k \in DOMAIN saved : saved[k] # Dummy => idbs[k] = saved[k]
    BY <1>1 DEF MuxInv, FileInStep
  <2>3. /\ Len(idbs') = Len(saved') /\ idbs'[Len(saved) + 1] = e
        /\ \A k \in DOMAIN saved : idbs'[k] = idbs[k]
    BY <1>4, <1>5, <1>6, <2>1, <2>2
  <2>4. \A k \in DOMAIN saved' : saved'[k] # Dummy => idbs'[k] = saved'[k]
    <3> TAKE k \in DOMAIN saved'
    <3>1. k \in DOMAIN saved \/ k = Len(saved) + 1
      BY <1>6
    <3> QED BY <1>6, <2>2, <2>3, <3>1
  <2> QED BY <2>3, <2>4 DEF FileInStep
<1> QED BY <1>1, <1>9, <1>10, <1>11, <1>12 DEF MuxInv, Opening, AbortOnlyAfterLoss

(* A file switch, or the stop that takes its place, keeps the file in step *)
(* with the tables, which it leaves alone.                                 *)
LEMMA SwitchInStep ==
    ASSUME Passing, pc = "capture", FileInStep, go, saved' = saved,
           NEW n, FileSwitchOrStop(n)
    PROVE  FileInStep'
<1>1. CASE go' = FALSE
  BY <1>1 DEF FileInStep
<1>2. CASE WriteHeader(file')
  <2>1. idbs' = saved'
    BY <1>2, HeaderIsSaved
  <2> QED BY <2>1 DEF FileInStep
<1> QED BY <1>1, <1>2 DEF FileSwitchOrStop

(* A block of data leaves the tables as they are. *)
LEMMA DataChains ==
    ASSUME Typing, MuxInv, go, Popped({"EPB", "ISB"}),
           map' = map, saved' = saved, savedShb' = savedShb, cursec' = cursec
    PROVE  Chains' /\ Tables' /\ Passing' /\ (lost' = lost /\ setup' = setup)
<1> DEFINE b == Head(queue)
<1>1. setup' = setup /\ lost' = lost /\ sec' = sec /\ nif' = nif /\ pc = "capture"
  BY DEF Popped
<1>2. Sources' = Sources /\ Passthrough' = Passthrough
  BY <1>1 DEF Sources, Passthrough
<1>3. BlockOK(b) /\ b.type \in {"EPB", "ISB"} /\ b.src \in Sources
  BY HeadOK DEF BlockOK, BlockType
<1>4. Chains'
  <2> SUFFICES ASSUME NEW s \in Sources, s \notin lost PROVE Chain(s)'
    BY <1>1, <1>2 DEF Chains
  <2>1. Chain(s)
    BY <1>1 DEF MuxInv, Chains
  <2>2. CASE b.src = s
    <3>1. cursec'[s] = b.sec /\ Len(map'[s]) = b.n
      BY <1>3, <2>2, HeadFollows DEF Following
    <3> QED BY <2>1, <2>2, <3>1, PopChain
  <2>3. CASE b.src # s
    BY <2>1, <2>3, PopChain
  <2> QED BY <2>2, <2>3
<1>5. Tables'
  BY <1>1, SameTables DEF MuxInv
<1>6. Passing'
  BY <1>2, HeadIsShb DEF MuxInv, Passing
<1> QED BY <1>1, <1>4, <1>5, <1>6

(* A packet or statistics block is written, or its writing fails.  The     *)
(* number of a block from an undisturbed source is always known.           *)
LEMMA DataInv ==
    ASSUME Typing, MuxInv, BadId \/ DataError \/ WriteIsb \/ WriteEpb
    PROVE  MuxInv'
<1>1. /\ go /\ pc = "capture" /\ Popped({"EPB", "ISB"})
      /\ map' = map /\ saved' = saved /\ savedShb' = savedShb /\ cursec' = cursec
  <2>1. CASE BadId \/ DataError
    BY <2>1 DEF BadId, DataError, Popped
  <2>2. CASE WriteIsb \/ WriteEpb
    BY <2>2 DEF WriteIsb, WriteEpb, Written, Popped
  <2> QED BY <2>1, <2>2
<1>2. Chains' /\ Tables' /\ Passing' /\ lost' = lost /\ setup' = setup
  BY <1>1, DataChains
<1>3. CASE BadId
  <2>1. Head(queue).src \in lost
    <3> SUFFICES ASSUME Head(queue).src \notin lost PROVE FALSE
      OBVIOUS
    <3>1. Following(cursec[Head(queue).src], Len(map[Head(queue).src]), Head(queue))
      BY <1>1, HeadFollows
    <3>2. Head(queue).ifc \in 1 .. Len(map[Head(queue).src])
      BY <1>1, <3>1, HeadOK DEF Following
    <3>3. map[Head(queue).src] \in Seq(Nat)
      BY <1>1, HeadOK DEF BlockOK, BlockType, Typing, TypeOK
    <3> QED BY <1>3, <3>2, <3>3 DEF BadId, HasId
  <2>2. pc' = "aborted" /\ lost' # {}
    BY <1>2, <1>3, <2>1 DEF BadId
  <2> QED BY <1>2, <2>2 DEF MuxInv, Opening, FileInStep, AbortOnlyAfterLoss
<1>4. CASE DataError
  <2>1. pc' = "capture" /\ go' = FALSE
    BY <1>1, <1>4 DEF DataError
  <2> QED BY <1>2, <2>1 DEF MuxInv, Opening, FileInStep, AbortOnlyAfterLoss
<1>5. CASE WriteIsb
  <2>1. pc' = "capture" /\ go' = go /\ idbs' = idbs
    BY <1>1, <1>5 DEF WriteIsb, Written
  <2> QED BY <1>1, <1>2, <2>1 DEF MuxInv, Opening, FileInStep, AbortOnlyAfterLoss
<1>6. CASE WriteEpb
  <2>1. pc' = "capture"
    BY <1>1, <1>6 DEF WriteEpb, Written
  <2>2. FileInStep'
    <3>1. CASE FileSwitchOrStop(inpkts + 1)
      BY <1>1, <3>1, SwitchInStep DEF MuxInv
    <3>2. CASE idbs' = idbs
      BY <1>1, <3>2 DEF MuxInv, FileInStep
    <3> QED BY <1>6, <3>1, <3>2 DEF WriteEpb
  <2> QED BY <1>2, <2>1, <2>2 DEF MuxInv, Opening, AbortOnlyAfterLoss
<1> QED BY <1>3, <1>4, <1>5, <1>6

(* The other steps write no block: the tables stay, and go may become      *)
(* false.                                                                  *)
LEMMA OtherInv ==
    ASSUME Typing, MuxInv, Flush \/ Update \/ Stop \/ Finish \/ Ended \/ UNCHANGED vars
    PROVE  MuxInv'
<1>1. /\ setup' = setup /\ lost' = lost /\ sec' = sec /\ nif' = nif
      /\ map' = map /\ saved' = saved /\ savedShb' = savedShb /\ cursec' = cursec
      /\ go' => go
  <2>1. go' => go
    BY DEF Flush, Update, FileSwitchOrStop, Stop, Finish, Ended, vars
  <2> QED BY <2>1 DEF Flush, Popped, Update, Stop, Finish, Ended, vars
<1>2. Sources' = Sources /\ Passthrough' = Passthrough /\ \A s : IsPcapng(s)' = IsPcapng(s)
  BY <1>1 DEF Sources, Passthrough, IsPcapng
<1>3. Tables'
  BY <1>1, SameTables DEF MuxInv
<1>4. CASE queue' = queue /\ pc' = pc /\ opened' = opened
  <2>1. Chains'
    <3>1. \A s : Chain(s)' <=> Chain(s)
      BY <1>1, <1>4 DEF Chain, Neighbours
    <3> QED BY <1>1, <1>2, <1>4, <3>1 DEF MuxInv, Chains
  <2>2. Opening' /\ Passing' /\ AbortOnlyAfterLoss'
    BY <1>1, <1>2, <1>4 DEF MuxInv, Opening, Passing, AbortOnlyAfterLoss
  <2>3. FileInStep'
    <3>1. CASE Update
      <4>1. CASE FileSwitchOrStop(0)
        <5>1. CASE go
          BY <1>1, <3>1, <4>1, <5>1, SwitchInStep DEF MuxInv, Update, Idle
        <5>2. CASE ~go
          BY <1>1, <5>2 DEF FileInStep
        <5> QED BY <5>1, <5>2
      <4>2. CASE UNCHANGED <<go, output, pending, parent>>
        BY <1>1, <1>4, <4>2 DEF MuxInv, FileInStep
      <4> QED BY <3>1, <4>1, <4>2 DEF Update
    <3>2. CASE Stop
      BY <3>2 DEF Stop, FileInStep
    <3>3. CASE Flush \/ Finish \/ Ended \/ UNCHANGED vars
      <4>1. idbs' = idbs
        BY <3>3 DEF Flush, Finish, Ended, vars
      <4> QED BY <1>1, <1>4, <4>1 DEF MuxInv, FileInStep
    <3> QED BY <3>1, <3>2, <3>3
  <2> QED BY <1>3, <2>1, <2>2, <2>3 DEF MuxInv
<1>5. CASE Flush \/ Finish
  <2>1. go' = FALSE /\ pc' \in {"capture", "done"}
    BY <1>5 DEF Flush, Popped, Finish, Typing, TypeOK
  <2> QED BY <1>1, <1>2, <1>3, <2>1
          DEF MuxInv, Chains, Opening, Passing, FileInStep, AbortOnlyAfterLoss
<1> QED BY <1>4, <1>5 DEF Update, Stop, Ended, vars

(* The invariant holds at first. *)
LEMMA InitInv == Init => MuxInv
<1> SUFFICES ASSUME Init PROVE MuxInv
  OBVIOUS
<1>1. /\ pc = "open" /\ opened = 0 /\ queue = <<>> /\ savedShb = FALSE /\ saved = <<>>
      /\ sec = [s \in Sources |-> 0] /\ cursec = sec
      /\ map = [s \in Sources |-> <<>>]
      /\ nif = [s \in Sources |-> IF IsPcapng(s) THEN 0 ELSE 1]
  BY DEF Init
<1>2. Sources \subseteq Nat \ {0}
  BY DEF Init, SetupType, Sources
<1>3. Opening
  BY <1>1, <1>2 DEF Opening
<1>4. Tables
  BY <1>1 DEF Tables
<1>5. Passing
  <2> SUFFICES ASSUME Passthrough PROVE Passing
    BY DEF Passing
  <2>1. 1 \in Sources
    BY DEF Passthrough, Sources
  <2> QED BY <1>1, <2>1 DEF Passing
<1> QED BY <1>1, <1>3, <1>4, <1>5 DEF MuxInv, Chains, FileInStep, AbortOnlyAfterLoss

(* Every step keeps the invariant. *)
LEMMA StepInv == ASSUME Typing, MuxInv, [Next]_vars PROVE MuxInv'
BY OpenInputInv, InitOutputInv, SendInv, ShbInv, IdbInv, DataInv, OtherInv DEF Next

(* The invariant and the types, together, hold always. *)
THEOREM Invariance == Spec => [](Typing /\ MuxInv)
<1>1. Init => Typing /\ MuxInv
  BY InitTyping, InitInv
<1>2. Typing /\ MuxInv /\ [Next]_vars => Typing' /\ MuxInv'
  BY StepTyping, StepInv
<1> QED BY <1>1, <1>2, PTL DEF Spec

(* Every packet and statistics block of a source of which no SHB or IDB    *)
(* was dropped is taken for one of its own interface, in every file and    *)
(* section (pcapng_adjust_block, capture_loop_init_pcapng_output).         *)
THEOREM IdsResolveAlways == Spec => []IdsResolve
<1>1. Typing /\ MuxInv => IdsResolve
  <2> SUFFICES ASSUME Typing, MuxInv, pc = "capture", go, queue # <<>>,
                      Head(queue).type \in {"EPB", "ISB"}, Head(queue).src \notin lost
               PROVE  HasId(Head(queue)) /\ Resolve(idbs, IdOf(Head(queue))) = Origin(Head(queue))
    BY DEF IdsResolve
  <2> DEFINE b == Head(queue)
             m == map[b.src]
             j == m[b.ifc]
  <2>1. queue \in Seq(BlockType) /\ 1 \in DOMAIN queue /\ b = queue[1]
    BY DEF Typing, TypeOK
  <2>2. b.src \in Sources /\ b.sec = cursec[b.src] /\ b.ifc \in 1 .. Len(m)
    <3>1. b.src \in Sources
      <4>1. b \in BlockType
        BY <2>1
      <4> QED BY <4>1 DEF BlockType
    <3>2. Chain(b.src)
      BY <3>1 DEF MuxInv, Chains
    <3>3. Following(cursec[b.src], Len(m), b)
      BY <2>1, <3>2 DEF Chain
    <3> QED BY <3>1, <3>3 DEF Following
  <2>3. m \in Seq(Nat) /\ b.ifc \in DOMAIN m
    BY <2>2, SMTT(30) DEF Typing, TypeOK
  <2>4. j \in DOMAIN saved /\ saved[j] = Origin(b)
    BY <2>2, <2>3 DEF MuxInv, Tables, Origin, Iface
  <2>5. saved[j].ifc > 0 /\ Dummy.ifc = 0
    BY <2>2, <2>3 DEF MuxInv, Tables, Dummy, Iface
  <2>6. saved \in Seq(IfaceType) /\ idbs \in Seq(IfaceType)
    BY DEF Typing, TypeOK
  <2>7. j \in DOMAIN idbs /\ idbs[j] = saved[j]
    <3>1. saved[j] # Dummy
      BY <2>5
    <3>2. Len(idbs) = Len(saved)
      BY DEF MuxInv, FileInStep
    <3> QED BY <2>4, <2>6, <3>1, <3>2 DEF MuxInv, FileInStep
  <2>8. IdOf(b) = j
    <3>1. CASE Passthrough
      <4>1. b.src = 1
        BY <2>2, <3>1 DEF Passthrough, Sources
      <4> QED BY <2>3, <3>1, <4>1 DEF MuxInv, Passing, IdOf
    <3>2. CASE ~Passthrough
      BY <3>2 DEF IdOf
    <3> QED BY <3>1, <3>2
  <2> QED BY <2>3, <2>4, <2>7, <2>8 DEF HasId, Resolve
<1> QED BY <1>1, Invariance, PTL

(* The descriptions in the current file are the saved ones, in their       *)
(* order, save that a deleted one may still be there                       *)
(* (capture_loop_init_pcapng_output, pcapng_write_interface_description_block). *)
THEOREM FileInStepAlways == Spec => []FileInStep
<1>1. MuxInv => FileInStep
  BY DEF MuxInv
<1> QED BY <1>1, Invariance, PTL

(* The interfaces that a new section of a source deletes are that source's *)
(* own, whatever was dropped: the assertion of                             *)
(* pcapng_write_section_header_block.                                      *)
THEOREM MapsOwnAlways == Spec => []MapsOwn
<1>1. MuxInv => MapsOwn
  <2>1. Dummy.ifc = 0
    BY DEF Dummy, Iface
  <2>2. ~(0 > 0)
    OBVIOUS
  <2> QED BY <2>1, <2>2 DEF MuxInv, Tables, MapsOwn
<1> QED BY <1>1, Invariance, PTL

(* Only a dropped SHB or IDB makes pcapng_adjust_block fail. *)
THEOREM AbortAlwaysAfterLoss == Spec => []AbortOnlyAfterLoss
<1>1. MuxInv => AbortOnlyAfterLoss
  BY DEF MuxInv
<1> QED BY <1>1, Invariance, PTL

(* While files are merged, an interface number is never given to another   *)
(* interface (saved_idbs only grows; deleted entries become dummies).      *)
THEOREM NumbersStay == Spec => IdsNeverReused
<1>1. ASSUME Typing, [Next]_vars, ~Passthrough
      PROVE  /\ Len(saved') >= Len(saved)
             /\ \A k \in DOMAIN saved : saved'[k] \in {saved[k], Dummy}
  <2>1. saved \in Seq(IfaceType)
    BY <1>1 DEF Typing, TypeOK
  <2>2. CASE saved' = saved
    <3>1. Len(saved) \in Nat /\ Len(saved') = Len(saved)
      BY <2>1, <2>2
    <3>2. \A k \in DOMAIN saved : saved'[k] = saved[k]
      BY <2>2
    <3> QED BY <3>1, <3>2
  <2>3. ASSUME NEW e, saved' = Append(saved, e)
        PROVE  /\ Len(saved') >= Len(saved)
               /\ \A k \in DOMAIN saved : saved'[k] \in {saved[k], Dummy}
    BY <2>1, <2>3
  <2>4. ASSUME NEW ids, saved' = Delete(ids)
        PROVE  /\ Len(saved') >= Len(saved)
               /\ \A k \in DOMAIN saved : saved'[k] \in {saved[k], Dummy}
    <3>1. DOMAIN saved' = DOMAIN saved /\ Len(saved') = Len(saved)
      BY <2>1, <2>4 DEF Delete
    <3> QED BY <2>1, <2>4, <3>1 DEF Delete
  <2>5. \/ saved' = saved
        \/ \E e : saved' = Append(saved, e)
        \/ \E ids : saved' = Delete(ids)
    <3>1. ASSUME NEW s, SendShb(s) \/ SendIdb(s) \/ SendData(s) PROVE saved' = saved
      BY <3>1 DEF SendShb, SendIdb, SendData, Arrive
    <3>2. ASSUME Flush \/ BadId \/ DataError \/ WriteIsb \/ WriteEpb
          PROVE  saved' = saved
      BY <3>2 DEF Flush, BadId, DataError, WriteIsb, WriteEpb, Written
    <3>3. ASSUME \/ InitOutput \/ Update \/ Stop \/ Finish \/ Ended \/ UNCHANGED vars
          PROVE  saved' = saved
      BY <3>3 DEF InitOutput, Update, Stop, Finish, Ended, vars
    <3>4. CASE OpenInput
      BY <3>4 DEF OpenInput
    <3>5. CASE WriteShb
      BY <1>1, <3>5 DEF WriteShb
    <3>6. CASE WriteIdb
      BY <3>6 DEF WriteIdb
    <3> QED BY <1>1, <3>1, <3>2, <3>3, <3>4, <3>5, <3>6 DEF Next
  <2> QED BY <2>2, <2>3, <2>4, <2>5
<1>2. Typing /\ [Next]_vars =>
        [~Passthrough =>
          /\ Len(saved') >= Len(saved)
          /\ \A k \in DOMAIN saved : saved'[k] \in {saved[k], Dummy}]_vars
  BY <1>1
<1>3. Spec => []Typing
  BY Invariance, PTL
<1> QED BY <1>2, <1>3, PTL DEF Spec, IdsNeverReused

(* The file that the parent is still to be told of is the current one, and *)
(* only a capture that is passed through delays the message.               *)
Naming ==
    /\ NamedWhenHeaded
    /\ pending \in {0, file}
    /\ ~Passthrough => pending = 0

(* A new file that is not passed through has its SHB when it is reported.  *)
LEMMA NewFileNamed ==
    ASSUME Naming, setup' = setup, WriteHeader(file'), ReportFile(file')
    PROVE  Naming'
<1>1. Passthrough' = Passthrough
  BY DEF Passthrough
<1>2. headed \subseteq headed'
  BY DEF WriteHeader
<1>3. CASE Passthrough
  <2>1. pending' = file' /\ parent' = parent
    BY <1>3 DEF ReportFile
  <2> QED BY <1>1, <1>2, <1>3, <2>1 DEF Naming, NamedWhenHeaded
<1>4. CASE ~Passthrough
  <2>1. parent' = file' /\ pending' = pending /\ file' \in headed'
    BY <1>4 DEF ReportFile, WriteHeader
  <2> QED BY <1>1, <1>4, <2>1 DEF Naming, NamedWhenHeaded
<1> QED BY <1>3, <1>4

(* The parent is told of a file when the section header is in it, whoever  *)
(* wrote it (report_new_capture_file, capture_loop_write_pcapng_cb).       *)
THEOREM NamedAlwaysWhenHeaded == Spec => []NamedWhenHeaded
<1>1. Init => Naming
  BY DEF Init, Naming, NamedWhenHeaded
<1>2. ASSUME Naming, [Next]_vars PROVE Naming'
  <2>1. setup' = setup /\ Passthrough' = Passthrough
    BY <1>2, SetupFixed DEF Passthrough
  <2>2. ASSUME UNCHANGED <<file, headed, pending, parent>> PROVE Naming'
    BY <1>2, <2>1, <2>2 DEF Naming, NamedWhenHeaded
  <2>3. CASE InitOutput
    BY <1>2, <2>1, <2>3, NewFileNamed DEF InitOutput
  <2>4. CASE WriteShb
    <3>1. CASE UNCHANGED <<output, report>>
      BY <2>2, <3>1
    <3>2. CASE ~UNCHANGED <<output, report>>
      <4>1. /\ headed' = headed \cup {file} /\ pending' = 0 /\ file' = file
            /\ parent' = IF pending # 0 THEN pending ELSE parent
        BY <2>4, <3>2 DEF WriteShb, PassShb
      <4> QED BY <1>2, <4>1 DEF Naming, NamedWhenHeaded
    <3> QED BY <3>1, <3>2
  <2>5. ASSUME NEW n, FileSwitchOrStop(n) PROVE Naming'
    BY <1>2, <2>1, <2>2, <2>5, NewFileNamed DEF FileSwitchOrStop
  <2>6. CASE WriteEpb
    BY <2>2, <2>5, <2>6 DEF WriteEpb
  <2>7. CASE Update
    BY <2>2, <2>5, <2>7 DEF Update
  <2>8. ASSUME NEW s, SendShb(s) \/ SendIdb(s) \/ SendData(s) PROVE Naming'
    BY <2>2, <2>8 DEF SendShb, SendIdb, SendData, Arrive
  <2>9. CASE Flush \/ BadId \/ DataError \/ WriteIdb \/ WriteIsb
    BY <2>2, <2>9 DEF Flush, BadId, DataError, WriteIdb, WriteIsb, Written
  <2>10. CASE OpenInput \/ Stop \/ Finish \/ Ended \/ UNCHANGED vars
    BY <2>2, <2>10 DEF OpenInput, Stop, Finish, Ended, vars
  <2> QED BY <1>2, <2>3, <2>4, <2>6, <2>7, <2>8, <2>9, <2>10 DEF Next
<1>3. Naming => NamedWhenHeaded
  BY DEF Naming
<1> QED BY <1>1, <1>2, <1>3, PTL DEF Spec

(* The parent knows of the current file, but for a file that is passed     *)
(* through: of the first of those it knows once there is a packet in it.   *)
Counting ==
    /\ CountedAreInFile
    /\ parent <= file /\ pending \in {0, file}
    /\ ~Passthrough => parent = file /\ pending = 0
    /\ Passthrough /\ file = 1 =>
          /\ pending = 1 \/ parent = 1
          /\ inpkts > 0 \/ (savedShb /\ go) => parent = 1
    /\ pc = "open" => file = 0 /\ inpkts = 0

(* A count is of packets in the current file. *)
LEMMA CountInStep ==
    ASSUME Typing, Counting, NEW n \in Nat, Count(n), pc = "capture",
           Passthrough /\ file = 1 /\ n > 0 => parent = 1
    PROVE  /\ counted'.at = counted'.in \/ (Passthrough /\ counted'.in > 1)
           /\ counted'.at <= counted'.in
<1>1. CASE n > 0
  <2>1. counted' = [in |-> file, at |-> parent]
    BY <1>1 DEF Count
  <2>2. counted'.in = file /\ counted'.at = parent
    BY <2>1
  <2>3. file \in Nat /\ file > 0 /\ parent \in Nat
    BY DEF Typing, TypeOK, Files
  <2> QED BY <1>1, <2>2, <2>3 DEF Counting
<1>2. CASE ~(n > 0)
  BY <1>2 DEF Count, Counting, CountedAreInFile
<1> QED BY <1>1, <1>2

(* A switch that counts n packets, all of them in a file the parent knows. *)
LEMMA SwitchCounting ==
    ASSUME Typing, Counting, NEW n \in Nat, FileSwitchOrStop(n), pc = "capture",
           setup' = setup, pc' = pc, savedShb' = savedShb,
           Passthrough /\ file = 1 /\ n > 0 => parent = 1
    PROVE  Counting'
<1>1. Passthrough' = Passthrough
  BY DEF Passthrough
<1>2. file \in Nat /\ file > 0 /\ parent \in Nat
  BY DEF Typing, TypeOK, Files
<1>3. CASE go' = FALSE /\ inpkts' = n /\ UNCHANGED <<output, pending, parent, counted>>
  BY <1>1, <1>2, <1>3 DEF Counting, CountedAreInFile
<1>4. CASE ~(go' = FALSE /\ inpkts' = n /\ UNCHANGED <<output, pending, parent, counted>>)
  <2>1. file' = file + 1 /\ Count(n) /\ ReportFile(file')
    BY <1>4 DEF FileSwitchOrStop
  <2>2. CountedAreInFile'
    BY <1>1, <2>1, CountInStep DEF CountedAreInFile
  <2>3. CASE Passthrough
    <3>1. parent <= file /\ pending' = file' /\ parent' = parent /\ pc' # "open"
      BY <2>1, <2>3 DEF ReportFile, Counting
    <3>2. file' # 1 /\ parent' <= file'
      BY <1>2, <2>1, <3>1
    <3> QED BY <1>1, <2>2, <2>3, <3>1, <3>2 DEF Counting
  <2>4. CASE ~Passthrough
    <3>1. parent' = file' /\ pending' = 0 /\ pc' # "open"
      BY <2>1, <2>4 DEF ReportFile, Counting
    <3>2. parent' <= file'
      BY <1>2, <2>1, <3>1
    <3> QED BY <1>1, <2>2, <2>4, <3>1, <3>2 DEF Counting
  <2> QED BY <2>3, <2>4
<1> QED BY <1>3, <1>4

(* What the parent is told of a file is told after its name, which it gets *)
(* when the file has a section header (report_new_capture_file,            *)
(* report_packet_count, capture_loop_write_pcapng_cb).                     *)
THEOREM ParentAlwaysInStep == Spec => []ParentInStep
<1>1. Init => Counting
  BY DEF Init, Counting, CountedAreInFile
<1>2. ASSUME Typing, MuxInv, Counting, [Next]_vars PROVE Counting'
  <2>1. setup' = setup /\ Passthrough' = Passthrough
    BY <1>2, SetupFixed DEF Passthrough
  <2>2. inpkts \in Nat /\ file \in Nat /\ parent \in Nat
    BY <1>2 DEF Typing, TypeOK
  <2>3. ASSUME UNCHANGED <<output, report, savedShb>>, go' => go, pc' = "open" => pc = "open"
        PROVE  Counting'
    BY <1>2, <2>1, <2>3 DEF Counting, CountedAreInFile
  <2>4. CASE InitOutput
    <3>1. /\ pc' = "capture" /\ file' = 1 /\ ReportFile(1)
          /\ savedShb' = savedShb /\ inpkts' = inpkts /\ counted' = counted
          /\ pc = "open"
      BY <2>4 DEF InitOutput
    <3>2. inpkts = 0 /\ parent = 0 /\ ~savedShb
      BY <1>2, <2>2, <3>1 DEF Counting, MuxInv, Opening
    <3>3. CASE Passthrough
      BY <1>2, <2>1, <3>1, <3>2, <3>3 DEF Counting, CountedAreInFile, ReportFile
    <3>4. CASE ~Passthrough
      BY <1>2, <2>1, <3>1, <3>2, <3>4 DEF Counting, CountedAreInFile, ReportFile
    <3> QED BY <3>3, <3>4
  <2>5. CASE WriteShb
    <3>1. CASE UNCHANGED <<output, report>> /\ Passthrough
      <4>1. pc' = pc /\ (go' = FALSE \/ (UNCHANGED go /\ pending = 0))
        BY <2>5, <3>1 DEF WriteShb, PassShb
      <4> QED BY <1>2, <2>1, <3>1, <4>1 DEF Counting, CountedAreInFile
    <3>2. CASE UNCHANGED <<output, report>> /\ ~Passthrough
      <4>1. savedShb' = savedShb /\ go' = go /\ pc' = pc
        BY <2>5, <3>2 DEF WriteShb
      <4> QED BY <2>3, <3>2, <4>1
    <3>3. CASE ~UNCHANGED <<output, report>>
      <4>1. /\ pending' = 0 /\ file' = file /\ Passthrough /\ inpkts' = inpkts
            /\ counted' = counted /\ pc' = pc
            /\ parent' = IF pending # 0 THEN pending ELSE parent
        BY <2>5, <3>3 DEF WriteShb, PassShb
      <4>2. parent' <= file
        BY <1>2, <2>2, <4>1 DEF Counting
      <4> QED BY <1>2, <2>1, <4>1, <4>2 DEF Counting, CountedAreInFile
    <3> QED BY <3>1, <3>2, <3>3
  <2>6. CASE WriteEpb
    <3>1. /\ Popped({Head(queue).type}) /\ Head(queue).type = "EPB" /\ go
          /\ pc' = pc /\ savedShb' = savedShb /\ pc = "capture"
      BY <2>6 DEF WriteEpb, Written, Popped
    <3>2. Passthrough => savedShb
      BY <1>2, <3>1, HeadIsShb
    <3>3. Passthrough /\ file = 1 => parent = 1
      BY <1>2, <3>1, <3>2 DEF Counting
    <3>4. CASE FileSwitchOrStop(inpkts + 1)
      BY <1>2, <2>1, <2>2, <3>1, <3>3, <3>4, SwitchCounting
    <3>5. CASE UNCHANGED <<output, pending, parent, counted>>
      BY <1>2, <2>1, <3>1, <3>3, <3>5 DEF Counting, CountedAreInFile
    <3> QED BY <2>6, <3>4, <3>5 DEF WriteEpb
  <2>7. CASE Update
    <3>1. setup' = setup /\ pc' = pc /\ savedShb' = savedShb /\ pc = "capture"
      BY <2>7 DEF Update, Idle
    <3>2. CASE FileSwitchOrStop(0)
      BY <1>2, <3>1, <3>2, SwitchCounting
    <3>3. CASE Count(inpkts) /\ inpkts' = 0 /\ UNCHANGED <<go, output, pending, parent>>
      <4>1. CountedAreInFile'
        BY <1>2, <2>1, <2>2, <3>1, <3>3, CountInStep DEF Counting, CountedAreInFile
      <4> QED BY <1>2, <2>1, <3>1, <3>3, <4>1 DEF Counting
    <3> QED BY <2>7, <3>2, <3>3 DEF Update
  <2>8. CASE Finish
    <3>1. pc' = "done" /\ pc = "capture" /\ Count(inpkts) /\ inpkts' = 0
          /\ UNCHANGED <<go, savedShb, output, pending, parent>>
      BY <2>8 DEF Finish
    <3>2. CountedAreInFile'
      BY <1>2, <2>1, <2>2, <3>1, CountInStep DEF Counting, CountedAreInFile
    <3> QED BY <1>2, <2>1, <3>1, <3>2 DEF Counting
  <2>9. ASSUME NEW s, SendShb(s) \/ SendIdb(s) \/ SendData(s) PROVE Counting'
    BY <2>3, <2>9 DEF SendShb, SendIdb, SendData, Arrive
  <2>10. CASE WriteIdb
    <3>1. /\ UNCHANGED <<pc, savedShb, file, report>> /\ (go' => go)
      BY <2>10 DEF WriteIdb, Popped
    <3> QED BY <1>2, <2>1, <3>1 DEF Counting, CountedAreInFile
  <2>11. CASE Flush \/ BadId \/ DataError \/ WriteIsb
    BY <2>3, <2>11 DEF Flush, BadId, DataError, WriteIsb, Written, Popped
  <2>12. CASE OpenInput \/ Stop \/ Ended \/ UNCHANGED vars
    BY <2>3, <2>12 DEF OpenInput, Stop, Ended, vars
  <2> QED BY <1>2, <2>4, <2>5, <2>6, <2>7, <2>8, <2>9, <2>10, <2>11, <2>12 DEF Next
<1>3. Counting /\ NamedWhenHeaded => ParentInStep
  BY DEF Counting, ParentInStep
<1> QED BY <1>1, <1>2, <1>3, Invariance, NamedAlwaysWhenHeaded, PTL DEF Spec

================================================================================
