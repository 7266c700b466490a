------------------------ MODULE CaptureSessionProofs ------------------------
(***************************************************************************)
(* Theorems about CaptureSession, for any setups, any size of the pipe and *)
(* any number of files, packets and extcaps.                               *)
(*                                                                         *)
(* The invariant has a part for each thing that must be remembered: what   *)
(* dumpcap is at and has written (ChildInv), how the pieces in the pipe    *)
(* follow each other (FrameInv), what the interface will have been told    *)
(* when it has read them (CountInv) and which file will be the current one *)
(* (NameInv), who is still there (DownInv), and what the interface makes   *)
(* of it (UiInv).                                                          *)
(***************************************************************************)
EXTENDS CaptureSession, NumberLemmas, SequenceTheorems

UiRecord ==
    [state : CapStates, cf : CfStates, name : 0..MaxFile, read : Nat, save : 0..MaxFile, pending : Nat,
     count : Nat, info : 0..MaxFile, seen : Nat, spin : Nat, broken : BOOLEAN]

ChildType ==
    /\ child \in ChildStates /\ file \in 0..MaxFile
    /\ disk \in [Files -> 0..MaxCount] /\ buffered \in 0..MaxCount /\ untold \in 0..MaxCount
    /\ lost \in [Files -> 0..MaxCount]

ExtcapType ==
    /\ proc \in [Extcaps -> {"run", "term", "dead"}]
    /\ fifo \in [Extcaps -> {"unopened", "open", "gone"}]
    /\ pid \in [Extcaps -> BOOLEAN] /\ watches \in [Extcaps -> SUBSET {"stdout", "stderr"}]

LoopType ==
    /\ signal \in BOOLEAN
    /\ loop \in {"idle", "wait", "spin"} /\ watching \in BOOLEAN /\ fork \in BOOLEAN
    /\ stopAfter \in BOOLEAN /\ waitCbs \in BOOLEAN /\ timer \in BOOLEAN /\ rt \in BOOLEAN
    /\ asked \in {"no", "stop", "discard"} /\ switched \in BOOLEAN /\ unopened \in BOOLEAN

UiType ==
    /\ ui \in UiRecord
    /\ {ui.read, ui.count, ui.seen} \subseteq 0..MaxCount
    /\ told \in [Files -> 0..MaxCount]

Hands    == [msg : Message \cup {NoMessage}, part : 0..5]
PipeType == SyncPipeType /\ writing \in [Writers -> Hands]

Typing == PipeType /\ setup \in Setups /\ ChildType /\ ExtcapType /\ LoopType /\ UiType

(* A typed state is well formed.                                           *)
LEMMA TypingIs == ASSUME Typing PROVE TypeOK
BY DEF Typing, TypeOK, PipeType, ChildType, ExtcapType, LoopType, UiType, UiRecord

(* A setup and its fields.                                                 *)
LEMMA SetupFields ==
    ASSUME setup \in Setups
    PROVE  /\ setup.extcaps \in Nat /\ setup.packets \in 0..MaxCount /\ setup.ring \in 0..MaxFile
           /\ setup.files \in 1..MaxFile /\ setup.rt \in BOOLEAN /\ setup.info \in BOOLEAN
           /\ setup.logs \in BOOLEAN /\ setup.switches \in BOOLEAN /\ setup.logs => setup.rt
BY SessionAssumption DEF SetupType

(***************************************************************************)
(* The pipe.                                                               *)
(***************************************************************************)
(* The messages dumpcap sends are messages, and a piece is made of one.    *)
LEMMA MessageIs ==
    ASSUME NEW kind \in Kinds, NEW f \in 0..MaxFile, NEW n \in 0..MaxCount
    PROVE  /\ Msg(kind, f, n) \in Message
           /\ Msg(kind, f, n).kind = kind /\ Msg(kind, f, n).file = f /\ Msg(kind, f, n).n = n
BY DEF Message, Msg

(* Zero is a number of a file and of packets.                              *)
LEMMA Zeros == 0 \in 0..MaxFile /\ 0 \in 0..MaxCount
BY SyncPipeAssumption

(* A piece of a message, and its fields;                                   *)
LEMMA PieceIs ==
    ASSUME NEW w \in Writers, NEW m \in Message, NEW i \in 1..5
    PROVE  /\ Piece(w, m, i) \in Pieces
           /\ Piece(w, m, i).by = w /\ Piece(w, m, i).msg = m /\ Piece(w, m, i).part = i
BY DEF Pieces, Piece

(* a piece is one of its writer, its message and its part.                 *)
LEMMA PieceFields ==
    ASSUME NEW p \in Pieces
    PROVE  /\ p.by \in Writers /\ p.msg \in Message /\ p.part \in 1..5
           /\ p = Piece(p.by, p.msg, p.part)
           /\ p.msg.kind \in Kinds /\ p.msg.file \in 0..MaxFile /\ p.msg.n \in 0..MaxCount
BY DEF Pieces, Piece, Message

(* A message has two parts, or five.                                       *)
LEMMA PartsIs == ASSUME NEW m PROVE Parts(m) \in {2, 5}
BY DEF Parts

(***************************************************************************)
(* The packets on disk.                                                    *)
(***************************************************************************)
(* The sums that Written computes, up to file k.                           *)
Sums(w, d, k) ==
    /\ w \in [0..k -> Nat]
    /\ w[0] = 0
    /\ \A f \in 1..k : w[f] = w[f - 1] + d[f]

(* They exist,                                                             *)
LEMMA SumsExist ==
    ASSUME NEW d \in [Files -> Nat]
    PROVE  \E w : Sums(w, d, MaxFile)
<1> DEFINE S == {k \in Nat : k <= MaxFile => \E w : Sums(w, d, k)}
<1>1. 0 \in S
  <2>1. Sums([i \in 0..0 |-> 0], d, 0)
    BY DEF Sums
  <2> QED
    BY <2>1
<1>2. ASSUME NEW k \in Nat, k \in S PROVE k + 1 \in S
  <2> SUFFICES ASSUME k + 1 <= MaxFile PROVE \E w : Sums(w, d, k + 1)
    OBVIOUS
  <2>1. PICK w : Sums(w, d, k)
    BY <1>2, SyncPipeAssumption
  <2> DEFINE u == [i \in 0..(k + 1) |-> IF i <= k THEN w[i] ELSE w[k] + d[k + 1]]
  <2>2. d[k + 1] \in Nat /\ w[k] \in Nat
    BY <2>1, SyncPipeAssumption DEF Files, Sums
  <2>3. u \in [0..(k + 1) -> Nat] /\ u[0] = 0
    BY <2>1, <2>2 DEF Sums
  <2>4. ASSUME NEW f \in 1..(k + 1) PROVE u[f] = u[f - 1] + d[f]
    <3>1. CASE f <= k
      BY <3>1, <2>1 DEF Sums
    <3>2. CASE f = k + 1
      BY <3>2, <2>1 DEF Sums
    <3> QED
      BY <3>1, <3>2
  <2> HIDE DEF u
  <2>5. Sums(u, d, k + 1)
    BY <2>3, <2>4 DEF Sums
  <2> QED
    BY <2>5
<1> HIDE DEF S
<1>3. MaxFile \in S
  BY <1>1, <1>2, SetInduction, SyncPipeAssumption
<1> QED
  BY <1>3, SyncPipeAssumption DEF S

(* and the last of them is what Written computes.                          *)
LEMMA WrittenIs ==
    ASSUME NEW d \in [Files -> Nat], NEW w, Sums(w, d, MaxFile)
    PROVE  Written(d) = w[MaxFile]
<1> DEFINE Step(f) == [n \in 0..MaxFile |-> IF n = 0 THEN 0 ELSE f[n - 1] + d[n]]
<1>0. MaxFile \in Nat
  BY SyncPipeAssumption
<1>1. w = Step(w)
  BY DEF Sums
<1>2. ASSUME NEW f, f = Step(f) PROVE f = w
  <2> DEFINE Agree == {n \in Nat : n \in 0..MaxFile => f[n] = w[n]}
  <2>1. 0 \in Agree
    BY <1>0, <1>2 DEF Sums
  <2>2. ASSUME NEW n \in Nat, n \in Agree PROVE n + 1 \in Agree
    <3> SUFFICES ASSUME n + 1 \in 0..MaxFile PROVE f[n + 1] = w[n + 1]
      OBVIOUS
    <3>1. n + 1 \in 1..MaxFile /\ n \in 0..MaxFile /\ (n + 1) - 1 = n
      BY <1>0
    <3>2. f[n + 1] = f[n] + d[n + 1]
      BY <1>2, <3>1
    <3>3. w[n + 1] = w[n] + d[n + 1]
      BY <3>1 DEF Sums
    <3> QED
      BY <2>2, <3>1, <3>2, <3>3
  <2> HIDE DEF Agree
  <2>3. \A n \in Nat : n \in Agree
    BY <2>1, <2>2, SetInduction
  <2>4. \A n \in 0..MaxFile : f[n] = w[n]
    BY <2>3 DEF Agree
  <2> QED
    BY <1>1, <1>2, <2>4 DEF Sums
<1> HIDE DEF Step
<1>3. (CHOOSE f : f = Step(f)) = w
  BY <1>1, <1>2
<1> QED
  BY <1>3 DEF Written, Step

(* No file has more than all; a packet more in one is one more in all.     *)
LEMMA WrittenBounds ==
    ASSUME NEW d \in [Files -> Nat]
    PROVE  Written(d) \in Nat /\ \A f \in Files : d[f] <= Written(d)
<1>1. PICK w : Sums(w, d, MaxFile)
  BY SumsExist
<1>2. Written(d) = w[MaxFile] /\ MaxFile \in Nat
  BY <1>1, WrittenIs, SyncPipeAssumption
<1>3. ASSUME NEW f \in Files PROVE d[f] <= w[MaxFile]
  <2> DEFINE S == {k \in Nat : f + k <= MaxFile => d[f] <= w[f + k]}
  <2>1. 0 \in S
    <3>1. w[f] = w[f - 1] + d[f] /\ w[f - 1] \in Nat /\ d[f] \in Nat /\ f + 0 = f
      BY <1>1, <1>2 DEF Sums, Files
    <3> QED
      BY <3>1
  <2>2. ASSUME NEW k \in Nat, k \in S PROVE k + 1 \in S
    <3> SUFFICES ASSUME f + (k + 1) <= MaxFile PROVE d[f] <= w[f + (k + 1)]
      OBVIOUS
    <3>1. f + k \in 0..MaxFile /\ f + (k + 1) \in 1..MaxFile /\ (f + (k + 1)) - 1 = f + k
      BY <1>2 DEF Files
    <3>2. w[f + (k + 1)] = w[f + k] + d[f + (k + 1)]
      BY <1>1, <3>1 DEF Sums
    <3>3. d[f + (k + 1)] \in Nat /\ w[f + k] \in Nat /\ d[f] \in Nat
      BY <1>1, <3>1 DEF Sums, Files
    <3>4. d[f] <= w[f + k]
      BY <2>2, <3>1, <1>2
    <3> QED
      BY <3>2, <3>3, <3>4
  <2> HIDE DEF S
  <2>3. MaxFile - f \in S
    <3>1. MaxFile - f \in Nat
      BY <1>2 DEF Files
    <3> QED
      BY <3>1, <2>1, <2>2, SetInduction
  <2> QED
    BY <2>3, <1>2 DEF S, Files
<1> QED
  BY <1>1, <1>2, <1>3 DEF Sums

(* Packets more in one file are as many more in all.                       *)
LEMMA WrittenAdd ==
    ASSUME NEW d \in [Files -> Nat], NEW f \in Files, NEW n \in Nat
    PROVE  /\ [d EXCEPT ![f] = @ + n] \in [Files -> Nat]
           /\ Written([d EXCEPT ![f] = @ + n]) = Written(d) + n
<1> DEFINE e == [d EXCEPT ![f] = @ + n]
<1>0. MaxFile \in Nat /\ f \in 1..MaxFile
  BY SyncPipeAssumption DEF Files
<1>1. PICK w : Sums(w, d, MaxFile)
  BY SumsExist
<1> DEFINE u == [i \in 0..MaxFile |-> IF i < f THEN w[i] ELSE w[i] + n]
<1>2. e \in [Files -> Nat]
  OBVIOUS
<1>3. u \in [0..MaxFile -> Nat] /\ u[0] = 0
  BY <1>0, <1>1 DEF Sums
<1>4. ASSUME NEW g \in 1..MaxFile PROVE u[g] = u[g - 1] + e[g]
  <2>1. w[g] = w[g - 1] + d[g] /\ w[g - 1] \in Nat /\ w[g] \in Nat /\ d[g] \in Nat
    BY <1>0, <1>1 DEF Sums, Files
  <2>2. e[g] = IF g = f THEN d[g] + n ELSE d[g]
    BY DEF Files
  <2>3. u[g] = IF g < f THEN w[g] ELSE w[g] + n
    OBVIOUS
  <2>4. u[g - 1] = IF g - 1 < f THEN w[g - 1] ELSE w[g - 1] + n
    BY <1>0
  <2> HIDE DEF e, u
  <2>5. CASE g < f
    BY <2>1, <2>2, <2>3, <2>4, <2>5, <1>0
  <2>6. CASE g = f
    BY <2>1, <2>2, <2>3, <2>4, <2>6, <1>0
  <2>7. CASE g > f
    BY <2>1, <2>2, <2>3, <2>4, <2>7, <1>0
  <2> QED
    BY <2>5, <2>6, <2>7, <1>0
<1>5. u[MaxFile] = w[MaxFile] + n
  BY <1>0
<1> HIDE DEF u, e
<1>6. Sums(u, e, MaxFile)
  BY <1>3, <1>4 DEF Sums
<1>7. Written(e) = u[MaxFile] /\ Written(d) = w[MaxFile]
  BY <1>1, <1>2, <1>6, WrittenIs
<1> QED
  BY <1>2, <1>5, <1>7 DEF e

(* Nothing is written at the start.                                        *)
LEMMA WrittenNone == Written([f \in Files |-> 0]) = 0
<1>1. Sums([i \in 0..MaxFile |-> 0], [f \in Files |-> 0], MaxFile)
  BY SyncPipeAssumption DEF Sums, Files
<1> QED
  BY <1>1, WrittenIs, SyncPipeAssumption

(***************************************************************************)
(* dumpcap.                                                                *)
(***************************************************************************)
(* Where it is, it has the file and the packets that belong there: nothing *)
(* is left in the stream's buffer outside its loop, nor untold when a file *)
(* is named and at the end.                                                *)
ChildInv ==
    /\ child = "open" => file = 0
    /\ child \in {"name", "run", "last", "drops"} => file >= 1
    /\ child = "switch" => file >= 2
    /\ child # "run" => buffered = 0
    /\ child \in {"open", "name", "drops", "bye"} => untold = 0
    /\ child # "dead" => untold <= Written(Out) + buffered
    /\ Written(Out) + buffered <= setup.packets

ChildState == <<child, file, disk, buffered, lost, untold>>

(* All but dumpcap leave it alone.                                         *)
LEMMA OthersSilent ==
    ASSUME Next, ~ChildNext
    PROVE  UNCHANGED <<setup, ChildState>>
<1>1. CASE LoopNext
  BY <1>1 DEF LoopNext, PipeMessage, PipeEnd, ChildReaped, TerminateTimeout, InfoSpin, ExtcapReaped, ExtcapOutputEnds,
              Silent, ChildState, childVars
<1>2. CASE \E e \in Extcaps : ExtcapOpens(e) \/ ExtcapExits(e)
  BY <1>2 DEF ExtcapOpens, ExtcapExits, ChildState, childVars
<1>3. CASE UserStops \/ UserSwitches \/ Over
  BY <1>3 DEF UserStops, UserSwitches, Over, vars, Silent, ChildState, childVars
<1> QED
  BY <1>1, <1>2, <1>3 DEF Next

(* And dumpcap leaves everyone else alone.                                 *)
LEMMA ChildSetup == ASSUME ChildNext PROVE UNCHANGED <<setup, extcapVars, loop, watching, fork, downVars, uiVars>>
BY DEF ChildNext, ChildOpen, ChildOpenFails, ChildWrite, ChildTell, ChildSwitch, TellOldFile, NameFile, ChildStop,
       TellLast, TellDrops, ChildExit, ChildCrash, ReaderLogs, Rest, ElseUnchanged

(* The packets on disk only grow, and so do those that are lost.           *)
DiskGrows == \A f \in Files : disk[f] <= disk'[f] /\ lost[f] <= lost'[f]

(* What has left the buffer, when neither changes and at the start.        *)
LEMMA OutSame == ASSUME UNCHANGED <<disk, lost>> PROVE Out' = Out
BY DEF Out

LEMMA OutIs ==
    ASSUME Typing
    PROVE  /\ Out \in [Files -> Nat] /\ Written(Out) \in Nat
           /\ \A f \in Files : Out[f] = disk[f] + lost[f] /\ Out[f] \in Nat /\ disk[f] \in Nat /\ lost[f] \in Nat
<1>1. ASSUME NEW f \in Files PROVE disk[f] \in Nat /\ lost[f] \in Nat /\ disk[f] + lost[f] \in Nat
  <2>1. disk[f] \in 0..MaxCount /\ lost[f] \in 0..MaxCount /\ MaxCount \in Nat
    BY SyncPipeAssumption DEF Typing, ChildType
  <2> QED
    BY <2>1
<1>2. Out \in [Files -> Nat] /\ \A f \in Files : Out[f] = disk[f] + lost[f]
  BY <1>1 DEF Out
<1> QED
  BY <1>1, <1>2, WrittenBounds

(* More on the disk and more lost is more out of the buffer.               *)
LEMMA OutGrows ==
    ASSUME Typing, ChildType', DiskGrows
    PROVE  \A f \in Files : Out[f] <= Out'[f] /\ Out'[f] \in Nat
<1> SUFFICES ASSUME NEW f \in Files PROVE Out[f] <= Out'[f] /\ Out'[f] \in Nat
  OBVIOUS
<1>1. Out[f] = disk[f] + lost[f] /\ disk[f] \in Nat /\ lost[f] \in Nat
  BY OutIs
<1>2. disk'[f] \in 0..MaxCount /\ lost'[f] \in 0..MaxCount /\ MaxCount \in Nat
  BY SyncPipeAssumption DEF ChildType
<1>3. Out'[f] = disk'[f] + lost'[f]
  BY DEF Out
<1> QED
  BY <1>1, <1>2, <1>3 DEF DiskGrows

(* More that leaves the buffer stays within the packets of the capture.    *)
LEMMA OutFits ==
    ASSUME Typing, NEW d \in [Files -> Nat], NEW l \in [Files -> Nat],
           NEW o \in [Files -> Nat], \A f \in Files : o[f] = d[f] + l[f], Written(o) <= setup.packets
    PROVE  d \in [Files -> 0..MaxCount] /\ l \in [Files -> 0..MaxCount]
<1>1. setup.packets \in 0..MaxCount /\ MaxCount \in Nat
  BY SetupFields, SyncPipeAssumption DEF Typing
<1>2. ASSUME NEW f \in Files PROVE d[f] \in 0..MaxCount /\ l[f] \in 0..MaxCount
  <2>1. o[f] <= Written(o) /\ Written(o) \in Nat /\ o[f] = d[f] + l[f] /\ d[f] \in Nat /\ l[f] \in Nat
    BY WrittenBounds
  <2> QED
    BY <1>1, <2>1
<1> QED
  BY <1>2

(* A flush empties the buffer: its packets are on the disk or lost.        *)
LEMMA FlushedIs ==
    ASSUME Typing, ChildInv, file \in Files, NEW n, Flushed(n)
    PROVE  /\ disk' \in [Files -> 0..MaxCount] /\ lost' \in [Files -> 0..MaxCount] /\ DiskGrows
           /\ buffered' = 0 /\ Written(Out') = Written(Out) + buffered
           /\ \A f \in Files : Out'[f] = IF f = file THEN Out[f] + buffered ELSE Out[f]
<1>1. /\ disk \in [Files -> Nat] /\ lost \in [Files -> Nat] /\ buffered \in Nat
      /\ n \in Nat /\ n <= buffered /\ buffered' = 0
  <2>1. disk \in [Files -> 0..MaxCount] /\ lost \in [Files -> 0..MaxCount] /\ buffered \in 0..MaxCount
    BY DEF Typing, ChildType
  <2>2. n \in 0..buffered /\ buffered' = 0
    BY DEF Flushed
  <2> QED
    BY <2>1, <2>2, SyncPipeAssumption
<1>2. PICK k \in Nat : k = buffered - n
  BY <1>1
<1>3. disk' = [disk EXCEPT ![file] = @ + n] /\ lost' = [lost EXCEPT ![file] = @ + k]
  BY <1>2 DEF Flushed
<1>4. disk' \in [Files -> Nat] /\ lost' \in [Files -> Nat]
  BY <1>1, <1>3, WrittenAdd
<1>5. DiskGrows
  BY <1>1, <1>3 DEF DiskGrows
<1>6. \A f \in Files : Out[f] = disk[f] + lost[f] /\ Out'[f] = disk'[f] + lost'[f] /\ Out[f] \in Nat
  BY OutIs DEF Out
<1>7. ASSUME NEW f \in Files PROVE Out'[f] = IF f = file THEN Out[f] + buffered ELSE Out[f]
  BY <1>1, <1>2, <1>3, <1>6
<1>8. Out' = [Out EXCEPT ![file] = @ + buffered]
  <2>1. Out \in [Files -> Nat] /\ Out' = [f \in Files |-> disk'[f] + lost'[f]]
    BY OutIs DEF Out
  <2>2. Out' = [f \in Files |-> Out'[f]]
    BY <2>1
  <2> QED
    BY <1>7, <2>1, <2>2
<1>9. Out' \in [Files -> Nat] /\ Written(Out') = Written(Out) + buffered
  <2>1. PICK b \in Nat : b = buffered
    BY <1>1
  <2>2. Out' = [Out EXCEPT ![file] = @ + b]
    BY <1>8, <2>1
  <2>3. PICK o \in [Files -> Nat], f \in Files : o = Out /\ f = file
    BY OutIs
  <2>4. [o EXCEPT ![f] = @ + b] \in [Files -> Nat] /\ Written([o EXCEPT ![f] = @ + b]) = Written(o) + b
    <3>1. o \in [Files -> Nat] /\ f \in Files /\ b \in Nat
      OBVIOUS
    <3> QED
      BY ONLY <3>1, WrittenAdd
  <2>5. Out' = [o EXCEPT ![f] = @ + b]
    BY <2>2, <2>3
  <2> QED
    BY <2>1, <2>3, <2>4, <2>5
<1>10. Written(Out') <= setup.packets
  BY <1>9 DEF ChildInv
<1> QED
  BY <1>1, <1>4, <1>5, <1>6, <1>7, <1>9, <1>10, OutFits

(* A packet that makes the buffer spill.                                   *)
SpilledTo(n) ==
    /\ disk' \in [Files -> Nat] /\ lost' \in [Files -> Nat] /\ Out' \in [Files -> Nat] /\ DiskGrows
    /\ Written(Out') = Written(Out) + n
    /\ \A f \in Files : Out'[f] = disk'[f] + lost'[f] /\ Out'[f] = IF f = file THEN Out[f] + n ELSE Out[f]

LEMMA SpillIs ==
    ASSUME Typing, file \in Files, NEW n \in Nat, disk' = [disk EXCEPT ![file] = @ + n], lost' = lost
    PROVE  SpilledTo(n)
<1>1. disk \in [Files -> Nat] /\ lost \in [Files -> Nat]
  <2>1. disk \in [Files -> 0..MaxCount] /\ lost \in [Files -> 0..MaxCount]
    BY DEF Typing, ChildType
  <2> QED
    BY <2>1, SyncPipeAssumption
<1>2. disk' \in [Files -> Nat] /\ lost' \in [Files -> Nat] /\ DiskGrows
  BY <1>1, WrittenAdd DEF DiskGrows
<1>3. \A f \in Files : Out[f] = disk[f] + lost[f] /\ Out'[f] = disk'[f] + lost'[f] /\ Out[f] \in Nat
  BY OutIs DEF Out
<1>4. ASSUME NEW f \in Files PROVE Out'[f] = IF f = file THEN Out[f] + n ELSE Out[f]
  BY <1>1, <1>3
<1>5. Out' = [Out EXCEPT ![file] = @ + n]
  <2>1. Out \in [Files -> Nat] /\ Out' = [f \in Files |-> disk'[f] + lost'[f]]
    BY OutIs DEF Out
  <2>2. Out' = [f \in Files |-> Out'[f]]
    BY <2>1
  <2> QED
    BY <1>4, <2>1, <2>2
<1>6. Out' \in [Files -> Nat] /\ Written(Out') = Written(Out) + n
  BY <1>5, OutIs, WrittenAdd
<1> QED
  BY <1>2, <1>3, <1>4, <1>6 DEF SpilledTo

(* dumpcap's own step keeps its part of the invariant.                     *)
LEMMA ChildKeeps ==
    ASSUME Typing, ChildInv, ChildNext
    PROVE  ChildType' /\ ChildInv' /\ DiskGrows
<1> USE SyncPipeAssumption
<1>0. /\ ChildType /\ setup' = setup /\ Files' = Files /\ setup.packets \in 0..MaxCount
      /\ setup.files \in 1..MaxFile
      /\ Written(Out) \in Nat
      /\ \A f \in Files : disk[f] \in Nat /\ lost[f] \in Nat
      /\ UNCHANGED <<disk, lost>> => Out' = Out
  BY ChildSetup, SetupFields, OutIs, OutSame DEF Typing, Files
<1>1. CASE UNCHANGED ChildState
  BY <1>0, <1>1 DEF ChildType, ChildInv, DiskGrows, ChildState
<1>2. CASE ChildOpen
  BY <1>0, <1>2 DEF ChildOpen, Main, ChildType, ChildInv, ChildStates, DiskGrows
<1>3. CASE ChildOpenFails
  BY <1>0, <1>3 DEF ChildOpenFails, Main, ChildType, ChildInv, ChildStates, DiskGrows
<1>4. CASE ChildWrite
  <2>1. file \in Files /\ file >= 1 /\ Written(Out) + (buffered + 1) <= setup.packets
    BY <1>0, <1>4 DEF ChildWrite, Main, ChildInv, ChildType, Files
  <2>2. PICK n \in Nat : n = buffered + 1
    BY <1>0 DEF ChildType
  <2>3. /\ n <= MaxCount /\ untold + 1 \in 0..MaxCount /\ untold + 1 <= Written(Out) + n
        /\ child = "run" /\ child' = child /\ file' = file /\ lost' = lost /\ untold' = untold + 1
    BY <1>0, <1>4, <2>1, <2>2 DEF ChildWrite, Main, ChildInv, ChildType
  <2>4. CASE buffered' = n /\ UNCHANGED disk
    <3>1. Out' = Out
      BY <2>3, <2>4, OutSame
    <3> QED
      BY <1>0, <2>1, <2>2, <2>3, <2>4, <3>1 DEF ChildType, ChildInv, DiskGrows
  <2>5. CASE buffered' = 0 /\ disk' = [disk EXCEPT ![file] = @ + n]
    <3>1. SpilledTo(n)
      BY <2>1, <2>3, <2>5, SpillIs
    <3>2. Written(Out') <= setup.packets
      BY <2>1, <2>2, <3>1 DEF SpilledTo
    <3>3. disk' \in [Files -> 0..MaxCount] /\ lost' \in [Files -> 0..MaxCount]
      <4>1. disk' \in [Files -> Nat] /\ lost' \in [Files -> Nat] /\ \A f \in Files : Out'[f] = disk'[f] + lost'[f]
        BY <3>1 DEF SpilledTo
      <4>2. Out' \in [Files -> Nat]
        BY <3>1 DEF SpilledTo
      <4> QED
        BY <3>2, <4>1, <4>2, OutFits
    <3> QED
      BY <1>0, <2>1, <2>2, <2>3, <2>5, <3>1, <3>2, <3>3 DEF ChildType, ChildInv, SpilledTo
  <2>6. (buffered' = n /\ UNCHANGED disk) \/ (buffered' = 0 /\ disk' = [disk EXCEPT ![file] = @ + n])
    BY <1>4, <2>2 DEF ChildWrite
  <2> QED
    BY <2>4, <2>5, <2>6
<1>5. ASSUME child \in {"run"}, file \in Files, NEW n, Flushed(n),
             child' \in ChildStates, file' \in 0..MaxFile, untold' \in {0, untold}
      PROVE  /\ ChildType' /\ DiskGrows /\ buffered' = 0
             /\ Written(Out') + buffered' <= setup'.packets /\ untold' <= Written(Out') + buffered'
  <2>1. /\ disk' \in [Files -> 0..MaxCount] /\ lost' \in [Files -> 0..MaxCount] /\ DiskGrows
        /\ buffered' = 0 /\ Written(Out') = Written(Out) + buffered
    BY <1>5, FlushedIs
  <2>2. buffered \in Nat
    BY <1>0 DEF ChildType
  <2> QED
    BY <1>0, <1>5, <2>1, <2>2 DEF ChildType, ChildInv
<1>6. child = "run" => file \in Files /\ file >= 1
  BY <1>0 DEF ChildInv, ChildType, Files
<1>7. CASE ChildTell
  BY <1>0, <1>5, <1>6, <1>7 DEF ChildTell, Main, ChildInv, ChildStates, ChildType
<1>8. CASE ChildSwitch
  <2>1. file' \in 0..MaxFile /\ file' >= 2 /\ child' = "switch"
    BY <1>0, <1>6, <1>8 DEF ChildSwitch, Main, Files
  <2> QED
    BY <1>0, <1>5, <1>6, <1>8, <2>1 DEF ChildSwitch, Main, ChildInv, ChildStates
<1>9. CASE TellOldFile
  BY <1>0, <1>9 DEF TellOldFile, Main, ChildType, ChildInv, ChildStates, DiskGrows
<1>10. CASE NameFile
  BY <1>0, <1>10 DEF NameFile, Main, ChildType, ChildInv, ChildStates, DiskGrows
<1>11. CASE ChildStop
  BY <1>0, <1>5, <1>6, <1>11 DEF ChildStop, Main, ChildInv, ChildStates, ChildType
<1>12. CASE TellLast
  BY <1>0, <1>12 DEF TellLast, Main, ChildType, ChildInv, ChildStates, DiskGrows
<1>13. CASE TellDrops
  BY <1>0, <1>13 DEF TellDrops, Main, ChildType, ChildInv, ChildStates, DiskGrows
<1>14. CASE ChildExit
  BY <1>0, <1>14 DEF ChildExit, Main, ChildType, ChildInv, ChildStates, DiskGrows
<1>15. CASE ChildCrash
  BY <1>0, <1>15 DEF ChildCrash, ChildType, ChildInv, ChildStates, DiskGrows
<1>16. ReaderLogs \/ (\E w \in Writers : Rest(w)) => UNCHANGED ChildState
  BY DEF ReaderLogs, Rest, ChildState
<1> QED
  BY <1>1, <1>2, <1>3, <1>4, <1>7, <1>8, <1>9, <1>10, <1>11, <1>12, <1>13, <1>14, <1>15, <1>16 DEF ChildNext

(***************************************************************************)
(* What a step does to the pipe.                                           *)
(***************************************************************************)
Begins(w, m) == watching /\ WriteHeader(w, m)
Drops(w)     == ~watching /\ UNCHANGED <<pipe, skewed>> /\ writing' = [writing EXCEPT ![w] = Idle]

PipeMoves ==
    \/ UNCHANGED pipeVars
    \/ \E w \in Writers : watching /\ WriteRest(w)
    \/ \E w \in Writers : Drops(w)
    \/ \E w \in Writers, m \in Message : Begins(w, m) /\ (OneWriter => w = "main")
    \/ watching /\ ReadBlock

(* A step leaves the pipe alone, or is one of these; and the interface     *)
(* never reads it again once it has stopped to.                            *)
LEMMA PipeTouched ==
    ASSUME Typing, ChildInv, [Next]_vars
    PROVE  PipeMoves /\ (watching' => watching) /\ setup' = setup
<1> USE SessionAssumption
<1>0. /\ file \in 0..MaxFile /\ untold \in 0..MaxCount
      /\ child \in {"switch"} => file - 1 \in 0..MaxFile
  BY SyncPipeAssumption DEF Typing, ChildType, ChildInv
<1>1. \A kind \in Kinds : Msg(kind, 0, 0) \in Message
  BY MessageIs, Zeros
<1>2. Msg("file", file, 0) \in Message /\ Msg("count", file, untold) \in Message
  BY <1>0, MessageIs, Zeros DEF Kinds
<1>3. child = "switch" => Msg("count", file - 1, untold) \in Message
  BY <1>0, MessageIs DEF Kinds
<1>4. ASSUME NEW m \in Message, Send("main", m) PROVE PipeMoves
  BY <1>4 DEF Send, PipeMoves, Begins
<1>5. CASE ChildNext
  <2>1. setup' = setup /\ watching' = watching
    BY <1>5, ChildSetup
  <2>2. PipeMoves
    <3>1. CASE ChildOpen \/ ChildWrite \/ ChildSwitch \/ ChildExit \/ ChildCrash
      BY <3>1 DEF ChildOpen, ChildWrite, ChildSwitch, ChildExit, ChildCrash, PipeMoves
    <3>2. CASE ChildOpenFails
      BY <3>2, <1>1, <1>4 DEF ChildOpenFails, Kinds
    <3>3. CASE ChildTell
      BY <3>3, <1>2, <1>4 DEF ChildTell
    <3>4. CASE TellOldFile
      <4>1. Send("main", Msg("count", file - 1, untold)) \/ UNCHANGED pipeVars
        BY <3>4 DEF TellOldFile
      <4> QED
        BY <3>4, <4>1, <1>3, <1>4 DEF TellOldFile, Main, PipeMoves
    <3>5. CASE NameFile
      BY <3>5, <1>2, <1>4 DEF NameFile
    <3>6. CASE ChildStop
      <4>1. Send("main", Msg("error", 0, 0)) \/ UNCHANGED pipeVars
        BY <3>6 DEF ChildStop
      <4> QED
        BY <4>1, <1>1, <1>4 DEF PipeMoves, Kinds
    <3>7. CASE TellLast
      <4>1. Send("main", Msg("count", file, untold)) \/ UNCHANGED pipeVars
        BY <3>7 DEF TellLast
      <4> QED
        BY <4>1, <1>2, <1>4 DEF PipeMoves
    <3>8. CASE TellDrops
      BY <3>8, <1>1, <1>4 DEF TellDrops, Kinds
    <3>9. CASE ReaderLogs
      <4>1. ~OneWriter /\ Send("reader", Msg("log", 0, 0)) /\ Msg("log", 0, 0) \in Message
        BY <3>9, <1>1 DEF ReaderLogs, OneWriter, Kinds
      <4> QED
        BY <4>1 DEF Send, PipeMoves, Begins
    <3>10. CASE \E w \in Writers : Rest(w)
      BY <3>10 DEF Rest, PipeMoves, Drops
    <3> QED
      BY <1>5, <3>1, <3>2, <3>3, <3>4, <3>5, <3>6, <3>7, <3>8, <3>9, <3>10 DEF ChildNext
  <2> QED
    BY <2>1, <2>2
<1>6. CASE Next /\ ~ChildNext
  <2>1. setup' = setup
    BY <1>6, OthersSilent
  <2>2. CASE PipeMessage
    <3>1. watching /\ ReadBlock
      BY <2>2 DEF PipeMessage
    <3> QED
      BY <2>1, <3>1 DEF PipeMoves, PipeMessage
  <2>3. CASE ~PipeMessage
    <3>1. UNCHANGED pipeVars /\ (watching' => watching)
      <4>0. CASE ChildReaped
        BY <4>0 DEF ChildReaped
      <4>1. CASE PipeEnd
        BY <4>1 DEF PipeEnd
      <4>5. CASE TerminateTimeout
        BY <4>5 DEF TerminateTimeout
      <4>6. CASE InfoSpin
        BY <4>6 DEF InfoSpin
      <4>2. CASE \E e \in Extcaps : ExtcapReaped(e) \/ \E x \in {"stdout", "stderr"} : ExtcapOutputEnds(e, x)
        BY <4>2 DEF ExtcapReaped, ExtcapOutputEnds, CallbackUnchanged
      <4>3. CASE \E e \in Extcaps : ExtcapOpens(e) \/ ExtcapExits(e)
        BY <4>3 DEF ExtcapOpens, ExtcapExits
      <4>4. CASE UserStops \/ UserSwitches \/ Over
        BY <4>4 DEF UserStops, UserSwitches, Over, vars
      <4> QED
        BY <1>6, <2>3, <4>0, <4>1, <4>2, <4>3, <4>4, <4>5, <4>6 DEF Next, LoopNext
    <3> QED
      BY <2>1, <3>1 DEF PipeMoves
  <2> QED
    BY <2>2, <2>3
<1>7. CASE UNCHANGED vars
  BY <1>7 DEF vars, PipeMoves
<1> QED
  BY <1>5, <1>6, <1>7

(* A piece more in the pipe; a block less.                                 *)
LEMMA AppendIs ==
    ASSUME NEW q \in Seq(Pieces), NEW p \in Pieces
    PROVE  /\ Append(q, p) \in Seq(Pieces) /\ Len(Append(q, p)) = Len(q) + 1 /\ Len(q) \in Nat
           /\ Append(q, p)[Len(q) + 1] = p
           /\ \A i \in 1..Len(q) : Append(q, p)[i] = q[i]
BY AppendProperties

(* Without its first k pieces the pipe is what follows them.               *)
LEMMA CutIs ==
    ASSUME NEW q \in Seq(Pieces), NEW k \in Nat, k <= Len(q)
    PROVE  /\ SubSeq(q, k + 1, Len(q)) \in Seq(Pieces) /\ Len(SubSeq(q, k + 1, Len(q))) = Len(q) - k
           /\ \A i \in 1..(Len(q) - k) : SubSeq(q, k + 1, Len(q))[i] = q[i + k]
<1>1. Len(q) \in Nat /\ k + 1 \in Nat
  OBVIOUS
<1>2. CASE k = Len(q)
  BY <1>1, <1>2
<1>3. CASE k < Len(q)
  <2>1. k + 1 \in 1..Len(q) /\ Len(q) \in 1..Len(q)
    BY <1>1, <1>3
  <2> QED
    BY <1>1, <1>3, <2>1
<1> QED
  BY <1>1, <1>2, <1>3

(* What the reader takes begins with the first piece of a message and has  *)
(* as many pieces as it.                                                   *)
LEMMA BlockIs ==
    ASSUME SyncPipeType, ReadBlock
    PROVE  \E k \in {2, 5} :
              /\ k = Parts(Header) /\ k <= Len(pipe) /\ Len(pipe) \in Nat
              /\ pipe[1] \in Pieces /\ pipe[1].part = 1 /\ pipe[1].msg = Header /\ ~skewed
              /\ pipe' \in Seq(Pieces) /\ Len(pipe') = Len(pipe) - k
              /\ \A i \in 1..(Len(pipe) - k) : pipe'[i] = pipe[i + k]
              /\ writing' = writing /\ skewed' = ~Whole
<1>1. PICK k \in {2, 5} : k = Parts(Header)
  BY PartsIs
<1>2. /\ pipe \in Seq(Pieces) /\ pipe # <<>> /\ Len(pipe) >= k /\ Head(pipe) = pipe[1]
      /\ ~skewed /\ Head(pipe).part = 1
      /\ pipe' = SubSeq(pipe, k + 1, Len(pipe)) /\ skewed' = ~Whole /\ UNCHANGED writing
  BY <1>1 DEF ReadBlock, BlockReady, BadHeader, SyncPipeType
<1>3. pipe[1] \in Pieces /\ Len(pipe) \in Nat
  <2>1. 1 \in 1..Len(pipe)
    BY <1>2
  <2> QED
    BY <1>2, <2>1, ElementOfSeq
<1>4. k \in Nat /\ k <= Len(pipe)
  BY <1>2, <1>3
<1> QED
  BY <1>1, <1>2, <1>3, <1>4, CutIs DEF Header

(* A writer may be idle.                                                   *)
LEMMA HandIdle == Idle \in Hands /\ Idle.msg = NoMessage /\ Idle.part = 0
BY DEF Idle, Hands

(* The pipe keeps its type.                                                *)
LEMMA PipeTyped ==
    ASSUME PipeType, PipeMoves
    PROVE  PipeType'
<1> USE SyncPipeAssumption
<1> DEFINE Hand(h) == h \in Hands /\ (h = Idle \/ (h.msg \in Message /\ h.part \in 2..Parts(h.msg)))
<1>0. /\ pipe \in Seq(Pieces) /\ Len(pipe) \in Nat /\ Len(pipe) <= PipeSize /\ skewed \in BOOLEAN
      /\ \A w \in Writers : Hand(writing[w])
      /\ writing \in [Writers -> Hands]
  BY DEF SyncPipeType, PipeType
<1>1. CASE UNCHANGED pipeVars
  BY <1>1 DEF PipeType, SyncPipeType, pipeVars
<1>a. ASSUME NEW w \in Writers, NEW h, Hand(h), writing' = [writing EXCEPT ![w] = h],
             pipe' \in Seq(Pieces), Len(pipe') <= PipeSize, skewed' = skewed
      PROVE  PipeType'
  <2>1. \A v \in Writers : writing'[v] = IF v = w THEN h ELSE writing[v]
    BY <1>0, <1>a
  <2>2. writing' \in [Writers -> Hands]
    BY <1>0, <1>a
  <2>3. \A v \in Writers : Hand(writing'[v])
    BY <1>0, <1>a, <2>1
  <2> QED
    BY <1>0, <1>a, <2>2, <2>3 DEF PipeType, SyncPipeType
<1> HIDE DEF Hand
<1>2. ASSUME NEW w \in Writers, WriteRest(w) PROVE PipeType'
  <2>1. PICK m, i : m = writing[w].msg /\ i = writing[w].part
    OBVIOUS
  <2>2. m \in Message /\ i \in 2..Parts(m) /\ Parts(m) \in {2, 5}
    BY <1>0, <1>2, <2>1, PartsIs DEF WriteRest, Hand
  <2>3. i \in 1..5 /\ Piece(w, m, i) \in Pieces
    BY <2>2, PieceIs
  <2>4. pipe' = Append(pipe, Piece(w, m, i)) /\ Len(pipe) < PipeSize /\ skewed' = skewed
    BY <1>2, <2>1 DEF WriteRest, Room
  <2>5. pipe' \in Seq(Pieces) /\ Len(pipe') <= PipeSize
    BY <1>0, <2>3, <2>4, AppendIs
  <2>6. PICK h : h = IF i = Parts(m) THEN Idle ELSE [writing[w] EXCEPT !.part = i + 1]
    OBVIOUS
  <2>7. writing' = [writing EXCEPT ![w] = h]
    BY <1>2, <1>0, <2>1, <2>6 DEF WriteRest
  <2>8. Hand(h)
    <3>1. CASE i = Parts(m)
      BY <2>6, <3>1, HandIdle DEF Hand
    <3>2. CASE i # Parts(m)
      <4>1. h = [writing[w] EXCEPT !.part = i + 1] /\ writing[w] \in Hands
        BY <1>0, <2>6, <3>2
      <4>2. i + 1 \in 2..Parts(m) /\ i + 1 \in 0..5
        BY <2>2, <3>2
      <4>3. h.msg = m /\ h.part = i + 1 /\ h \in Hands
        BY <4>1, <4>2, <2>1 DEF Hands
      <4> QED
        BY <4>2, <4>3, <2>2 DEF Hand
    <3> QED
      BY <3>1, <3>2
  <2> QED
    BY <1>a, <2>4, <2>5, <2>7, <2>8
<1>3. ASSUME NEW w \in Writers, Drops(w) PROVE PipeType'
  <2>1. Hand(Idle)
    BY HandIdle DEF Hand
  <2> QED
    BY <1>0, <1>3, <1>a, <2>1 DEF Drops
<1>4. ASSUME NEW w \in Writers, NEW m \in Message, Begins(w, m) PROVE PipeType'
  <2>1. PICK h : h = [msg |-> m, part |-> 2]
    OBVIOUS
  <2>2. Hand(h)
    BY <2>1, PartsIs DEF Hand, Hands
  <2>3. pipe' = Append(pipe, Piece(w, m, 1)) /\ Len(pipe) < PipeSize /\ skewed' = skewed /\ writing' = [writing EXCEPT ![w] = h]
    BY <1>4, <2>1 DEF Begins, WriteHeader, Room
  <2>4. Piece(w, m, 1) \in Pieces
    BY PieceIs
  <2>5. pipe' \in Seq(Pieces) /\ Len(pipe') <= PipeSize
    BY <1>0, <2>3, <2>4, AppendIs
  <2> QED
    BY <1>a, <2>2, <2>3, <2>5
<1>5. CASE ReadBlock
  <2>1. PICK k \in {2, 5} : /\ pipe' \in Seq(Pieces) /\ Len(pipe') = Len(pipe) - k /\ writing' = writing
                            /\ skewed' = ~Whole
    BY <1>5, BlockIs DEF PipeType
  <2> QED
    BY <1>0, <2>1 DEF PipeType, SyncPipeType, Hand
<1> QED
  BY <1>1, <1>2, <1>3, <1>4, <1>5 DEF PipeMoves

(***************************************************************************)
(* Framing, with one writer: the pipe holds whole messages, the last of    *)
(* which may lack its end, and that is what the writer writes next.        *)
(***************************************************************************)
After(p)      == IF p.part = Parts(p.msg) THEN Idle ELSE [msg |-> p.msg, part |-> p.part + 1]
Follows(p, r) == IF p.part = Parts(p.msg) THEN r.part = 1 ELSE r.msg = p.msg /\ r.part = p.part + 1

Framed(q, h) ==
    /\ \A i \in 1..Len(q) : q[i].by = "main" /\ q[i].part <= Parts(q[i].msg)
    /\ q # <<>> => q[1].part = 1
    /\ \A i \in 1..(Len(q) - 1) : Follows(q[i], q[i + 1])
    /\ q = <<>> => h = Idle
    /\ q # <<>> => h = After(q[Len(q)])

FrameInv ==
    OneWriter /\ watching =>
        /\ ~skewed
        /\ \A w \in Writers \ {"main"} : writing[w] = Idle
        /\ Framed(pipe, writing["main"])

(* A piece that is next keeps the frame.                                   *)
LEMMA FramedAppend ==
    ASSUME NEW q \in Seq(Pieces), NEW p \in Pieces, NEW h, Framed(q, h),
           p.by = "main", p.part <= Parts(p.msg),
           q = <<>> => p.part = 1, q # <<>> => Follows(q[Len(q)], p)
    PROVE  Framed(Append(q, p), After(p))
<1> DEFINE r == Append(q, p)
<1>1. /\ r \in Seq(Pieces) /\ Len(r) = Len(q) + 1 /\ Len(q) \in Nat /\ r[Len(q) + 1] = p
      /\ \A i \in 1..Len(q) : r[i] = q[i]
  BY AppendIs
<1>2. r # <<>> /\ (q = <<>> <=> Len(q) = 0)
  BY <1>1
<1> HIDE DEF r
<1>3. \A i \in 1..Len(r) : r[i].by = "main" /\ r[i].part <= Parts(r[i].msg)
  <2> TAKE i \in 1..Len(r)
  <2>1. i \in 1..Len(q) \/ i = Len(q) + 1
    BY <1>1
  <2> QED
    BY <2>1, <1>1 DEF Framed
<1>4. r[1].part = 1
  <2>1. CASE q = <<>>
    BY <2>1, <1>1, <1>2
  <2>2. CASE q # <<>>
    <3>1. 1 \in 1..Len(q)
      BY <1>1, <1>2, <2>2
    <3> QED
      BY <2>2, <3>1, <1>1 DEF Framed
  <2> QED
    BY <2>1, <2>2
<1>5. \A i \in 1..(Len(r) - 1) : Follows(r[i], r[i + 1])
  <2> TAKE i \in 1..(Len(r) - 1)
  <2>1. CASE i = Len(q)
    <3>1. q # <<>> /\ i \in 1..Len(q)
      BY <1>1, <1>2, <2>1
    <3> QED
      BY <3>1, <2>1, <1>1
  <2>2. CASE i # Len(q)
    <3>1. i \in 1..(Len(q) - 1) /\ i \in 1..Len(q) /\ i + 1 \in 1..Len(q)
      BY <1>1, <2>2
    <3> QED
      BY <3>1, <1>1 DEF Framed
  <2> QED
    BY <2>1, <2>2
<1> QED
  BY <1>1, <1>2, <1>3, <1>4, <1>5 DEF Framed, r

(* A framed pipe q whose first block has k pieces, the first of message m,  *)
(* and what is left of it, r; and what is then known of the block.          *)
BlockTaken(q, h, k, m, r) ==
    /\ Framed(q, h) /\ k \in {2, 5} /\ q[1].msg = m /\ k = Parts(m) /\ k <= Len(q)
    /\ Len(r) = Len(q) - k /\ \A i \in 1..(Len(q) - k) : r[i] = q[i + k]

BlockIsMessage(q, h, k, m, r) ==
    /\ \A i \in 1..k : q[i] = Piece("main", m, i)
    /\ Framed(r, h)

(* With one writer a block is always a message, and the frame is kept.     *)
LEMMA FramedBlock ==
    ASSUME NEW q \in Seq(Pieces), NEW h, NEW k, NEW m \in Message, NEW r \in Seq(Pieces),
           BlockTaken(q, h, k, m, r)
    PROVE  BlockIsMessage(q, h, k, m, r)
<1>0. /\ Framed(q, h) /\ k \in {2, 5} /\ q[1].msg = m /\ k = Parts(m) /\ k <= Len(q)
      /\ Len(r) = Len(q) - k /\ \A i \in 1..(Len(q) - k) : r[i] = q[i + k]
  BY DEF BlockTaken
<1> USE <1>0
<1>1. Len(q) \in Nat /\ q # <<>> /\ \A i \in 1..Len(q) : q[i] \in Pieces
  BY ElementOfSeq
<1>2. \A i \in 1..Len(q) : q[i].by = "main" /\ q[i] = Piece(q[i].by, q[i].msg, q[i].part)
  BY <1>1, PieceFields DEF Framed
<1>3. q[1].msg = m /\ q[1].part = 1
  BY <1>1 DEF Framed
<1>4. ASSUME NEW i \in 1..4, i < k, q[i].msg = m /\ q[i].part = i PROVE q[i + 1].msg = m /\ q[i + 1].part = i + 1
  <2>1. i \in 1..(Len(q) - 1)
    BY <1>1, <1>4
  <2>2. Follows(q[i], q[i + 1])
    BY <2>1 DEF Framed
  <2> QED
    BY <2>2, <1>4 DEF Follows
<1>5. q[2].msg = m /\ q[2].part = 2
  BY <1>3, <1>4
<1>6. k = 5 => q[3].msg = m /\ q[3].part = 3
  BY <1>5, <1>4
<1>7. k = 5 => q[4].msg = m /\ q[4].part = 4
  BY <1>6, <1>4
<1>8. k = 5 => q[5].msg = m /\ q[5].part = 5
  BY <1>7, <1>4
<1>9. \A i \in 1..k : q[i].msg = m /\ q[i].part = i
  <2>1. CASE k = 2
    <3> TAKE i \in 1..k
    <3>1. i \in {1, 2}
      BY <2>1
    <3> QED
      BY <3>1, <1>3, <1>5
  <2>2. CASE k = 5
    <3> TAKE i \in 1..k
    <3>1. i \in {1, 2, 3, 4, 5}
      BY <2>2
    <3> QED
      BY <2>2, <3>1, <1>3, <1>5, <1>6, <1>7, <1>8
  <2> QED
    BY <1>0, <2>1, <2>2
<1>10. ASSUME NEW i \in 1..k PROVE q[i] = Piece("main", m, i)
  <2>1. i \in 1..Len(q)
    BY <1>1
  <2> QED
    BY <2>1, <1>2, <1>9, SMTT(30)
<1>11. q[k].part = Parts(q[k].msg)
  BY <1>9
<1>12. Framed(r, h)
  <2>1. \A i \in 1..Len(r) : r[i].by = "main" /\ r[i].part <= Parts(r[i].msg)
    <3> TAKE i \in 1..Len(r)
    <3>0. PICK n \in Nat : n = Len(q)
      BY <1>1
    <3>3. i \in 1..(n - k) /\ k <= n
      BY <3>0
    <3>4. i + k \in 1..n
      BY <3>3
    <3>1. i + k \in 1..Len(q) /\ i \in 1..(Len(q) - k)
      BY <3>0, <3>3, <3>4
    <3>2. r[i] = q[i + k]
      BY <3>1
    <3> QED
      BY <3>1, <3>2 DEF Framed
  <2>2. r # <<>> => r[1].part = 1
    <3> SUFFICES ASSUME r # <<>> PROVE r[1].part = 1
      OBVIOUS
    <3>1. 1 \in 1..(Len(q) - k) /\ k \in 1..(Len(q) - 1)
      BY <1>1
    <3>2. r[1] = q[1 + k] /\ Follows(q[k], q[k + 1]) /\ 1 + k = k + 1
      BY <3>1 DEF Framed
    <3> QED
      BY <3>2, <1>11 DEF Follows
  <2>3. \A i \in 1..(Len(r) - 1) : Follows(r[i], r[i + 1])
    <3> TAKE i \in 1..(Len(r) - 1)
    <3>0. PICK n \in Nat : n = Len(q)
      BY <1>1
    <3>1. i + k \in 1..(Len(q) - 1) /\ i \in 1..(Len(q) - k) /\ i + 1 \in 1..(Len(q) - k) /\ (i + 1) + k = (i + k) + 1
      <4>1. i \in 1..((n - k) - 1) /\ k <= n
        BY <3>0
      <4>2. CASE k = 2
        BY <3>0, <4>1, <4>2
      <4>3. CASE k = 5
        BY <3>0, <4>1, <4>3
      <4> QED
        BY <4>2, <4>3
    <3>2. r[i] = q[i + k] /\ r[i + 1] = q[(i + k) + 1]
      BY <3>1
    <3> QED
      BY <3>1, <3>2 DEF Framed
  <2>4. r = <<>> => h = Idle
    <3> SUFFICES ASSUME r = <<>> PROVE h = Idle
      OBVIOUS
    <3>1. k = Len(q)
      BY <1>1
    <3> QED
      BY <3>1, <1>1, <1>11 DEF Framed, After
  <2>5. r # <<>> => h = After(r[Len(r)])
    <3> SUFFICES ASSUME r # <<>> PROVE h = After(r[Len(r)])
      OBVIOUS
    <3>1. Len(r) \in 1..(Len(q) - k) /\ Len(r) + k = Len(q)
      BY <1>1
    <3>2. r[Len(r)] = q[Len(q)]
      BY <3>1
    <3> QED
      BY <3>2, <1>1 DEF Framed
  <2> QED
    BY <2>1, <2>2, <2>3, <2>4, <2>5 DEF Framed
<1> QED
  BY <1>10, <1>12 DEF BlockIsMessage

(* Every step keeps the frame.                                             *)
LEMMA FrameKeeps ==
    ASSUME PipeType, setup \in Setups, FrameInv, PipeMoves, watching' => watching, setup' = setup
    PROVE  FrameInv'
<1> USE SessionAssumption
<1> SUFFICES ASSUME OneWriter', watching'
             PROVE  /\ ~skewed'
                    /\ \A w \in Writers \ {"main"} : writing'[w] = Idle
                    /\ Framed(pipe', writing'["main"])
  BY DEF FrameInv
<1>0. /\ OneWriter /\ watching /\ ~skewed /\ "main" \in Writers
      /\ \A w \in Writers \ {"main"} : writing[w] = Idle
      /\ Framed(pipe, writing["main"])
      /\ pipe \in Seq(Pieces) /\ writing \in [Writers -> Hands]
  BY DEF FrameInv, OneWriter, PipeType, SyncPipeType
<1>1. CASE UNCHANGED pipeVars
  BY <1>0, <1>1 DEF pipeVars
<1>2. ASSUME NEW w \in Writers, WriteRest(w)
      PROVE  /\ ~skewed'
             /\ \A v \in Writers \ {"main"} : writing'[v] = Idle
             /\ Framed(pipe', writing'["main"])
  <2>1. w = "main" /\ pipe # <<>> /\ writing["main"] = After(pipe[Len(pipe)])
    BY <1>0, <1>2 DEF WriteRest, Framed
  <2>2. PICK p \in Pieces : p = pipe[Len(pipe)]
    BY <1>0, <2>1, ElementOfSeq
  <2>3. PICK m, i : m = p.msg /\ i = p.part + 1
    OBVIOUS
  <2>4. p.part # Parts(p.msg) /\ writing["main"] = [msg |-> m, part |-> i]
    BY <1>2, <2>1, <2>2, <2>3 DEF WriteRest, After
  <2>5. m \in Message /\ i \in 2..6 /\ writing["main"].msg = m /\ writing["main"].part = i /\ writing["main"] # Idle
    <3>1. m \in Message /\ i \in 2..6
      BY <2>2, <2>3, PieceFields
    <3>2. writing["main"] # Idle
      BY <1>2, <2>1 DEF WriteRest
    <3> QED
      BY <2>4, <3>1, <3>2
  <2>6. i \in 2..Parts(m) /\ Parts(m) \in {2, 5}
    BY <2>5, PartsIs DEF PipeType, SyncPipeType
  <2>7. PICK r \in Pieces : r = Piece("main", m, i) /\ r.by = "main" /\ r.msg = m /\ r.part = i
    BY <1>0, <2>5, <2>6, PieceIs
  <2>8. pipe' = Append(pipe, r) /\ skewed' = skewed
    BY <1>2, <2>1, <2>5, <2>7 DEF WriteRest
  <2>9. Follows(pipe[Len(pipe)], r)
    BY <2>2, <2>3, <2>4, <2>7 DEF Follows
  <2>10. Framed(pipe', After(r))
    BY <1>0, <2>1, <2>6, <2>7, <2>8, <2>9, FramedAppend
  <2>11. writing' = [writing EXCEPT !["main"] = After(r)]
    <3>1. After(r) = IF i = Parts(m) THEN Idle ELSE [msg |-> m, part |-> i + 1]
      BY <2>7 DEF After
    <3>2. [writing["main"] EXCEPT !.part = i + 1] = [msg |-> m, part |-> i + 1]
      BY <2>4
    <3> QED
      BY <1>2, <2>1, <2>5, <3>1, <3>2 DEF WriteRest
  <2> QED
    BY <1>0, <2>8, <2>10, <2>11
<1>3. ASSUME NEW w \in Writers, NEW m \in Message, Begins(w, m), w = "main"
      PROVE  /\ ~skewed'
             /\ \A v \in Writers \ {"main"} : writing'[v] = Idle
             /\ Framed(pipe', writing'["main"])
  <2>1. PICK r \in Pieces : r = Piece("main", m, 1) /\ r.by = "main" /\ r.msg = m /\ r.part = 1
    BY <1>0, PieceIs
  <2>2. /\ pipe' = Append(pipe, r) /\ skewed' = skewed /\ writing["main"] = Idle
        /\ writing' = [writing EXCEPT !["main"] = [msg |-> m, part |-> 2]]
    BY <1>3, <2>1 DEF Begins, WriteHeader
  <2>3. After(r) = [msg |-> m, part |-> 2]
    BY <2>1, PartsIs DEF After
  <2>4. r.part <= Parts(r.msg)
    BY <2>1, PartsIs
  <2>5. pipe # <<>> => Follows(pipe[Len(pipe)], r)
    <3> SUFFICES ASSUME pipe # <<>> PROVE Follows(pipe[Len(pipe)], r)
      OBVIOUS
    <3>1. After(pipe[Len(pipe)]) = Idle
      BY <1>0, <2>2 DEF Framed
    <3>2. pipe[Len(pipe)] \in Pieces
      BY <1>0, ElementOfSeq
    <3>3. pipe[Len(pipe)].part + 1 # 0
      BY <3>2, PieceFields
    <3>4. pipe[Len(pipe)].part = Parts(pipe[Len(pipe)].msg)
      BY <3>1, <3>3 DEF After, Idle
    <3> QED
      BY <2>1, <3>4 DEF Follows
  <2>6. Framed(pipe', After(r))
    BY <1>0, <2>1, <2>2, <2>4, <2>5, FramedAppend
  <2> QED
    BY <1>0, <2>2, <2>3, <2>6
<1>4. CASE ReadBlock
  <2>1. PICK k \in {2, 5} :
              /\ k = Parts(Header) /\ k <= Len(pipe) /\ pipe[1].msg = Header
              /\ pipe' \in Seq(Pieces) /\ Len(pipe') = Len(pipe) - k
              /\ \A i \in 1..(Len(pipe) - k) : pipe'[i] = pipe[i + k]
              /\ writing' = writing /\ skewed' = ~Whole
    BY <1>4, BlockIs DEF PipeType
  <2>2. PICK m : m = Header
    OBVIOUS
  <2>0. m \in Message
    <3>1. 1 \in 1..Len(pipe)
      BY <1>0, <2>1
    <3> QED
      BY <1>0, <2>1, <2>2, <3>1, ElementOfSeq, PieceFields
  <2>5. PICK r \in Seq(Pieces) : r = pipe'
    BY <2>1
  <2>6. PICK h : h = writing["main"]
    OBVIOUS
  <2>7. BlockTaken(pipe, h, k, m, r)
    BY <1>0, <2>1, <2>2, <2>5, <2>6 DEF BlockTaken
  <2>8. BlockIsMessage(pipe, h, k, m, r)
    BY <1>0, <2>0, <2>5, <2>7, FramedBlock, Zenon
  <2>3. (\A i \in 1..k : pipe[i] = Piece("main", m, i)) /\ Framed(pipe', writing["main"])
    BY <2>5, <2>6, <2>8 DEF BlockIsMessage
  <2>4. Whole
    <3>1. 1 \in 1..k /\ Head(pipe) = pipe[1] /\ pipe[1] = Piece("main", m, 1)
      BY <1>0, <2>1, <2>3, <1>4, SMTT(30) DEF ReadBlock, BlockReady
    <3>2. Head(pipe).by = "main"
      BY <3>1 DEF Piece
    <3> QED
      BY <2>1, <2>2, <2>3, <3>2 DEF Whole
  <2> QED
    BY <1>0, <2>1, <2>3, <2>4
<1> QED
  BY <1>0, <1>1, <1>2, <1>3, <1>4 DEF PipeMoves, Drops

(***************************************************************************)
(* The capture file and the session, an operator at a time.  Valid says    *)
(* that a record is one and that nothing is read that is not there; Kept   *)
(* that the session is as it was.                                          *)
(***************************************************************************)
Reads(s, d) ==
    /\ s.name = 0 => s.read = 0
    /\ s.name # 0 => s.read <= d[s.name]
    /\ s.info # 0 => s.seen <= d[s.info]
    /\ s.seen <= MaxCount
    /\ s.cf = "inprogress" /\ ~s.broken => s.name # 0

Valid(s, d) == s \in UiRecord /\ Reads(s, d)

Kept(s, t) ==
    /\ t.state = s.state /\ t.save = s.save /\ t.pending = s.pending /\ t.count = s.count
    /\ t.info = s.info /\ t.seen = s.seen /\ t.spin = s.spin

(* A field of the record set to a value of its type, the others kept.     *)
LEMMA SetState ==
    ASSUME NEW s \in UiRecord, NEW c \in CapStates
    PROVE  [s EXCEPT !.state = c] \in UiRecord
BY DEF UiRecord

(* The state of the capture file,                                          *)
LEMMA SetCf ==
    ASSUME NEW s \in UiRecord, NEW c \in CfStates
    PROVE  [s EXCEPT !.cf = c] \in UiRecord
BY DEF UiRecord

(* the file that is read,                                                  *)
LEMMA SetName ==
    ASSUME NEW s \in UiRecord, NEW f \in 0..MaxFile
    PROVE  [s EXCEPT !.name = f] \in UiRecord
BY DEF UiRecord

(* the packets in the list,                                                *)
LEMMA SetRead ==
    ASSUME NEW s \in UiRecord, NEW n \in Nat
    PROVE  [s EXCEPT !.read = n] \in UiRecord
BY DEF UiRecord

(* the current file,                                                       *)
LEMMA SetSave ==
    ASSUME NEW s \in UiRecord, NEW f \in 0..MaxFile
    PROVE  [s EXCEPT !.save = f] \in UiRecord
BY DEF UiRecord

(* the packets put off,                                                    *)
LEMMA SetPending ==
    ASSUME NEW s \in UiRecord, NEW n \in Nat
    PROVE  [s EXCEPT !.pending = n] \in UiRecord
BY DEF UiRecord

(* those told of,                                                          *)
LEMMA SetCount ==
    ASSUME NEW s \in UiRecord, NEW n \in Nat
    PROVE  [s EXCEPT !.count = n] \in UiRecord
BY DEF UiRecord

(* the file of the information window,                                     *)
LEMMA SetInfo ==
    ASSUME NEW s \in UiRecord, NEW f \in 0..MaxFile
    PROVE  [s EXCEPT !.info = f] \in UiRecord
BY DEF UiRecord

(* what it has read,                                                       *)
LEMMA SetSeen ==
    ASSUME NEW s \in UiRecord, NEW n \in Nat
    PROVE  [s EXCEPT !.seen = n] \in UiRecord
BY DEF UiRecord

(* what it waits for,                                                      *)
LEMMA SetSpin ==
    ASSUME NEW s \in UiRecord, NEW n \in Nat
    PROVE  [s EXCEPT !.spin = n] \in UiRecord
BY DEF UiRecord

(* and the failure.                                                        *)
LEMMA SetBroken ==
    ASSUME NEW s \in UiRecord, NEW b \in BOOLEAN
    PROVE  [s EXCEPT !.broken = b] \in UiRecord
BY DEF UiRecord

Disk == [Files -> 0..MaxCount]

(* What the disk holds of a file is a number in bounds.                    *)
LEMMA DiskAt ==
    ASSUME NEW d \in Disk, NEW f \in 0..MaxFile, f # 0
    PROVE  f \in Files /\ d[f] \in 0..MaxCount /\ d[f] \in Nat
BY SyncPipeAssumption DEF Disk, Files

(* A check that fails marks the record and leaves the rest.                *)
LEMMA MustIs ==
    ASSUME NEW d, NEW s, Valid(s, d), NEW P \in BOOLEAN
    PROVE  /\ Valid(Must(s, P), d) /\ Kept(s, Must(s, P))
           /\ Must(s, P).cf = s.cf /\ Must(s, P).name = s.name /\ Must(s, P).read = s.read
           /\ Must(s, P).broken = (s.broken \/ ~P)
           /\ P => Must(s, P) = s
BY DEF Must, Break, Valid, Kept, UiRecord, Reads

(* cf_close closes a file that was opened, and must not find it in use.    *)
LEMMA CfCloseIs ==
    ASSUME NEW d, NEW s, Valid(s, d)
    PROVE  /\ Valid(CfClose(s), d) /\ Kept(s, CfClose(s))
           /\ s.cf \in {"closed", "pending"} => CfClose(s) = s
           /\ s.cf \notin {"closed", "pending"} => CfClose(s).cf = "closed" /\ CfClose(s).name = 0 /\ CfClose(s).read = 0
           /\ CfClose(s).broken = (s.broken \/ s.cf = "inprogress")
<1>1. CASE s.cf \in {"closed", "pending"}
  BY <1>1 DEF CfClose, Valid, Kept, UiRecord, Reads
<1>2. CASE s.cf \notin {"closed", "pending"}
  <2>1. PICK ok \in BOOLEAN : ok = (s.cf # "inprogress")
    OBVIOUS
  <2>2. PICK t : t = Must(s, ok)
    OBVIOUS
  <2>3. /\ Valid(t, d) /\ Kept(s, t) /\ t.broken = (s.broken \/ ~ok)
    BY <2>2, MustIs
  <2>4. CfClose(s) = [t EXCEPT !.cf = "closed", !.name = 0, !.read = 0]
    BY <1>2, <2>1, <2>2 DEF CfClose
  <2>5. CfClose(s) \in UiRecord
    <3>1. [t EXCEPT !.cf = "closed"] \in UiRecord
      BY <2>3, SetCf DEF Valid, CfStates
    <3>2. [t EXCEPT !.cf = "closed", !.name = 0] \in UiRecord
      BY <3>1, Zeros, SetName
    <3> QED
      BY <2>4, <3>2, SetRead
  <2> QED
    BY <1>2, <2>1, <2>3, <2>4, <2>5 DEF Valid, Kept, UiRecord, Reads
<1> QED
  BY <1>1, <1>2

(* cf_finish_tail reads what is on the disk.                               *)
LEMMA FinishTailIs ==
    ASSUME NEW d \in Disk, NEW s, Valid(s, d)
    PROVE  /\ Valid(CfFinishTail(s, d), d) /\ Kept(s, CfFinishTail(s, d))
           /\ s.name = 0 \/ s.cf = "aborted" => CfFinishTail(s, d) = CfClose(s)
           /\ s.name # 0 /\ s.cf # "aborted" =>
                 /\ CfFinishTail(s, d).cf = "done" /\ CfFinishTail(s, d).name = s.name
                 /\ CfFinishTail(s, d).read = d[s.name]
                 /\ CfFinishTail(s, d).broken = s.broken
<1>1. CASE s.name = 0 \/ s.cf = "aborted"
  BY <1>1, CfCloseIs DEF CfFinishTail
<1>2. CASE ~(s.name = 0 \/ s.cf = "aborted")
  <2>1. s.name \in Files /\ d[s.name] \in 0..MaxCount /\ d[s.name] \in Nat
    BY <1>2, DiskAt DEF Valid, UiRecord
  <2>2. PICK n \in Nat : n = d[s.name] /\ n <= MaxCount
    BY <2>1, SyncPipeAssumption
  <2>3. CfFinishTail(s, d) = [s EXCEPT !.cf = "done", !.read = n]
    BY <1>2, <2>2 DEF CfFinishTail
  <2>4. CfFinishTail(s, d) \in UiRecord
    <3>1. [s EXCEPT !.cf = "done"] \in UiRecord
      BY SetCf DEF Valid, CfStates
    <3> QED
      BY <2>3, <3>1, SetRead
  <2> QED
    BY <1>2, <2>1, <2>2, <2>3, <2>4, SyncPipeAssumption DEF Valid, Kept, UiRecord, Reads
<1> QED
  BY <1>1, <1>2

(* The file before is closed when the next is named, an aborted one too,   *)
(* and no assertion of cf_close fails.                                     *)
LEMMA FinishedIs ==
    ASSUME NEW d \in Disk, NEW s, Valid(s, d)
    PROVE  /\ Valid(Finished(s, d), d) /\ Kept(s, Finished(s, d))
           /\ Finished(s, d).broken = s.broken
           /\ s.cf \in {"closed", "pending"} => Finished(s, d) = s
           /\ s.save # 0 => Finished(s, d).cf \in {"closed", "pending"}
           /\ s.save # 0 /\ s.cf \notin {"closed", "pending"} => Finished(s, d).cf = "closed" /\ Finished(s, d).name = 0
           /\ s.save = 0 => Finished(s, d) = s
<1>1. CASE ~(s.save # 0 /\ s.cf \notin {"closed", "pending"})
  BY <1>1 DEF Finished, Valid, Kept, UiRecord
<1>2. CASE s.save # 0 /\ s.cf \notin {"closed", "pending"}
  <2>1. PICK t : t = CfFinishTail(s, d)
    OBVIOUS
  <2>2. /\ Valid(t, d) /\ Kept(s, t)
        /\ s.name = 0 \/ s.cf = "aborted" => t = CfClose(s)
        /\ s.name # 0 /\ s.cf # "aborted" => t.cf = "done" /\ t.broken = s.broken
    BY <2>1, FinishTailIs
  <2>3. /\ CfClose(s).cf = "closed" /\ CfClose(s).name = 0 /\ CfClose(s).broken = (s.broken \/ s.cf = "inprogress")
    BY <1>2, CfCloseIs
  <2>4. /\ Valid(CfClose(t), d) /\ Kept(t, CfClose(t))
        /\ t.cf \in {"closed", "pending"} => CfClose(t) = t
        /\ t.cf \notin {"closed", "pending"} => CfClose(t).cf = "closed" /\ CfClose(t).name = 0
        /\ CfClose(t).broken = (t.broken \/ t.cf = "inprogress")
    BY <2>2, CfCloseIs
  <2>5. Finished(s, d) = CfClose(t)
    BY <1>2, <2>1 DEF Finished
  <2>6. Kept(s, CfClose(t))
    BY <2>2, <2>4 DEF Kept
  <2>7. CASE s.name = 0 \/ s.cf = "aborted"
    <3>1. s.broken \in BOOLEAN /\ (s.cf = "inprogress" => s.broken = TRUE)
      BY <2>7 DEF Valid, UiRecord, Reads
    <3>2. CfClose(s).broken = s.broken
      BY <2>3, <3>1
    <3>3. CfClose(t) = t /\ t = CfClose(s)
      BY <2>2, <2>3, <2>4, <2>7
    <3> QED
      BY <1>2, <2>2, <2>3, <2>5, <3>2, <3>3
  <2>8. CASE s.name # 0 /\ s.cf # "aborted"
    BY <1>2, <2>2, <2>3, <2>4, <2>5, <2>6, <2>8 DEF Valid, UiRecord
  <2> QED
    BY <2>7, <2>8
<1> QED
  BY <1>1, <1>2

(* cf_open begins a file with nothing in the list.                         *)
LEMMA CfOpenIs ==
    ASSUME NEW d \in Disk, NEW s, Valid(s, d), NEW f \in 0..MaxFile, f # 0 \/ s.broken
    PROVE  /\ Valid(CfOpen(s, f), d) /\ Kept(s, CfOpen(s, f))
           /\ CfOpen(s, f).cf = "inprogress" /\ CfOpen(s, f).name = f /\ CfOpen(s, f).read = 0
           /\ CfOpen(s, f).broken = (s.broken \/ s.cf = "inprogress")
<1>1. PICK t : t = CfClose(s)
  OBVIOUS
<1>2. Valid(t, d) /\ Kept(s, t) /\ t.broken = (s.broken \/ s.cf = "inprogress")
  BY <1>1, CfCloseIs
<1>3. CfOpen(s, f) = [t EXCEPT !.cf = "inprogress", !.name = f, !.read = 0]
  BY <1>1 DEF CfOpen
<1>4. CfOpen(s, f) \in UiRecord
  <2>1. [t EXCEPT !.cf = "inprogress"] \in UiRecord
    BY <1>2, SetCf DEF Valid, CfStates
  <2>2. [t EXCEPT !.cf = "inprogress", !.name = f] \in UiRecord
    BY <2>1, SetName
  <2> QED
    BY <1>3, <2>2, SetRead
<1>5. f # 0 => d[f] \in Nat
  BY DiskAt
<1> QED
  BY <1>2, <1>3, <1>4, <1>5 DEF Valid, Kept, UiRecord, Reads

(* The lesser of two numbers is one of them and no more than either.       *)
LEMMA LesserIs == ASSUME NEW a \in Nat, NEW b \in Nat
                  PROVE  Lesser(a, b) \in Nat /\ Lesser(a, b) <= a /\ Lesser(a, b) <= b /\ (a <= b => Lesser(a, b) = a)
BY DEF Lesser

(* Of d packets, n more are read than r, or all there are; the window goes *)
(* on waiting for the others.                                              *)
ReadsOn(r, n, d, q)  == q <= r + n /\ (q = r + n \/ q = d)
Waits(r, n, d, q, k) == q + k = r + n /\ (k = 0 \/ q = d)

(* cf_continue_tail reads no more than there is, and all it was asked to.  *)
LEMMA TailIs ==
    ASSUME NEW d \in Disk, NEW s, Valid(s, d), NEW n \in Nat
    PROVE  /\ Valid(CfContinueTail(s, n, d), d) /\ Kept(s, CfContinueTail(s, n, d))
           /\ CfContinueTail(s, n, d).cf = s.cf /\ CfContinueTail(s, n, d).name = s.name
           /\ CfContinueTail(s, n, d).broken = (s.broken \/ s.name = 0)
           /\ s.cf = "inprogress" /\ s.name # 0 => ReadsOn(s.read, n, d[s.name], CfContinueTail(s, n, d).read)
<1>1. CASE s.name = 0
  <2>0. PICK ok \in BOOLEAN : ok = FALSE
    OBVIOUS
  <2>1. CfContinueTail(s, n, d) = Must(s, ok)
    BY <1>1, <2>0 DEF CfContinueTail, Must
  <2> QED
    BY <1>1, <2>0, <2>1, MustIs
<1>2. CASE s.name # 0 /\ s.cf = "aborted"
  BY <1>2 DEF CfContinueTail, Valid, Kept, UiRecord
<1>3. CASE s.name # 0 /\ s.cf # "aborted"
  <2>1. d[s.name] \in Nat /\ s.read \in Nat /\ s.read + n \in Nat
    BY <1>3, DiskAt DEF Valid, UiRecord
  <2>2. PICK m \in Nat : m = Lesser(s.read + n, d[s.name])
    BY <2>1, LesserIs
  <2>3. m <= d[s.name] /\ ReadsOn(s.read, n, d[s.name], m)
    BY <2>1, <2>2 DEF ReadsOn, Lesser
  <2>4. CfContinueTail(s, n, d) = [s EXCEPT !.read = m]
    BY <1>3, <2>2 DEF CfContinueTail
  <2>5. CfContinueTail(s, n, d) \in UiRecord
    BY <2>4, SetRead DEF Valid
  <2> QED
    BY <1>3, <2>3, <2>4, <2>5 DEF Valid, Kept, UiRecord, Reads
<1> QED
  BY <1>1, <1>2, <1>3

(* The information window reads no more than there is.                     *)
LEMMA InfoReadIs ==
    ASSUME NEW d \in Disk, NEW s, Valid(s, d), NEW n \in Nat
    PROVE  /\ Valid(InfoRead(s, n, d), d)
           /\ InfoRead(s, n, d).state = s.state /\ InfoRead(s, n, d).save = s.save
           /\ InfoRead(s, n, d).pending = s.pending /\ InfoRead(s, n, d).count = s.count
           /\ InfoRead(s, n, d).info = s.info /\ InfoRead(s, n, d).cf = s.cf /\ InfoRead(s, n, d).name = s.name
           /\ InfoRead(s, n, d).read = s.read /\ InfoRead(s, n, d).broken = s.broken
           /\ s.info = 0 => InfoRead(s, n, d) = s
           /\ s.info # 0 => Waits(s.seen, n, d[s.info], InfoRead(s, n, d).seen, InfoRead(s, n, d).spin)
<1>1. CASE s.info = 0
  BY <1>1 DEF InfoRead, Valid, UiRecord
<1>2. CASE s.info # 0
  <2>1. d[s.info] \in 0..MaxCount /\ d[s.info] \in Nat /\ s.seen \in Nat /\ s.seen <= d[s.info]
    BY <1>2, DiskAt DEF Valid, UiRecord, Reads
  <2>2. PICK m \in Nat : m = d[s.info] - s.seen
    BY <2>1
  <2>3. PICK got \in Nat : got = Lesser(n, m)
    BY <2>2, LesserIs
  <2>4. got <= n /\ got <= m /\ (n <= m => got = n)
    BY <2>2, <2>3, LesserIs
  <2>5. InfoRead(s, n, d) = [s EXCEPT !.seen = s.seen + got, !.spin = n - got]
    BY <1>2, <2>2, <2>3 DEF InfoRead
  <2>6. PICK e \in Nat : e = s.seen + got
    BY <2>1
  <2>7. PICK k \in Nat : k = n - got
    BY <2>4
  <2>8. InfoRead(s, n, d) = [s EXCEPT !.seen = e, !.spin = k]
    BY <2>5, <2>6, <2>7
  <2>9. InfoRead(s, n, d) \in UiRecord
    <3>1. [s EXCEPT !.seen = e] \in UiRecord
      BY SetSeen DEF Valid
    <3> QED
      BY <2>8, <3>1, SetSpin
  <2>10. e <= d[s.info] /\ e <= MaxCount /\ Waits(s.seen, n, d[s.info], e, k)
    <3>1. got = n \/ got = m
      BY <2>2, <2>3 DEF Lesser
    <3> QED
      BY <2>1, <2>2, <2>4, <2>6, <2>7, <3>1, SyncPipeAssumption DEF Waits
  <2> QED
    BY <1>2, <2>8, <2>9, <2>10 DEF Valid, UiRecord, Reads
<1> QED
  BY <1>1, <1>2

Open2 == [1..2 -> BOOLEAN]

(* What becomes of it when file f is named: b says whether it is read at   *)
(* once, info whether the information window is there.                     *)
FileNamed(s, f, b, info, d, r) ==
    /\ r.ok \in BOOLEAN /\ Valid(r.s, d) /\ r.s.count = s.count /\ r.s.spin = s.spin
    /\ r.ok => /\ r.s.state = "running" /\ r.s.save = f
               /\ info => r.s.info = f /\ r.s.seen = 0
               /\ ~info => r.s.info = s.info /\ r.s.seen = s.seen
               /\ b => r.s.cf = "inprogress" /\ r.s.name = f /\ r.s.read = 0 /\ r.s.pending = s.pending
               /\ ~b => r.s.cf = Finished(Must(s, Active(s)), d).cf /\ r.s.name = Finished(Must(s, Active(s)), d).name
               /\ Active(s) /\ (s.save = 0 => s.cf # "inprogress") => r.s.broken = s.broken
    /\ ~r.ok => /\ r.s.state = s.state
                /\ r.s.cf = "inprogress" /\ s.cf # "inprogress" => r.s.name = f /\ r.s.read = 0
                /\ r.s.cf = "inprogress" /\ s.save # 0 => r.s.name = f /\ r.s.read = 0

(* A new file: the one before is finished, and this is the one that is     *)
(* read or will be.                                                        *)
LEMMA NewFileIs ==
    ASSUME NEW d \in Disk, NEW s, Valid(s, d), NEW f \in Files, NEW b \in BOOLEAN, NEW info \in BOOLEAN,
           NEW o \in Open2, NEW r, r = NewFile(s, f, b, info, o, d)
    PROVE  FileNamed(s, f, b, info, d, r)
<1> USE SyncPipeAssumption DEF FileNamed
<1>0. f \in 0..MaxFile /\ f # 0 /\ f \in Nat
  BY DEF Files
<1>1. PICK ok \in BOOLEAN : ok = Active(s)
  <2>1. Active(s) \in BOOLEAN
    BY DEF Active
  <2> QED
    BY <2>1
<1>2. PICK m : m = Must(s, ok)
  OBVIOUS
<1>3. Valid(m, d) /\ Kept(s, m) /\ m.cf = s.cf /\ m.name = s.name /\ (ok => m = s)
  BY <1>2, MustIs
<1>4. PICK z : z = Finished(m, d)
  OBVIOUS
<1>5. /\ Valid(z, d) /\ Kept(m, z) /\ z.broken = m.broken
      /\ m.cf \in {"closed", "pending"} => z = m
      /\ m.save # 0 => z.cf \in {"closed", "pending"}
      /\ m.save = 0 => z = m
  BY <1>3, <1>4, FinishedIs
<1>a. z.cf = "inprogress" => s.cf = "inprogress" /\ s.save = 0
  BY <1>3, <1>5 DEF Kept
<1>b. z.state = s.state /\ z.count = s.count /\ z.spin = s.spin /\ z.info = s.info /\ z.seen = s.seen /\ z.pending = s.pending
  BY <1>3, <1>5 DEF Kept
<1>6. PICK t : t = [z EXCEPT !.save = f]
  OBVIOUS
<1>7. /\ t \in UiRecord /\ t.save = f /\ t.state = z.state /\ t.cf = z.cf /\ t.name = z.name /\ t.read = z.read
      /\ t.pending = z.pending /\ t.count = z.count /\ t.info = z.info /\ t.seen = z.seen /\ t.spin = z.spin
      /\ t.broken = z.broken
  <2>1. t \in UiRecord
    BY <1>0, <1>5, <1>6, SetSave DEF Valid
  <2> QED
    BY <1>5, <1>6, <2>1 DEF Valid, UiRecord
<1>8. Valid(t, d)
  BY <1>5, <1>7 DEF Valid, Reads
<1>9. PICK u : u = IF b THEN CfOpen(t, f) ELSE [t EXCEPT !.pending = 0]
  OBVIOUS
<1>10. /\ Valid(u, d) /\ u.state = t.state /\ u.save = f /\ u.count = t.count /\ u.info = t.info /\ u.seen = t.seen
       /\ u.spin = t.spin
       /\ b => u.cf = "inprogress" /\ u.name = f /\ u.read = 0 /\ u.pending = t.pending
                 /\ u.broken = (t.broken \/ t.cf = "inprogress")
       /\ ~b => u.cf = t.cf /\ u.name = t.name /\ u.read = t.read /\ u.pending = 0 /\ u.broken = t.broken
  <2>1. CASE b
    BY <1>0, <1>7, <1>8, <1>9, <2>1, CfOpenIs DEF Kept
  <2>2. CASE ~b
    <3>1. u = [t EXCEPT !.pending = 0] /\ u \in UiRecord
      BY <1>7, <1>9, <2>2, SetPending
    <3> QED
      BY <1>7, <1>8, <2>2, <3>1 DEF Valid, UiRecord, Reads
  <2> QED
    BY <2>1, <2>2
<1>11. r = IF b /\ ~o[1] THEN [ok |-> FALSE, s |-> [t EXCEPT !.save = 0]]
           ELSE IF info /\ ~o[2] THEN [ok |-> FALSE, s |-> [u EXCEPT !.info = 0]]
           ELSE [ok |-> TRUE,
                 s  |-> [u EXCEPT !.state = "running", !.info = IF info THEN f ELSE @,
                                  !.seen = IF info THEN 0 ELSE @]]
  BY <1>1, <1>2, <1>4, <1>6, <1>9 DEF NewFile
<1>12. CASE b /\ ~o[1]
  <2>1. r.ok = FALSE /\ r.s = [t EXCEPT !.save = 0]
    BY <1>11, <1>12
  <2>2. r.s \in UiRecord
    BY <1>7, <2>1, Zeros, SetSave
  <2>3. /\ r.s.state = t.state /\ r.s.cf = t.cf /\ r.s.name = t.name /\ r.s.read = t.read /\ r.s.info = t.info
        /\ r.s.seen = t.seen /\ r.s.broken = t.broken /\ r.s.count = t.count /\ r.s.spin = t.spin
    BY <1>7, <2>1 DEF UiRecord
  <2>4. Valid(r.s, d)
    BY <1>8, <2>2, <2>3 DEF Valid, Reads
  <2>5. r.s.cf = "inprogress" => s.cf = "inprogress" /\ s.save = 0
    BY <1>a, <1>7, <2>3
  <2>6. r.s.state = s.state /\ r.s.count = s.count /\ r.s.spin = s.spin
    BY <1>b, <1>7, <2>3
  <2> QED
    BY <2>1, <2>4, <2>5, <2>6
<1>13. CASE ~(b /\ ~o[1]) /\ info /\ ~o[2]
  <2>1. r.ok = FALSE /\ r.s = [u EXCEPT !.info = 0]
    BY <1>11, <1>13
  <2>2. r.s \in UiRecord
    BY <1>10, <2>1, Zeros, SetInfo DEF Valid
  <2>3. /\ r.s.state = u.state /\ r.s.cf = u.cf /\ r.s.name = u.name /\ r.s.read = u.read /\ r.s.info = 0
        /\ r.s.seen = u.seen /\ r.s.broken = u.broken /\ r.s.count = u.count /\ r.s.spin = u.spin
    BY <1>10, <2>1 DEF Valid, UiRecord
  <2>4. Valid(r.s, d)
    BY <1>10, <2>2, <2>3 DEF Valid, Reads
  <2>5. r.s.cf = "inprogress" => (s.cf = "inprogress" /\ s.save = 0) \/ (r.s.name = f /\ r.s.read = 0)
    BY <1>a, <1>7, <1>10, <2>3
  <2>6. r.s.state = s.state /\ r.s.count = s.count /\ r.s.spin = s.spin
    BY <1>b, <1>7, <1>10, <2>3
  <2> QED
    BY <2>1, <2>4, <2>5, <2>6
<1>14. CASE ~(b /\ ~o[1]) /\ ~(info /\ ~o[2])
  <2>1. PICK g \in 0..MaxFile : g = IF info THEN f ELSE u.info
    BY <1>0, <1>10 DEF Valid, UiRecord
  <2>2. PICK n \in Nat : n = IF info THEN 0 ELSE u.seen
    BY <1>10 DEF Valid, UiRecord
  <2>3. r.ok = TRUE /\ r.s = [u EXCEPT !.state = "running", !.info = g, !.seen = n]
    <3>1. r = [ok |-> TRUE, s  |-> [u EXCEPT !.state = "running", !.info = IF info THEN f ELSE @,
                                  !.seen = IF info THEN 0 ELSE @]]
      BY <1>11, <1>14
    <3> QED
      BY <3>1, <2>1, <2>2, <1>10 DEF Valid, UiRecord
  <2>4. r.s \in UiRecord
    <3>1. [u EXCEPT !.state = "running"] \in UiRecord
      BY <1>10, SetState DEF Valid, CapStates
    <3>2. [u EXCEPT !.state = "running", !.info = g] \in UiRecord
      BY <3>1, SetInfo
    <3> QED
      BY <2>3, <3>2, SetSeen
  <2>5. /\ r.s.state = "running" /\ r.s.cf = u.cf /\ r.s.name = u.name /\ r.s.read = u.read /\ r.s.info = g
        /\ r.s.seen = n /\ r.s.broken = u.broken /\ r.s.count = u.count /\ r.s.spin = u.spin /\ r.s.save = u.save
        /\ r.s.pending = u.pending
    BY <1>10, <2>3 DEF Valid, UiRecord
  <2>6. d[f] \in Nat
    BY <1>0, DiskAt
  <2>7. Valid(r.s, d)
    BY <1>10, <2>1, <2>2, <2>4, <2>5, <2>6 DEF Valid, Reads
  <2>8. Active(s) /\ (s.save = 0 => s.cf # "inprogress") => t.broken = s.broken /\ t.cf # "inprogress"
    BY <1>1, <1>3, <1>5, <1>7 DEF Kept
  <2>9. Active(s) /\ (s.save = 0 => s.cf # "inprogress") => u.broken = s.broken
    BY <1>8, <1>10, <2>8 DEF Valid, UiRecord
  <2>10. /\ z = Finished(Must(s, Active(s)), d) /\ u.count = s.count /\ u.spin = s.spin
         /\ u.info = s.info /\ u.seen = s.seen /\ t.pending = s.pending
    BY <1>1, <1>2, <1>3, <1>4, <1>5, <1>7, <1>10 DEF Kept
  <2>11. /\ info => r.s.info = f /\ r.s.seen = 0
         /\ ~info => r.s.info = s.info /\ r.s.seen = s.seen
    BY <2>1, <2>2, <2>5, <2>10
  <2>12. b => r.s.cf = "inprogress" /\ r.s.name = f /\ r.s.read = 0 /\ r.s.pending = s.pending
    BY <1>10, <2>5, <2>10
  <2>13. ~b => r.s.cf = z.cf /\ r.s.name = z.name
    BY <1>7, <1>10, <2>5
  <2>14. Active(s) /\ (s.save = 0 => s.cf # "inprogress") => r.s.broken = s.broken
    BY <2>5, <2>9
  <2>15. r.s.state = "running" /\ r.s.save = f /\ r.s.count = s.count /\ r.s.spin = s.spin
    BY <1>10, <2>5, <2>10
  <2> QED
    BY <2>3, <2>7, <2>10, <2>11, <2>12, <2>13, <2>14, <2>15
<1> QED
  BY <1>12, <1>13, <1>14

(* A file whose opening was put off is opened with its first packets.      *)
LEMMA ReopenIs ==
    ASSUME NEW d \in Disk, NEW s, Valid(s, d), NEW o \in Open2, s.save # 0 \/ s.broken
    PROVE  /\ Valid(Reopen(s, o), d)
           /\ Reopen(s, o).state = s.state /\ Reopen(s, o).pending = s.pending /\ Reopen(s, o).count = s.count
           /\ Reopen(s, o).info = s.info /\ Reopen(s, o).seen = s.seen /\ Reopen(s, o).spin = s.spin
           /\ Reopen(s, o).broken = s.broken
           /\ s.cf # "pending" => Reopen(s, o) = s
           /\ s.cf = "pending" /\ o[1] => /\ Reopen(s, o).cf = "inprogress" /\ Reopen(s, o).name = s.save
                                          /\ Reopen(s, o).read = 0 /\ Reopen(s, o).save = s.save
           /\ s.cf = "pending" /\ ~o[1] => /\ Reopen(s, o).cf = "pending" /\ Reopen(s, o).name = s.name
                                           /\ Reopen(s, o).read = s.read /\ Reopen(s, o).save = 0
<1>1. CASE s.cf # "pending"
  BY <1>1 DEF Reopen
<1>2. CASE s.cf = "pending" /\ o[1]
  <2>1. PICK f \in 0..MaxFile : f = s.save
    BY DEF Valid, UiRecord
  <2>2. Reopen(s, o) = CfOpen(s, f)
    BY <1>2, <2>1 DEF Reopen
  <2>3. /\ Valid(CfOpen(s, f), d) /\ Kept(s, CfOpen(s, f))
        /\ CfOpen(s, f).cf = "inprogress" /\ CfOpen(s, f).name = f /\ CfOpen(s, f).read = 0
        /\ CfOpen(s, f).broken = (s.broken \/ s.cf = "inprogress")
    BY <2>1, CfOpenIs
  <2>4. CfOpen(s, f).broken = s.broken
    BY <1>2, <2>3 DEF Valid, UiRecord
  <2> QED
    BY <1>2, <2>1, <2>2, <2>3, <2>4 DEF Kept
<1>3. CASE s.cf = "pending" /\ ~o[1]
  <2>1. Reopen(s, o) = [s EXCEPT !.save = 0]
    BY <1>3 DEF Reopen
  <2>2. Reopen(s, o) \in UiRecord
    BY <2>1, Zeros, SetSave DEF Valid
  <2> QED
    BY <1>3, <2>1, <2>2 DEF Valid, UiRecord, Reads
<1> QED
  BY <1>1, <1>2, <1>3

(* What becomes of it when n packets are told of in real time.             *)
PacketsNow(s, n, o, d, r) ==
    /\ r.kill \in BOOLEAN /\ Valid(r.s, d) /\ r.s.count = s.count /\ r.s.state = s.state /\ r.s.info = s.info
    /\ r.s.spin # 0 /\ s.spin = 0 => r.s.info # 0
    /\ s.broken => r.s.broken
    /\ r.s.cf # "pending" \/ s.cf = "pending"
    /\ ~(s.cf = "pending" /\ ~o[1]) => r.s.save = s.save
    /\ ~r.s.broken => /\ s.save # 0 /\ r.s.cf = Reopen(s, o).cf
                      /\ r.s.name = Reopen(s, o).name /\ r.s.name # 0
    /\ s.save # 0 /\ s.name = s.save /\ s.cf \in {"inprogress", "aborted"} /\ s.pending = 0 /\ ~s.broken =>
          /\ ~r.s.broken /\ r.s.cf = s.cf /\ r.s.name = s.name /\ r.s.pending = 0
          /\ s.cf = "inprogress" => ReadsOn(s.read, n, d[s.name], r.s.read)
          /\ s.info # 0 => Waits(s.seen, n, d[s.info], r.s.seen, r.s.spin)
          /\ s.info = 0 => r.s.spin = s.spin

(* Packets in real time: the file is opened if need be and read.           *)
LEMMA NewPacketsNow ==
    ASSUME NEW d \in Disk, NEW s, Valid(s, d), NEW n \in Nat, NEW o \in Open2,
           NEW r, r = NewPackets(s, n, TRUE, o, d)
    PROVE  PacketsNow(s, n, o, d, r)
<1> USE DEF PacketsNow
<1> USE SyncPipeAssumption
<1>1. PICK ok \in BOOLEAN : ok = (s.save # 0)
  OBVIOUS
<1>2. PICK t : t = Must(s, ok)
  OBVIOUS
<1>3. /\ Valid(t, d) /\ Kept(s, t) /\ t.cf = s.cf /\ t.name = s.name /\ t.read = s.read
      /\ t.broken = (s.broken \/ ~ok) /\ (ok => t = s)
  BY <1>2, MustIs
<1>4. t.save # 0 \/ t.broken
  BY <1>1, <1>3 DEF Kept
<1>5. PICK u : u = Reopen(t, o)
  OBVIOUS
<1>6. /\ Valid(u, d)
      /\ u.state = t.state /\ u.pending = t.pending /\ u.count = t.count
      /\ u.info = t.info /\ u.seen = t.seen /\ u.spin = t.spin /\ u.broken = t.broken
      /\ t.cf # "pending" => u = t
      /\ t.cf = "pending" /\ o[1] => u.cf = "inprogress" /\ u.name = t.save /\ u.read = 0 /\ u.save = t.save
      /\ t.cf = "pending" /\ ~o[1] => u.cf = "pending" /\ u.name = t.name /\ u.read = t.read /\ u.save = 0
  BY <1>3, <1>4, <1>5, ReopenIs
<1>7. n + u.pending \in Nat
  BY <1>6 DEF Valid, UiRecord
<1>8. PICK all \in Nat : all = n + u.pending
  BY <1>7
<1>9. PICK v : v = [u EXCEPT !.pending = 0]
  OBVIOUS
<1>10. /\ v \in UiRecord /\ v.pending = 0 /\ v.state = u.state /\ v.cf = u.cf /\ v.name = u.name /\ v.read = u.read
       /\ v.save = u.save /\ v.count = u.count /\ v.info = u.info /\ v.seen = u.seen /\ v.spin = u.spin
       /\ v.broken = u.broken
  <2>1. v \in UiRecord
    BY <1>6, <1>9, SetPending DEF Valid
  <2> QED
    BY <1>6, <1>9, <2>1 DEF Valid, UiRecord
<1>11. Valid(v, d)
  BY <1>6, <1>10 DEF Valid, Reads
<1>12. PICK w : w = CfContinueTail(v, all, d)
  OBVIOUS
<1>13. /\ Valid(w, d) /\ Kept(v, w) /\ w.cf = v.cf /\ w.name = v.name /\ w.broken = (v.broken \/ v.name = 0)
       /\ v.cf = "inprogress" /\ v.name # 0 => ReadsOn(v.read, all, d[v.name], w.read)
  BY <1>11, <1>12, TailIs
<1>14. PICK x : x = InfoRead(w, all, d)
  OBVIOUS
<1>15. /\ Valid(x, d) /\ x.state = w.state /\ x.save = w.save /\ x.pending = w.pending /\ x.count = w.count
       /\ x.info = w.info /\ x.cf = w.cf /\ x.name = w.name /\ x.read = w.read /\ x.broken = w.broken
       /\ w.info = 0 => x = w
       /\ w.info # 0 => Waits(w.seen, all, d[w.info], x.seen, x.spin)
  BY <1>13, <1>14, InfoReadIs
<1>16. /\ r.kill = ((s.cf = "pending" /\ ~o[1]) \/ u.cf = "aborted")
       /\ r.s = IF w.broken THEN w ELSE x
  BY <1>1, <1>2, <1>5, <1>8, <1>9, <1>12, <1>14 DEF NewPackets
<1>17. r.kill \in BOOLEAN
  BY <1>16
<1>18. /\ Valid(r.s, d) /\ r.s.state = w.state /\ r.s.save = w.save /\ r.s.count = w.count /\ r.s.info = w.info
       /\ r.s.cf = w.cf /\ r.s.name = w.name /\ r.s.read = w.read /\ r.s.broken = w.broken /\ r.s.pending = w.pending
       /\ w.info = 0 \/ w.broken => r.s.spin = w.spin
       /\ ~w.broken => r.s = x
  BY <1>13, <1>15, <1>16
<1>a. /\ t.state = s.state /\ t.save = s.save /\ t.count = s.count /\ t.info = s.info /\ t.seen = s.seen
      /\ t.spin = s.spin /\ t.cf = s.cf /\ t.broken = (s.broken \/ ~ok)
  BY <1>3 DEF Kept
<1>b. /\ w.state = u.state /\ w.save = u.save /\ w.count = u.count /\ w.info = u.info /\ w.seen = u.seen
      /\ w.spin = u.spin /\ w.cf = u.cf /\ w.pending = 0 /\ w.broken = (u.broken \/ v.name = 0)
  BY <1>10, <1>13 DEF Kept
<1>19. r.s.count = s.count /\ r.s.state = s.state /\ r.s.info = s.info /\ w.spin = s.spin /\ w.seen = s.seen
       /\ r.s.pending = 0
  <2>1. u.count = s.count /\ u.state = s.state /\ u.info = s.info /\ u.spin = s.spin /\ u.seen = s.seen
    BY <1>a, <1>6
  <2> QED
    BY <1>b, <1>18, <2>1
<1>20. r.s.spin # 0 /\ s.spin = 0 => r.s.info # 0
  <2>1. r.s.info = 0 => r.s.spin = s.spin
    BY <1>18, <1>19
  <2>2. r.s.spin \in Nat
    BY <1>18 DEF Valid, UiRecord
  <2> QED
    BY <2>1, <2>2
<1>21. u.broken = (s.broken \/ ~ok) /\ r.s.broken = (u.broken \/ v.name = 0)
  BY <1>a, <1>b, <1>6, <1>18
<1>22. ~(s.cf = "pending" /\ ~o[1]) => r.s.save = s.save
  <2>1. ~(s.cf = "pending" /\ ~o[1]) => u.save = s.save
    BY <1>a, <1>6
  <2> QED
    BY <2>1, <1>b, <1>18
<1>23. ASSUME ~r.s.broken
       PROVE  s.save # 0 /\ r.s.cf = Reopen(s, o).cf /\ r.s.name = Reopen(s, o).name /\ r.s.name # 0
  <2>1. ok /\ t = s
    BY <1>21, <1>23, <1>3
  <2>2. u = Reopen(s, o) /\ r.s.cf = u.cf /\ r.s.name = u.name /\ r.s.name # 0
    BY <2>1, <1>5, <1>10, <1>13, <1>21, <1>23, <1>b, <1>18
  <2> QED
    BY <1>1, <2>1, <2>2
<1>24. r.s.cf # "pending" \/ s.cf = "pending"
  <2>1. u.cf = "pending" => s.cf = "pending"
    BY <1>a, <1>6
  <2> QED
    BY <2>1, <1>b, <1>18
<1>25. ASSUME s.save # 0, s.name = s.save, s.cf \in {"inprogress", "aborted"}, s.pending = 0, ~s.broken
       PROVE  /\ ~r.s.broken /\ r.s.cf = s.cf /\ r.s.name = s.name /\ r.s.pending = 0
              /\ s.cf = "inprogress" => ReadsOn(s.read, n, d[s.name], r.s.read)
              /\ s.info # 0 => Waits(s.seen, n, d[s.info], r.s.seen, r.s.spin)
              /\ s.info = 0 => r.s.spin = s.spin
  <2>1. t = s /\ u = s
    BY <1>1, <1>3, <1>6, <1>25
  <2>2. all = n /\ v.cf = s.cf /\ v.name = s.name /\ v.read = s.read /\ v.broken = s.broken
    BY <1>8, <1>10, <1>25, <2>1
  <2>3. /\ w.cf = s.cf /\ w.name = s.name /\ ~w.broken
        /\ s.cf = "inprogress" => ReadsOn(s.read, n, d[s.name], w.read)
    BY <1>13, <1>25, <2>2
  <2>4. r.s = x /\ w.info = s.info
    BY <1>18, <1>19, <2>3
  <2>5. s.info # 0 => Waits(s.seen, n, d[s.info], r.s.seen, r.s.spin)
    BY <1>15, <1>19, <2>2, <2>4
  <2>6. s.info = 0 => r.s.spin = s.spin
    BY <1>18, <1>19, <2>4
  <2> QED
    BY <1>18, <1>19, <2>3, <2>5, <2>6
<1> QED
  <2>1. s.broken => r.s.broken
    BY <1>21
  <2> QED
    BY <1>17, <1>18, <1>19, <1>20, <1>22, <1>23, <1>24, <1>25, <2>1

(* And when they are shown later.                                          *)
PacketsLater(s, n, o, d, r) ==
    /\ r.kill = FALSE /\ Valid(r.s, d) /\ r.s.count = s.count /\ r.s.state = s.state /\ r.s.info = s.info
    /\ r.s.save = s.save /\ r.s.name = s.name /\ r.s.read = s.read
    /\ r.s.cf = IF s.cf = "closed" THEN "pending" ELSE s.cf
    /\ r.s.broken = (s.broken \/ s.save = 0)
    /\ r.s.spin # 0 /\ s.spin = 0 => r.s.info # 0
    /\ s.info # 0 => Waits(s.seen, n, d[s.info], r.s.seen, r.s.spin)
    /\ s.info = 0 => r.s.spin = s.spin

(* Packets that are not shown in real time: they are counted for later.    *)
LEMMA NewPacketsLater ==
    ASSUME NEW d \in Disk, NEW s, Valid(s, d), NEW n \in Nat, NEW o \in Open2,
           NEW r, r = NewPackets(s, n, FALSE, o, d)
    PROVE  PacketsLater(s, n, o, d, r)
<1> USE DEF PacketsLater
<1> USE SyncPipeAssumption
<1>1. PICK ok \in BOOLEAN : ok = (s.save # 0)
  OBVIOUS
<1>2. PICK t : t = Must(s, ok)
  OBVIOUS
<1>3. /\ Valid(t, d) /\ t.cf = s.cf /\ t.name = s.name /\ t.read = s.read
      /\ t.broken = (s.broken \/ ~ok)
      /\ t.state = s.state /\ t.save = s.save /\ t.count = s.count /\ t.info = s.info /\ t.seen = s.seen
      /\ t.spin = s.spin
  BY <1>2, MustIs DEF Kept
<1>4. PICK c \in CfStates : c = IF t.cf = "closed" THEN "pending" ELSE t.cf
  BY <1>3 DEF Valid, UiRecord, CfStates
<1>5. PICK k \in Nat : k = t.pending + n
  BY <1>3 DEF Valid, UiRecord
<1>6. PICK u : u = [t EXCEPT !.cf = c, !.pending = k]
  OBVIOUS
<1>7. [CfFakeContinueTail(t) EXCEPT !.pending = @ + n] = u
  BY <1>3, <1>4, <1>5, <1>6 DEF CfFakeContinueTail, Valid, UiRecord
<1>8. u \in UiRecord
  <2>1. [t EXCEPT !.cf = c] \in UiRecord
    BY <1>3, SetCf DEF Valid
  <2> QED
    BY <1>6, <2>1, SetPending
<1>9. /\ u.cf = c /\ u.name = t.name /\ u.read = t.read /\ u.broken = t.broken
      /\ u.state = t.state /\ u.save = t.save /\ u.count = t.count /\ u.info = t.info /\ u.seen = t.seen
      /\ u.spin = t.spin
  BY <1>3, <1>6 DEF Valid, UiRecord
<1>10. Valid(u, d)
  BY <1>3, <1>4, <1>8, <1>9 DEF Valid, Reads
<1>11. PICK x : x = InfoRead(u, n, d)
  OBVIOUS
<1>12. /\ Valid(x, d) /\ x.state = u.state /\ x.save = u.save /\ x.count = u.count
       /\ x.info = u.info /\ x.cf = u.cf /\ x.name = u.name /\ x.read = u.read /\ x.broken = u.broken
       /\ u.info = 0 => x = u
       /\ u.info # 0 => Waits(u.seen, n, d[u.info], x.seen, x.spin)
  BY <1>10, <1>11, InfoReadIs
<1>13. r.kill = FALSE /\ r.s = x
  BY <1>1, <1>2, <1>7, <1>11 DEF NewPackets
<1>14. s.info = 0 => x.spin = s.spin
  BY <1>3, <1>9, <1>12
<1>15. s.info # 0 => Waits(s.seen, n, d[s.info], x.seen, x.spin)
  BY <1>3, <1>9, <1>12
<1>16. x.broken = (s.broken \/ s.save = 0)
  BY <1>1, <1>3, <1>9, <1>12
<1>17. x.cf = IF s.cf = "closed" THEN "pending" ELSE s.cf
  BY <1>3, <1>4, <1>9, <1>12
<1>18. /\ x.count = s.count /\ x.state = s.state /\ x.info = s.info
       /\ x.save = s.save /\ x.name = s.name /\ x.read = s.read
  BY <1>3, <1>9, <1>12
<1>19. x.spin # 0 /\ s.spin = 0 => x.info # 0
  BY <1>14, <1>18
<1> QED
  BY <1>12, <1>13, <1>14, <1>15, <1>16, <1>17, <1>18, <1>19

(* A file that was put off is read as a whole, if it can be opened.        *)
LEMMA ReadAllIs ==
    ASSUME NEW d \in Disk, NEW s, Valid(s, d), NEW o \in Open2, s.cf = "pending", s.save # 0
    PROVE  /\ Valid(ReadAll(s, o, d), d) /\ Kept(s, ReadAll(s, o, d))
           /\ ReadAll(s, o, d).broken = s.broken
           /\ o[1] => ReadAll(s, o, d).cf \in {"closed", "done"}
           /\ ~o[1] => ReadAll(s, o, d) = s
<1> USE SyncPipeAssumption
<1>1. CASE ~o[1]
  BY <1>1 DEF ReadAll, Valid, UiRecord, Kept
<1>2. CASE o[1]
  <2>1. PICK f \in 0..MaxFile : f = s.save /\ f # 0
    BY DEF Valid, UiRecord
  <2>2. PICK u : u = CfOpen(s, f)
    OBVIOUS
  <2>3. /\ Valid(u, d) /\ Kept(s, u) /\ u.name = f /\ u.broken = (s.broken \/ s.cf = "inprogress")
    BY <2>1, <2>2, CfOpenIs
  <2>4. PICK n \in Nat : n = d[f] /\ n <= MaxCount
    BY <2>1, DiskAt
  <2>5. PICK t : t = [u EXCEPT !.cf = "done", !.read = n]
    OBVIOUS
  <2>6. t \in UiRecord
    <3>1. [u EXCEPT !.cf = "done"] \in UiRecord
      BY <2>3, SetCf DEF Valid, CfStates
    <3> QED
      BY <2>5, <3>1, SetRead
  <2>7. /\ Kept(u, t) /\ t.cf = "done" /\ t.name = f /\ t.read = n /\ t.broken = u.broken
    BY <2>3, <2>5 DEF Valid, UiRecord, Kept
  <2>8. Valid(t, d)
    BY <2>1, <2>3, <2>4, <2>6, <2>7 DEF Valid, Reads, Kept
  <2>9. u.broken = s.broken
    BY <2>3 DEF Valid, UiRecord
  <2>10. Kept(s, t)
    BY <2>3, <2>7 DEF Kept
  <2>11. ReadAll(s, o, d) = IF t.count = 0 THEN CfClose(t) ELSE t
    BY <1>2, <2>1, <2>2, <2>4, <2>5 DEF ReadAll
  <2>12. CASE t.count = 0
    <3>1. /\ Valid(CfClose(t), d) /\ Kept(t, CfClose(t)) /\ CfClose(t).cf = "closed"
          /\ CfClose(t).broken = (t.broken \/ t.cf = "inprogress")
      BY <2>7, <2>8, CfCloseIs
    <3>2. CfClose(t).broken = s.broken
      BY <2>7, <2>9, <3>1 DEF Valid, UiRecord
    <3>3. Kept(s, CfClose(t))
      BY <2>10, <3>1 DEF Kept
    <3> QED
      BY <1>2, <2>11, <2>12, <3>1, <3>2, <3>3
  <2>13. CASE t.count # 0
    BY <1>2, <2>7, <2>8, <2>9, <2>10, <2>11, <2>13
  <2> QED
    BY <2>12, <2>13
<1> QED
  BY <1>1, <1>2

(* The last look at the file: none is left half read, and no assertion     *)
(* fails.                                                                  *)
LEMMA LastReadIs ==
    ASSUME NEW d \in Disk, NEW s, Valid(s, d), NEW o \in Open2
    PROVE  /\ Valid(LastRead(s, o, d), d) /\ Kept(s, LastRead(s, o, d))
           /\ LastRead(s, o, d).broken = s.broken
           /\ s.state = "preparing" => LastRead(s, o, d) = s
           /\ s.state # "preparing" =>
                 LastRead(s, o, d).cf \in {"closed", "done"} \/ (LastRead(s, o, d) = s /\ s.cf = "pending" /\ (s.save = 0 \/ ~o[1]))
<1>1. CASE s.state = "preparing"
  BY <1>1 DEF LastRead, Valid, UiRecord, Kept
<1>2. CASE s.state # "preparing" /\ s.cf = "inprogress"
  <2>1. PICK t : t = CfFinishTail(s, d)
    OBVIOUS
  <2>2. /\ Valid(t, d) /\ Kept(s, t)
        /\ s.name = 0 \/ s.cf = "aborted" => t = CfClose(s)
        /\ s.name # 0 /\ s.cf # "aborted" => t.cf = "done" /\ t.broken = s.broken
    BY <2>1, FinishTailIs
  <2>3. /\ CfClose(s).cf = "closed" /\ CfClose(s).broken = (s.broken \/ s.cf = "inprogress")
    BY <1>2, CfCloseIs
  <2>4. t.cf \in {"closed", "done"} /\ t.broken = s.broken
    <3>1. CASE s.name = 0
      BY <1>2, <2>2, <2>3, <3>1 DEF Valid, UiRecord, Reads
    <3>2. CASE s.name # 0
      BY <1>2, <2>2, <3>2
    <3> QED
      BY <3>1, <3>2
  <2>5. /\ Valid(CfClose(t), d) /\ Kept(t, CfClose(t))
        /\ t.cf \in {"closed", "pending"} => CfClose(t) = t
        /\ t.cf \notin {"closed", "pending"} => CfClose(t).cf = "closed"
        /\ CfClose(t).broken = (t.broken \/ t.cf = "inprogress")
    BY <2>2, CfCloseIs
  <2>6. LastRead(s, o, d) = IF t.count = 0 THEN CfClose(t) ELSE t
    BY <1>2, <2>1 DEF LastRead
  <2>7. CfClose(t).cf = "closed" /\ CfClose(t).broken = t.broken
    BY <2>2, <2>4, <2>5 DEF Valid, UiRecord
  <2>8. Kept(s, CfClose(t))
    BY <2>2, <2>5 DEF Kept
  <2> QED
    BY <1>2, <2>2, <2>4, <2>5, <2>6, <2>7, <2>8
<1>3. CASE s.state # "preparing" /\ s.cf = "pending"
  <2>1. CASE s.save # 0
    BY <1>3, <2>1, ReadAllIs DEF LastRead
  <2>2. CASE s.save = 0
    BY <1>3, <2>2 DEF LastRead, Valid, UiRecord, Kept
  <2> QED
    BY <2>1, <2>2
<1>4. CASE s.state # "preparing" /\ s.cf \notin {"inprogress", "pending"}
  <2>1. LastRead(s, o, d) = CfClose(s)
    BY <1>4 DEF LastRead
  <2>2. /\ Valid(CfClose(s), d) /\ Kept(s, CfClose(s))
        /\ s.cf \in {"closed", "pending"} => CfClose(s) = s
        /\ s.cf \notin {"closed", "pending"} => CfClose(s).cf = "closed"
        /\ CfClose(s).broken = (s.broken \/ s.cf = "inprogress")
    BY CfCloseIs
  <2>3. CfClose(s).broken = s.broken
    BY <1>4, <2>2 DEF Valid, UiRecord
  <2> QED
    BY <1>4, <2>1, <2>2, <2>3
<1> QED
  BY <1>1, <1>2, <1>3, <1>4

(* The end of the session.                                                 *)
LEMMA ClosedIs ==
    ASSUME NEW d \in Disk, NEW s, Valid(s, d), NEW o \in Open2, NEW r, r = Closed(s, o, d)
    PROVE  /\ Valid(r, d) /\ r.count = s.count /\ r.spin = s.spin
           /\ r.state = "stopped" /\ r.save = 0 /\ r.info = 0
           /\ s.broken => r.broken
           /\ r.cf = "inprogress" => s.cf = "inprogress" /\ r.name = s.name /\ r.read = s.read
           /\ ~s.broken /\ Active(s) /\ (s.state = "preparing" => s.cf = "closed") =>
                 /\ ~r.broken
                 /\ r.cf \in {"closed", "done"} \/ (r.cf = "pending" /\ s.cf = "pending" /\ (s.save = 0 \/ ~o[1]))
<1>1. PICK ok \in BOOLEAN : ok = Active(s)
  <2>1. Active(s) \in BOOLEAN
    BY DEF Active
  <2> QED
    BY <2>1
<1>2. PICK m : m = Must(s, ok)
  OBVIOUS
<1>3. /\ Valid(m, d) /\ m.cf = s.cf /\ m.name = s.name /\ m.read = s.read /\ m.state = s.state /\ m.save = s.save
      /\ m.count = s.count /\ m.spin = s.spin /\ m.broken = (s.broken \/ ~ok)
  BY <1>2, MustIs DEF Kept
<1>4. PICK l : l = LastRead(m, o, d)
  OBVIOUS
<1>5. /\ Valid(l, d) /\ l.state = m.state /\ l.save = m.save /\ l.count = m.count /\ l.spin = m.spin
      /\ l.broken = m.broken
      /\ m.state = "preparing" => l = m
      /\ m.state # "preparing" =>
            l.cf \in {"closed", "done"} \/ (l = m /\ m.cf = "pending" /\ (m.save = 0 \/ ~o[1]))
  BY <1>3, <1>4, LastReadIs DEF Kept
<1>6. PICK t : t = [l EXCEPT !.info = 0, !.state = "stopped"]
  OBVIOUS
<1>7. t \in UiRecord
  <2>1. [l EXCEPT !.info = 0] \in UiRecord
    BY <1>5, Zeros, SetInfo DEF Valid
  <2> QED
    BY <1>6, <2>1, SetState DEF CapStates
<1>8. /\ t.info = 0 /\ t.state = "stopped" /\ t.cf = l.cf /\ t.name = l.name /\ t.read = l.read /\ t.save = l.save
      /\ t.count = l.count /\ t.spin = l.spin /\ t.seen = l.seen /\ t.broken = l.broken
  BY <1>5, <1>6 DEF Valid, UiRecord
<1>9. Valid(t, d)
  BY <1>5, <1>7, <1>8 DEF Valid, Reads
<1>10. r = IF t.save = 0 THEN CfClose(t) ELSE [t EXCEPT !.save = 0]
  BY <1>1, <1>2, <1>4, <1>6 DEF Closed
<1>11. /\ Valid(r, d) /\ r.count = t.count /\ r.spin = t.spin /\ r.state = t.state /\ r.info = t.info /\ r.save = 0
       /\ (r.cf = t.cf /\ r.name = t.name /\ r.read = t.read) \/ r.cf = "closed"
       /\ r.broken = (t.broken \/ (t.save = 0 /\ t.cf = "inprogress"))
  <2>1. CASE t.save = 0
    <3>1. /\ Valid(CfClose(t), d) /\ Kept(t, CfClose(t))
          /\ t.cf \in {"closed", "pending"} => CfClose(t) = t
          /\ t.cf \notin {"closed", "pending"} => CfClose(t).cf = "closed"
          /\ CfClose(t).broken = (t.broken \/ t.cf = "inprogress")
      BY <1>9, CfCloseIs
    <3>2. r = CfClose(t)
      BY <1>10, <2>1
    <3>3. (r.cf = t.cf /\ r.name = t.name /\ r.read = t.read) \/ r.cf = "closed"
      BY <3>1, <3>2
    <3> QED
      BY <2>1, <3>1, <3>2, <3>3 DEF Kept
  <2>2. CASE t.save # 0
    <3>1. r = [t EXCEPT !.save = 0] /\ r \in UiRecord
      BY <1>7, <1>10, <2>2, Zeros, SetSave
    <3>2. /\ r.count = t.count /\ r.spin = t.spin /\ r.state = t.state /\ r.info = t.info /\ r.save = 0
          /\ r.cf = t.cf /\ r.name = t.name /\ r.read = t.read /\ r.seen = t.seen /\ r.broken = t.broken
          /\ t.broken \in BOOLEAN
      BY <1>7, <3>1 DEF UiRecord
    <3>3. Valid(r, d)
      BY <1>9, <3>1, <3>2 DEF Valid, Reads
    <3> QED
      BY <2>2, <3>2, <3>3
  <2> QED
    BY <2>1, <2>2
<1>12. s.broken => r.broken
  BY <1>3, <1>5, <1>8, <1>11
<1>13. r.cf = "inprogress" => s.cf = "inprogress" /\ r.name = s.name /\ r.read = s.read
  <2>1. l.cf = "inprogress" => l = m
    BY <1>5
  <2> QED
    BY <2>1, <1>3, <1>8, <1>11
<1>14. ASSUME ~s.broken, Active(s), s.state = "preparing" => s.cf = "closed"
       PROVE  /\ ~r.broken
              /\ r.cf \in {"closed", "done"} \/ (r.cf = "pending" /\ s.cf = "pending" /\ (s.save = 0 \/ ~o[1]))
  <2>1. ~m.broken /\ ~l.broken /\ ~t.broken
    BY <1>1, <1>3, <1>5, <1>8, <1>14
  <2>2. l.cf \in {"closed", "done"} \/ (l.cf = "pending" /\ s.cf = "pending" /\ (s.save = 0 \/ ~o[1]))
    BY <1>3, <1>5, <1>14
  <2>3. t.cf # "inprogress" /\ ~r.broken
    BY <2>1, <2>2, <1>8, <1>11
  <2>4. r.cf = l.cf \/ r.cf = "closed"
    BY <1>8, <1>11
  <2> QED
    BY <2>2, <2>3, <2>4
<1>15. r.count = s.count /\ r.spin = s.spin /\ r.state = "stopped" /\ r.info = 0
  BY <1>3, <1>5, <1>8, <1>11
<1> QED
  BY <1>11, <1>12, <1>13, <1>14, <1>15

(* A file that is not wanted any more.                                     *)
LEMMA DiscardIs ==
    ASSUME NEW d, NEW s, Valid(s, d)
    PROVE  /\ Valid(Discard(s), d) /\ Kept(s, Discard(s)) /\ Discard(s).cf = "aborted"
           /\ Discard(s).name = s.name /\ Discard(s).read = s.read /\ Discard(s).broken = s.broken
<1>1. Discard(s) = [s EXCEPT !.cf = "aborted"] /\ Discard(s) \in UiRecord
  BY SetCf DEF Discard, Valid, CfStates
<1> QED
  BY <1>1 DEF Valid, Reads, Kept, UiRecord

(***************************************************************************)
(* What the interface will have been told of, in all (0) and of each file, *)
(* when it has read the first i pieces of the pipe.                        *)
(***************************************************************************)
IsHeader(p, kind) == p.part = 1 /\ p.msg.kind = kind

Totals == [0..MaxFile -> Nat]

Told(p, f) == IF IsHeader(p, "count") /\ (f = 0 \/ p.msg.file = f) THEN p.msg.n ELSE 0

Ledger(g, q, t) ==
    /\ g \in [0..Len(q) -> Totals]
    /\ g[0] = t
    /\ \A i \in 1..Len(q), f \in 0..MaxFile : g[i][f] = g[i - 1][f] + Told(q[i], f)

(* A piece tells of no less than nothing.                                  *)
LEMMA ToldIs == ASSUME NEW p \in Pieces, NEW f PROVE Told(p, f) \in Nat
<1>1. p.msg.n \in Nat
  BY PieceFields, SyncPipeAssumption
<1> QED
  BY <1>1 DEF Told

(* A piece that is appended adds what it tells of.                         *)
LEMMA LedgerAppend ==
    ASSUME NEW q \in Seq(Pieces), NEW p \in Pieces, NEW t, NEW g, Ledger(g, q, t)
    PROVE  \E h : /\ Ledger(h, Append(q, p), t)
                  /\ \A f \in 0..MaxFile : h[Len(Append(q, p))][f] = g[Len(q)][f] + Told(p, f)
<1> DEFINE r == Append(q, p)
<1>1. /\ Len(r) = Len(q) + 1 /\ Len(q) \in Nat /\ r[Len(q) + 1] = p
      /\ \A i \in 1..Len(q) : r[i] = q[i]
  BY AppendIs
<1> HIDE DEF r
<1>2. PICK n \in Nat : n = Len(q)
  BY <1>1
<1>3. PICK v : v = [f \in 0..MaxFile |-> g[n][f] + Told(p, f)]
  OBVIOUS
<1>4. g[n] \in Totals
  BY <1>2 DEF Ledger
<1>5. v \in Totals
  <2>1. ASSUME NEW f \in 0..MaxFile PROVE g[n][f] + Told(p, f) \in Nat
    <3>1. g[n][f] \in Nat
      BY <1>4 DEF Totals
    <3>2. Told(p, f) \in Nat
      BY ToldIs
    <3> QED
      BY <3>1, <3>2
  <2> QED
    BY <1>3, <2>1 DEF Totals
<1>6. PICK h : h = [i \in 0..(n + 1) |-> IF i <= n THEN g[i] ELSE v]
  OBVIOUS
<1>7. h \in [0..(n + 1) -> Totals]
  BY <1>2, <1>5, <1>6 DEF Ledger
<1>8. h[0] = t
  BY <1>6 DEF Ledger
<1>9. \A i \in 1..(n + 1), f \in 0..MaxFile : h[i][f] = h[i - 1][f] + Told(r[i], f)
  <2> TAKE i \in 1..(n + 1), f \in 0..MaxFile
  <2>1. CASE i <= n
    <3>1. h[i] = g[i] /\ h[i - 1] = g[i - 1] /\ i \in 1..n
      BY <1>6, <2>1
    <3>2. r[i] = q[i]
      BY <1>1, <1>2, <3>1
    <3> QED
      BY <1>2, <3>1, <3>2 DEF Ledger
  <2>2. CASE i = n + 1
    <3>1. h[i] = v /\ h[i - 1] = g[n] /\ r[i] = p
      BY <1>1, <1>2, <1>6, <2>2
    <3> QED
      BY <1>3, <3>1
  <2> QED
    BY <2>1, <2>2
<1>10. Ledger(h, r, t)
  BY <1>1, <1>2, <1>7, <1>8, <1>9 DEF Ledger
<1>11. h[Len(r)] = v
  BY <1>1, <1>2, <1>6
<1>12. \A f \in 0..MaxFile : h[Len(r)][f] = g[Len(q)][f] + Told(p, f)
  BY <1>2, <1>3, <1>11
<1> QED
  BY <1>10, <1>12 DEF r

(* What is read moves to the account of what was told.                     *)
LEMMA LedgerCut ==
    ASSUME NEW q \in Seq(Pieces), NEW t, NEW g, Ledger(g, q, t), NEW k \in Nat, k <= Len(q),
           NEW r \in Seq(Pieces), Len(r) = Len(q) - k, \A i \in 1..(Len(q) - k) : r[i] = q[i + k]
    PROVE  \E h : Ledger(h, r, g[k]) /\ h[Len(r)] = g[Len(q)]
<1>1. PICK n \in Nat : n = Len(q)
  OBVIOUS
<1>2. PICK m \in Nat : m = n - k /\ m = Len(r) /\ m + k = n
  <2>1. n - k \in Nat /\ n - k = Len(r) /\ (n - k) + k = n
    BY <1>1
  <2> QED
    BY <2>1
<1>3. PICK h : h = [i \in 0..m |-> g[i + k]]
  OBVIOUS
<1>4. \A i \in 0..m : i + k \in 0..n
  BY <1>2
<1>5. h \in [0..m -> Totals]
  BY <1>1, <1>3, <1>4 DEF Ledger
<1>6. h[0] = g[k] /\ h[m] = g[n]
  BY <1>2, <1>3
<1>7. \A i \in 1..m, f \in 0..MaxFile : h[i][f] = h[i - 1][f] + Told(r[i], f)
  <2> TAKE i \in 1..m, f \in 0..MaxFile
  <2>1. i + k \in 1..n /\ i - 1 \in 0..m /\ (i - 1) + k = (i + k) - 1 /\ i \in 0..m
    BY <1>2
  <2>2. h[i] = g[i + k] /\ h[i - 1] = g[(i + k) - 1]
    BY <1>3, <2>1
  <2>3. r[i] = q[i + k]
    BY <1>1, <1>2
  <2> QED
    BY <1>1, <2>1, <2>2, <2>3 DEF Ledger
<1> QED
  BY <1>1, <1>2, <1>5, <1>6, <1>7 DEF Ledger

(* The first k pieces are those of one message: the rest is no header.     *)
OneHeader(q, k) == \A i \in 2..k : q[i].part # 1

(* Of a message only its header tells of packets,                          *)
LEMMA LedgerMessage ==
    ASSUME NEW q \in Seq(Pieces), NEW t, NEW g, Ledger(g, q, t), NEW k \in {2, 5}, k <= Len(q),
           OneHeader(q, k), NEW f \in 0..MaxFile
    PROVE  g[k][f] = t[f] + Told(q[1], f)
<1> USE DEF OneHeader
<1>1. Len(q) \in Nat /\ \A i \in 0..Len(q) : g[i][f] \in Nat
  <2>1. \A i \in 0..Len(q) : g[i] \in Totals
    BY DEF Ledger
  <2>2. \A i \in 0..Len(q) : g[i][f] \in Nat
    BY <2>1 DEF Totals
  <2> QED
    BY <2>2
<1>2. ASSUME NEW i \in 2..5, i <= k PROVE g[i][f] = g[i - 1][f]
  <2>1. i \in 1..Len(q) /\ i \in 2..k /\ i - 1 \in 0..Len(q)
    BY <1>1, <1>2
  <2>2. Told(q[i], f) = 0
    BY <2>1 DEF Told, IsHeader
  <2> QED
    BY <1>1, <2>1, <2>2 DEF Ledger
<1>3. g[1][f] = t[f] + Told(q[1], f)
  <2>1. 1 \in 1..Len(q)
    BY <1>1
  <2> QED
    BY <2>1 DEF Ledger
<1>4. g[2][f] = g[1][f]
  BY <1>2
<1>5. k = 5 => g[5][f] = g[4][f] /\ g[4][f] = g[3][f] /\ g[3][f] = g[2][f]
  BY <1>2
<1> QED
  BY <1>3, <1>4, <1>5

(* and what was told of never gets less.                                   *)
LEMMA LedgerGrows ==
    ASSUME NEW q \in Seq(Pieces), NEW t, NEW g, Ledger(g, q, t), NEW k \in 0..Len(q), NEW f \in 0..MaxFile
    PROVE  g[k][f] \in Nat /\ g[Len(q)][f] \in Nat /\ g[k][f] <= g[Len(q)][f]
<1>1. PICK n \in Nat : n = Len(q)
  OBVIOUS
<1>2. \A i \in 0..n : g[i][f] \in Nat
  BY <1>1 DEF Ledger, Totals
<1>3. ASSUME NEW i \in 1..n PROVE g[i - 1][f] <= g[i][f]
  <2>1. q[i] \in Pieces
    BY <1>1, ElementOfSeq
  <2>2. Told(q[i], f) \in Nat
    BY <2>1, ToldIs
  <2>3. g[i][f] = g[i - 1][f] + Told(q[i], f)
    BY <1>1 DEF Ledger
  <2> QED
    BY <1>2, <2>2, <2>3
<1> DEFINE S == {j \in Nat : k + j <= n => g[k][f] <= g[k + j][f]}
<1>4. 0 \in S
  BY <1>1, <1>2
<1>5. ASSUME NEW j \in Nat, j \in S PROVE j + 1 \in S
  <2> SUFFICES ASSUME k + (j + 1) <= n PROVE g[k][f] <= g[k + (j + 1)][f]
    OBVIOUS
  <2>1. k + (j + 1) \in 1..n /\ (k + (j + 1)) - 1 = k + j /\ k + j \in 0..n /\ k \in 0..n
    BY <1>1
  <2>2. g[k][f] <= g[k + j][f] /\ g[k + j][f] <= g[k + (j + 1)][f]
    BY <1>3, <1>5, <2>1
  <2>3. g[k][f] \in Nat /\ g[k + j][f] \in Nat /\ g[k + (j + 1)][f] \in Nat
    BY <1>2, <2>1, SMTT(30)
  <2> QED
    BY <2>2, <2>3, SMTT(30)
<1> HIDE DEF S
<1>6. n - k \in S
  <2>1. n - k \in Nat
    BY <1>1
  <2> QED
    BY <2>1, <1>4, <1>5, SetInduction
<1> QED
  BY <1>1, <1>2, <1>6 DEF S

(***************************************************************************)
(* Which file is the current one when the first i pieces are read; and     *)
(* that what is said fits: a count is of the current file, a file's number *)
(* is higher, and the drops come after a file.                             *)
(***************************************************************************)
NameAfter(p, n) == IF IsHeader(p, "file") THEN p.msg.file ELSE n

Fits(p, n) ==
    /\ IsHeader(p, "count") => p.msg.file = n
    /\ IsHeader(p, "file") => p.msg.file > n
    /\ IsHeader(p, "drops") => n # 0

Names(g, q, n) ==
    /\ g \in [0..Len(q) -> 0..MaxFile]
    /\ g[0] = n
    /\ \A i \in 1..Len(q) : g[i] = NameAfter(q[i], g[i - 1]) /\ Fits(q[i], g[i - 1])

(* A piece that fits is appended.                                          *)
LEMMA NamesAppend ==
    ASSUME NEW q \in Seq(Pieces), NEW p \in Pieces, NEW n, NEW g, Names(g, q, n), Fits(p, g[Len(q)])
    PROVE  \E h : /\ Names(h, Append(q, p), n)
                  /\ h[Len(Append(q, p))] = NameAfter(p, g[Len(q)])
<1> DEFINE r == Append(q, p)
<1>1. /\ Len(r) = Len(q) + 1 /\ Len(q) \in Nat /\ r[Len(q) + 1] = p
      /\ \A i \in 1..Len(q) : r[i] = q[i]
  BY AppendIs
<1> HIDE DEF r
<1>2. PICK m \in Nat : m = Len(q)
  BY <1>1
<1>3. PICK v : v = NameAfter(p, g[m])
  OBVIOUS
<1>4. v \in 0..MaxFile
  <2>1. g[m] \in 0..MaxFile
    BY <1>2 DEF Names
  <2> QED
    BY <1>3, <2>1, PieceFields DEF NameAfter
<1>5. PICK h : h = [i \in 0..(m + 1) |-> IF i <= m THEN g[i] ELSE v]
  OBVIOUS
<1>6. h \in [0..(m + 1) -> 0..MaxFile]
  BY <1>2, <1>4, <1>5 DEF Names
<1>7. h[0] = n
  BY <1>5 DEF Names
<1>8. \A i \in 1..(m + 1) : h[i] = NameAfter(r[i], h[i - 1]) /\ Fits(r[i], h[i - 1])
  <2> TAKE i \in 1..(m + 1)
  <2>1. CASE i <= m
    <3>1. h[i] = g[i] /\ h[i - 1] = g[i - 1] /\ i \in 1..m
      BY <1>5, <2>1
    <3>2. r[i] = q[i]
      BY <1>1, <1>2, <3>1
    <3> QED
      BY <1>2, <3>1, <3>2 DEF Names
  <2>2. CASE i = m + 1
    <3>1. h[i] = v /\ h[i - 1] = g[m] /\ r[i] = p
      BY <1>1, <1>2, <1>5, <2>2
    <3> QED
      BY <1>2, <1>3, <3>1
  <2> QED
    BY <2>1, <2>2
<1>9. Names(h, r, n)
  BY <1>1, <1>2, <1>6, <1>7, <1>8 DEF Names
<1>10. h[Len(r)] = NameAfter(p, g[Len(q)])
  BY <1>1, <1>2, <1>3, <1>5
<1> QED
  BY <1>9, <1>10 DEF r

(* What is read makes its file the current one.                            *)
LEMMA NamesCut ==
    ASSUME NEW q \in Seq(Pieces), NEW n, NEW g, Names(g, q, n), NEW k \in Nat, k <= Len(q),
           NEW r \in Seq(Pieces), Len(r) = Len(q) - k, \A i \in 1..(Len(q) - k) : r[i] = q[i + k]
    PROVE  \E h : Names(h, r, g[k]) /\ h[Len(r)] = g[Len(q)]
<1>1. PICK l \in Nat : l = Len(q)
  OBVIOUS
<1>2. PICK m \in Nat : m = l - k /\ m = Len(r) /\ m + k = l
  <2>1. l - k \in Nat /\ l - k = Len(r) /\ (l - k) + k = l
    BY <1>1
  <2> QED
    BY <2>1
<1>3. PICK h : h = [i \in 0..m |-> g[i + k]]
  OBVIOUS
<1>4. \A i \in 0..m : i + k \in 0..l
  BY <1>2
<1>5. h \in [0..m -> 0..MaxFile]
  BY <1>1, <1>3, <1>4 DEF Names
<1>6. h[0] = g[k] /\ h[m] = g[l]
  BY <1>2, <1>3
<1>7. \A i \in 1..m : h[i] = NameAfter(r[i], h[i - 1]) /\ Fits(r[i], h[i - 1])
  <2> TAKE i \in 1..m
  <2>1. i + k \in 1..l /\ i - 1 \in 0..m /\ (i - 1) + k = (i + k) - 1 /\ i \in 0..m
    BY <1>2
  <2>2. h[i] = g[i + k] /\ h[i - 1] = g[(i + k) - 1]
    BY <1>3, <2>1
  <2>3. r[i] = q[i + k]
    BY <1>1, <1>2
  <2> QED
    BY <1>1, <2>1, <2>2, <2>3 DEF Names
<1> QED
  BY <1>1, <1>2, <1>5, <1>6, <1>7 DEF Names

(* A file stays the current one up to the next header of a name.           *)
LEMMA NamesSame ==
    ASSUME NEW q \in Seq(Pieces), NEW n, NEW g, Names(g, q, n), NEW j \in 0..Len(q), NEW i \in j..Len(q),
           \A k \in (j + 1)..i : ~IsHeader(q[k], "file")
    PROVE  g[i] = g[j]
<1>1. PICK l \in Nat : l = Len(q)
  OBVIOUS
<1> DEFINE S == {m \in Nat : j + m <= i => g[j + m] = g[j]}
<1>2. 0 \in S
  BY <1>1
<1>3. ASSUME NEW m \in Nat, m \in S PROVE m + 1 \in S
  <2> SUFFICES ASSUME j + (m + 1) <= i PROVE g[j + (m + 1)] = g[j]
    OBVIOUS
  <2>1. j + (m + 1) \in 1..l /\ (j + (m + 1)) - 1 = j + m /\ j + (m + 1) \in (j + 1)..i /\ j + m <= i
    BY <1>1
  <2>2. g[j + (m + 1)] = NameAfter(q[j + (m + 1)], g[j + m])
    BY <1>1, <2>1 DEF Names
  <2>3. g[j + (m + 1)] = g[j + m]
    BY <2>1, <2>2 DEF NameAfter
  <2> QED
    BY <1>3, <2>1, <2>3
<1> HIDE DEF S
<1>4. i - j \in Nat /\ j + (i - j) = i
  BY <1>1
<1>5. i - j \in S
  BY <1>2, <1>3, <1>4, SetInduction
<1> QED
  BY <1>4, <1>5 DEF S

(* Of a message only its header names a file.                              *)
LEMMA NamesMessage ==
    ASSUME NEW q \in Seq(Pieces), NEW n, NEW g, Names(g, q, n), NEW k \in {2, 5}, k <= Len(q),
           OneHeader(q, k)
    PROVE  g[k] = NameAfter(q[1], n) /\ Fits(q[1], n)
<1> USE DEF OneHeader
<1>1. PICK l \in Nat : l = Len(q)
  OBVIOUS
<1>2. PICK m \in Nat : m = k /\ m <= l /\ m >= 2 /\ m \in 1..l /\ 1 \in 0..l
  BY <1>1
<1>3. \A i \in (1 + 1)..m : ~IsHeader(q[i], "file")
  BY <1>2 DEF IsHeader
<1>4. g[m] = g[1]
  BY <1>1, <1>2, <1>3, NamesSame
<1>5. g[1] = NameAfter(q[1], n) /\ Fits(q[1], n)
  <2>1. 1 \in 1..Len(q)
    BY <1>1, <1>2
  <2> QED
    BY <2>1 DEF Names
<1> QED
  BY <1>2, <1>4, <1>5

(* The file that FileBefore finds in the pipe is that file.                *)
LEMMA FileBeforeIs ==
    ASSUME pipe \in Seq(Pieces), NEW g, Names(g, pipe, ui.save), NEW i \in 1..Len(pipe)
    PROVE  FileBefore(i) = g[i - 1]
<1>1. PICK l \in Nat : l = Len(pipe)
  OBVIOUS
<1>2. PICK m \in Nat : m = i - 1 /\ m <= l
  BY <1>1
<1> DEFINE names == {j \in 1..m : pipe[j].part = 1 /\ pipe[j].msg.kind = "file"}
<1>3. CASE names = {}
  <2>1. \A k \in (0 + 1)..m : ~IsHeader(pipe[k], "file")
    BY <1>3 DEF IsHeader
  <2>2. 0 \in 0..Len(pipe) /\ m \in 0..Len(pipe)
    BY <1>1, <1>2
  <2>3. g[m] = g[0]
    BY <2>1, <2>2, NamesSame
  <2>4. FileBefore(i) = ui.save
    BY <1>2, <1>3 DEF FileBefore
  <2> QED
    BY <1>2, <2>3, <2>4 DEF Names
<1>4. CASE names # {}
  <2>1. \E j \in names : \A k \in names : k <= j
    <3>1. names \in SUBSET Nat /\ \A k \in names : k <= m
      OBVIOUS
    <3> HIDE DEF names
    <3> QED
      BY <1>4, <3>1, GreatestOf
  <2>2. PICK j : j = CHOOSE h \in names : \A k \in names : k <= h
    OBVIOUS
  <2>3. j \in names /\ \A k \in names : k <= j
    BY <2>1, <2>2
  <2>4. FileBefore(i) = pipe[j].msg.file
    BY <1>2, <1>4, <2>2 DEF FileBefore
  <2>5. j \in 1..l /\ j \in 0..Len(pipe) /\ m \in j..Len(pipe)
    BY <1>1, <1>2, <2>3
  <2>6. \A k \in (j + 1)..m : ~IsHeader(pipe[k], "file")
    <3> SUFFICES ASSUME NEW k \in (j + 1)..m, IsHeader(pipe[k], "file") PROVE FALSE
      OBVIOUS
    <3>1. k \in 1..m /\ ~(k <= j)
      BY <2>5, <1>2
    <3>2. k \in names
      BY <3>1 DEF IsHeader
    <3> QED
      BY <2>3, <3>1, <3>2
  <2>7. g[m] = g[j]
    BY <2>5, <2>6, NamesSame
  <2>8. g[j] = pipe[j].msg.file
    <3>1. g[j] = NameAfter(pipe[j], g[j - 1])
      BY <1>1, <2>5 DEF Names
    <3> QED
      BY <2>3, <3>1 DEF NameAfter, IsHeader
  <2> QED
    BY <1>2, <2>4, <2>7, <2>8
<1> QED
  BY <1>3, <1>4

(***************************************************************************)
(* What dumpcap may yet tell of, and which file it has named last, when    *)
(* the interface will have been told t and n is its current file.          *)
(***************************************************************************)
CountedFile == IF child = "switch" THEN file - 1 ELSE file

Covered(t) ==
    /\ t[0] <= setup.packets
    /\ \A f \in Files : t[f] <= Out[f]
    /\ child # "dead" => t[0] + untold <= Written(Out) + buffered
    /\ child # "dead" /\ file # 0 => t[CountedFile] + untold <= Out[CountedFile] + buffered

Named(n) == child # "dead" => n = IF child \in {"switch", "name"} THEN file - 1 ELSE file

Keeps ==
    /\ \A t \in Totals : Covered(t) => Covered(t)'
    /\ \A n \in 0..MaxFile : Named(n) => Named(n)'

HasFile(p) == IsHeader(p, "count") \/ IsHeader(p, "file") => p.msg.file \in Files

Says(p) ==
    /\ HasFile(p)
    /\ \A t, u \in Totals : Covered(t) /\ (\A f \in 0..MaxFile : u[f] = t[f] + Told(p, f)) => Covered(u)'
    /\ \A n \in 0..MaxFile : Named(n) => Fits(p, n) /\ Named(NameAfter(p, n))'

(* A piece that is neither a count nor a name changes nothing.             *)
LEMMA SaysNothing ==
    ASSUME Keeps, NEW p \in Pieces, ~IsHeader(p, "count"), ~IsHeader(p, "file"),
           \A n \in 0..MaxFile : Named(n) /\ IsHeader(p, "drops") => n # 0
    PROVE  Says(p)
<1>1. ASSUME NEW t \in Totals, NEW u \in Totals, \A f \in 0..MaxFile : u[f] = t[f] + Told(p, f) PROVE u = t
  <2>1. ASSUME NEW f \in 0..MaxFile PROVE u[f] = t[f]
    <3>1. Told(p, f) = 0 /\ t[f] \in Nat /\ u[f] = t[f] + Told(p, f)
      BY <1>1 DEF Told, Totals
    <3> QED
      BY <3>1
  <2>2. t = [f \in 0..MaxFile |-> t[f]] /\ u = [f \in 0..MaxFile |-> u[f]]
    BY DEF Totals
  <2> QED
    BY <2>1, <2>2, Zenon
<1>2. ASSUME NEW n \in 0..MaxFile, Named(n) PROVE Fits(p, n) /\ Named(NameAfter(p, n))'
  <2>1. NameAfter(p, n) = n /\ Fits(p, n)
    BY <1>2 DEF NameAfter, Fits
  <2> QED
    BY <1>2, <2>1 DEF Keeps
<1>3. ASSUME NEW t \in Totals, NEW u \in Totals, Covered(t), \A f \in 0..MaxFile : u[f] = t[f] + Told(p, f)
      PROVE  Covered(u)'
  <2>1. u = t
    BY <1>1, <1>3
  <2>2. Covered(u)
    BY <1>3, <2>1
  <2> QED
    BY <2>2 DEF Keeps
<1> QED
  BY <1>2, <1>3 DEF Says, HasFile

(* Of a count: the file and the number, its effect on what was told.       *)
LEMMA CountSays ==
    ASSUME NEW w \in Writers, NEW f \in Files, NEW n \in 0..MaxCount
    PROVE  LET p == Piece(w, Msg("count", f, n), 1) IN
             /\ p \in Pieces /\ IsHeader(p, "count") /\ ~IsHeader(p, "file") /\ ~IsHeader(p, "drops")
             /\ p.msg.file = f
             /\ \A g \in 0..MaxFile : Told(p, g) = IF g = 0 \/ g = f THEN n ELSE 0
<1>1. f \in 0..MaxFile /\ 1 \in 1..5 /\ "count" \in Kinds
  BY DEF Files, Kinds
<1>2. PICK m \in Message : m = Msg("count", f, n) /\ m.kind = "count" /\ m.file = f /\ m.n = n
  BY <1>1, MessageIs
<1>3. PICK p \in Pieces : p = Piece(w, m, 1) /\ p.msg = m /\ p.part = 1
  BY <1>1, PieceIs
<1>4. \A g \in 0..MaxFile : Told(p, g) = IF g = 0 \/ g = f THEN n ELSE 0
  BY <1>2, <1>3 DEF Told, IsHeader
<1> QED
  BY <1>2, <1>3, <1>4 DEF IsHeader

(* Other messages.                                                         *)
LEMMA OtherSays ==
    ASSUME NEW w \in Writers, NEW kind \in {"file", "error", "drops", "log"}, NEW f \in 0..MaxFile
    PROVE  LET p == Piece(w, Msg(kind, f, 0), 1) IN
             /\ p \in Pieces /\ ~IsHeader(p, "count") /\ p.msg.file = f
             /\ IsHeader(p, "file") <=> kind = "file"
             /\ IsHeader(p, "drops") <=> kind = "drops"
             /\ \A g : Told(p, g) = 0
<1>1. 1 \in 1..5 /\ kind \in Kinds
  BY DEF Kinds
<1>2. PICK m \in Message : m = Msg(kind, f, 0) /\ m.kind = kind /\ m.file = f
  BY <1>1, Zeros, MessageIs
<1>3. PICK p \in Pieces : p = Piece(w, m, 1) /\ p.msg = m /\ p.part = 1
  BY <1>1, PieceIs
<1>4. ~IsHeader(p, "count") /\ \A g : Told(p, g) = 0
  BY <1>2, <1>3 DEF Told, IsHeader
<1> QED
  BY <1>2, <1>3, <1>4 DEF IsHeader

(* A step of dumpcap writes at most one piece, and with it what it may yet *)
(* tell of stays true.                                                     *)
LEMMA ChildSays ==
    ASSUME Typing, ChildInv, ChildNext, watching
    PROVE  /\ skewed' = skewed
           /\ \/ pipe' = pipe /\ Keeps
              \/ \E p \in Pieces : pipe' = Append(pipe, p) /\ Says(p)
<1> USE SyncPipeAssumption
<1>0. /\ setup' = setup /\ Files' = Files /\ file \in 0..MaxFile /\ untold \in 0..MaxCount
      /\ Out \in [Files -> Nat] /\ \A f \in Files : Out[f] \in Nat
      /\ UNCHANGED <<disk, lost>> => Out' = Out
      /\ Written(Out) \in Nat /\ buffered \in Nat /\ setup.packets \in Nat /\ child \in ChildStates
      /\ \A f \in Files : f \in 0..MaxFile /\ f # 0
  <2>1. UNCHANGED <<disk, lost>> => Out' = Out
    BY OutSame
  <2>2. Out \in [Files -> Nat] /\ Written(Out) \in Nat /\ \A f \in Files : Out[f] \in Nat
    BY OutIs
  <2>3. /\ setup' = setup /\ file \in 0..MaxFile /\ untold \in 0..MaxCount /\ buffered \in Nat
        /\ setup.packets \in Nat /\ child \in ChildStates
    BY ChildSetup, SetupFields DEF Typing, ChildType
  <2>4. Files' = Files /\ \A f \in Files : f \in 0..MaxFile /\ f # 0
    BY DEF Files
  <2> QED
    BY <2>1, <2>2, <2>3, <2>4
<1>1. ASSUME NEW t \in Totals PROVE t[0] \in Nat /\ \A f \in Files : t[f] \in Nat
  BY <1>0 DEF Totals, Files
<1>2. child = "run" => file \in Files /\ file >= 1
  BY <1>0 DEF ChildInv, Files
<1>a. "main" \in Writers /\ "reader" \in Writers
  BY SessionAssumption
<1>b. ASSUME NEW w \in Writers, NEW m, Send(w, m)
      PROVE  pipe' = Append(pipe, Piece(w, m, 1)) /\ skewed' = skewed
  BY <1>b DEF Send, WriteHeader
<1>c. ASSUME NEW kind \in {"file", "error", "drops", "log"}, NEW w \in Writers, Send(w, Msg(kind, 0, 0)), Keeps,
             kind # "file", kind = "drops" => \A n \in 0..MaxFile : Named(n) => n # 0
      PROVE  skewed' = skewed /\ \E p \in Pieces : pipe' = Append(pipe, p) /\ Says(p)
  <2>1. PICK p : p = Piece(w, Msg(kind, 0, 0), 1)
    OBVIOUS
  <2>2. p \in Pieces /\ ~IsHeader(p, "count") /\ ~IsHeader(p, "file") /\ (IsHeader(p, "drops") <=> kind = "drops")
    BY <1>c, <2>1, Zeros, OtherSays
  <2>3. Says(p)
    BY <1>c, <2>2, SaysNothing
  <2> QED
    BY <1>b, <1>c, <2>1, <2>2, <2>3
<1>3. CASE ChildOpen
  <2>1. Keeps
    <3>1. file' \in Files /\ file' = 1 /\ child' = "name" /\ untold = 0 /\ buffered = 0 /\ UNCHANGED <<disk, buffered, lost, untold>>
      BY <1>0, <1>3 DEF ChildOpen, Main, ChildInv, Files
    <3> QED
      BY <1>0, <1>1, <1>3, <3>1 DEF ChildOpen, Main, Keeps, Covered, Named, CountedFile, ChildInv
  <2> QED
    BY <1>3, <2>1 DEF ChildOpen, pipeVars
<1>4. CASE ChildOpenFails
  <2>1. Keeps
    BY <1>0, <1>1, <1>4 DEF ChildOpenFails, Main, Keeps, Covered, Named, CountedFile, ChildInv
  <2> QED
    BY <1>a, <1>c, <1>4, <2>1 DEF ChildOpenFails
<1>5. CASE ChildWrite
  <2>1. PICK n \in Nat : n = buffered + 1
    BY <1>0
  <2>2. /\ child = "run" /\ UNCHANGED <<child, file>> /\ untold' = untold + 1 /\ file \in Files /\ pipe' = pipe /\ skewed' = skewed
        /\ lost' = lost
        /\ \/ buffered' = n /\ disk' = disk
           \/ buffered' = 0 /\ disk' = [disk EXCEPT ![file] = @ + n]
    BY <1>2, <1>5, <2>1 DEF ChildWrite, Main, pipeVars
  <2>3. CASE buffered' = n /\ disk' = disk
    <3>1. Keeps
      BY <1>0, <1>1, <2>1, <2>2, <2>3 DEF Keeps, Covered, Named, CountedFile
    <3> QED
      BY <2>2, <3>1
  <2>4. CASE buffered' = 0 /\ disk' = [disk EXCEPT ![file] = @ + n]
    <3>1. SpilledTo(n)
      BY <2>2, <2>4, SpillIs
    <3>2. /\ Written(Out') = Written(Out) + n
          /\ \A f \in Files : Out'[f] = IF f = file THEN Out[f] + n ELSE Out[f]
      BY <3>1 DEF SpilledTo
    <3>3. Keeps
      BY <1>0, <1>1, <2>1, <2>2, <2>4, <3>2 DEF Keeps, Covered, Named, CountedFile
    <3> QED
      BY <2>2, <3>3
  <2> QED
    BY <2>2, <2>3, <2>4
<1>d. ASSUME child = "run", NEW k, Flushed(k), file \in Files
      PROVE  /\ buffered' = 0 /\ Written(Out') = Written(Out) + buffered
             /\ \A f \in Files : Out'[f] = IF f = file THEN Out[f] + buffered ELSE Out[f]
  BY <1>d, FlushedIs
<1>e. ASSUME NEW f \in Files, NEW w \in Writers, Send(w, Msg("count", f, untold)),
             \A n \in 0..MaxFile : Named(n) => n = f /\ Named(n)',
             \A t \in Totals, u \in Totals :
                Covered(t) /\ (\A g \in 0..MaxFile : u[g] = t[g] + (IF g = 0 \/ g = f THEN untold ELSE 0)) => Covered(u)'
      PROVE  skewed' = skewed /\ \E p \in Pieces : pipe' = Append(pipe, p) /\ Says(p)
  <2>1. PICK n \in 0..MaxCount : n = untold
    BY <1>0
  <2>2. PICK p : p = Piece(w, Msg("count", f, n), 1)
    OBVIOUS
  <2>3. /\ p \in Pieces /\ IsHeader(p, "count") /\ ~IsHeader(p, "file") /\ ~IsHeader(p, "drops")
        /\ p.msg.file = f
        /\ \A g \in 0..MaxFile : Told(p, g) = IF g = 0 \/ g = f THEN n ELSE 0
    BY <2>2, CountSays
  <2>4. ASSUME NEW i \in 0..MaxFile, Named(i) PROVE Fits(p, i) /\ Named(NameAfter(p, i))'
    <3>1. NameAfter(p, i) = i /\ Fits(p, i)
      BY <1>e, <2>3, <2>4 DEF NameAfter, Fits
    <3>2. Named(i)'
      BY <1>e, <2>4
    <3> QED
      BY <3>1, <3>2
  <2>5. ASSUME NEW t \in Totals, NEW u \in Totals, Covered(t), \A g \in 0..MaxFile : u[g] = t[g] + Told(p, g)
        PROVE  Covered(u)'
    <3>1. \A g \in 0..MaxFile : u[g] = t[g] + (IF g = 0 \/ g = f THEN untold ELSE 0)
      BY <2>1, <2>3, <2>5
    <3> QED
      BY <1>e, <2>5, <3>1
  <2>6. Says(p)
    BY <2>3, <2>4, <2>5 DEF Says, HasFile
  <2> QED
    BY <1>b, <1>e, <2>1, <2>2, <2>3, <2>6
<1>f. ASSUME NEW f \in Files, NEW t \in Totals, NEW u \in Totals,
             \A g \in 0..MaxFile : u[g] = t[g] + (IF g = 0 \/ g = f THEN untold ELSE 0)
      PROVE  u[0] = t[0] + untold /\ u[f] = t[f] + untold /\ \A g \in Files : g # f => u[g] = t[g]
  <2>1. \A g \in 0..MaxFile : t[g] \in Nat
    BY DEF Totals
  <2> QED
    BY <1>0, <1>f, <2>1
<1>6. CASE ChildTell
  <2>1. /\ child = "run" /\ UNCHANGED <<child, file>> /\ untold' = 0 /\ file \in Files /\ \E k : Flushed(k)
    BY <1>2, <1>6 DEF ChildTell, Main
  <2>2. \A n \in 0..MaxFile : Named(n) => n = file /\ Named(n)'
    BY <2>1 DEF Named
  <2>3. ASSUME NEW t \in Totals, NEW u \in Totals, Covered(t),
               \A g \in 0..MaxFile : u[g] = t[g] + (IF g = 0 \/ g = file THEN untold ELSE 0)
        PROVE  Covered(u)'
    <3>1. u[0] = t[0] + untold /\ u[file] = t[file] + untold /\ \A g \in Files : g # file => u[g] = t[g]
      BY <1>f, <2>1, <2>3
    <3>2. /\ buffered' = 0 /\ Written(Out') = Written(Out) + buffered
          /\ \A f \in Files : Out'[f] = IF f = file THEN Out[f] + buffered ELSE Out[f]
      BY <1>d, <2>1
    <3> QED
      BY <1>0, <1>1, <2>1, <2>3, <3>1, <3>2 DEF Covered, CountedFile, ChildInv
  <2> QED
    BY <1>a, <1>e, <1>6, <2>1, <2>2, <2>3 DEF ChildTell
<1>7. CASE ChildSwitch
  <2>1. /\ child = "run" /\ child' = "switch" /\ file' = file + 1 /\ untold' = untold /\ file \in Files
        /\ Flushed(buffered) /\ pipe' = pipe /\ skewed' = skewed
    BY <1>2, <1>7 DEF ChildSwitch, Main, pipeVars
  <2>2. /\ buffered' = 0 /\ Written(Out') = Written(Out) + buffered
        /\ \A f \in Files : Out'[f] = IF f = file THEN Out[f] + buffered ELSE Out[f]
    BY <1>d, <2>1
  <2>3. file' - 1 = file
    BY <1>0, <2>1
  <2>4. Keeps
    BY <1>0, <1>1, <2>1, <2>2, <2>3 DEF Keeps, Covered, Named, CountedFile
  <2> QED
    BY <2>1, <2>4
<1>8. CASE TellOldFile
  <2>1. /\ child = "switch" /\ child' = "name" /\ UNCHANGED <<file, disk, buffered, lost>> /\ untold' = 0 /\ buffered = 0
        /\ file \in Files /\ file - 1 \in Files /\ file - 1 # file
    BY <1>0, <1>8 DEF TellOldFile, Main, ChildInv, Files
  <2>2. \A n \in 0..MaxFile : Named(n) => n = file - 1 /\ Named(n)'
    BY <2>1 DEF Named
  <2>3. PICK f \in Files : f = file - 1
    BY <2>1
  <2>4. CASE untold > 0
    <3>1. ASSUME NEW t \in Totals, NEW u \in Totals, Covered(t),
                 \A g \in 0..MaxFile : u[g] = t[g] + (IF g = 0 \/ g = f THEN untold ELSE 0)
          PROVE  Covered(u)'
      <4>1. u[0] = t[0] + untold /\ u[f] = t[f] + untold /\ \A g \in Files : g # f => u[g] = t[g]
        BY <1>f, <3>1
      <4>2. t[f] + untold <= Out[f] + buffered /\ t[0] + untold <= Written(Out) + buffered
        BY <1>0, <2>1, <2>3, <3>1 DEF Covered, CountedFile
      <4>3. \A g \in Files : u[g] <= Out[g]
        BY <1>0, <1>1, <2>1, <3>1, <4>1, <4>2 DEF Covered
      <4> QED
        BY <1>0, <1>1, <2>1, <3>1, <4>1, <4>2, <4>3 DEF Covered, CountedFile, ChildInv
    <3>2. \A n \in 0..MaxFile : Named(n) => n = f /\ Named(n)'
      BY <2>2, <2>3
    <3>3. Send("main", Msg("count", f, untold))
      BY <1>8, <2>3, <2>4 DEF TellOldFile
    <3> QED
      BY <1>a, <1>e, <3>1, <3>2, <3>3
  <2>5. CASE ~(untold > 0)
    <3>1. untold = 0 /\ pipe' = pipe /\ skewed' = skewed
      BY <1>0, <1>8, <2>5 DEF TellOldFile, pipeVars
    <3>2. Keeps
      BY <1>0, <1>1, <2>1, <2>2, <3>1 DEF Keeps, Covered, CountedFile
    <3> QED
      BY <3>1, <3>2
  <2> QED
    BY <2>4, <2>5
<1>9. CASE NameFile
  <2>1. /\ child = "name" /\ child' = "run" /\ UNCHANGED <<file, disk, buffered, lost, untold>> /\ file \in Files
        /\ file \in 0..MaxFile /\ file >= 1 /\ "file" \in {"file", "error", "drops", "log"}
    BY <1>0, <1>9 DEF NameFile, Main, ChildInv, Files
  <2>2. PICK p : p = Piece("main", Msg("file", file, 0), 1)
    OBVIOUS
  <2>3. /\ p \in Pieces /\ ~IsHeader(p, "count") /\ p.msg.file = file /\ IsHeader(p, "file") /\ ~IsHeader(p, "drops")
        /\ \A g : Told(p, g) = 0
    <3>1. PICK k \in {"file", "error", "drops", "log"} : k = "file"
      OBVIOUS
    <3>2. p = Piece("main", Msg(k, file, 0), 1)
      BY <2>2, <3>1
    <3> QED
      BY <1>a, <2>1, <3>1, <3>2, OtherSays
  <2>4. ASSUME NEW n \in 0..MaxFile, Named(n) PROVE Fits(p, n) /\ Named(NameAfter(p, n))'
    <3>1. n = file - 1 /\ NameAfter(p, n) = file
      BY <2>1, <2>3, <2>4 DEF Named, NameAfter
    <3>2. Fits(p, n)
      BY <2>1, <2>3, <3>1 DEF Fits
    <3>3. Named(NameAfter(p, n))'
      BY <2>1, <3>1 DEF Named
    <3> QED
      BY <3>2, <3>3
  <2>5. \A t \in Totals : Covered(t) => Covered(t)'
    BY <1>0, <1>1, <2>1 DEF Covered, CountedFile
  <2>6. ASSUME NEW t \in Totals, NEW u \in Totals, Covered(t), \A f \in 0..MaxFile : u[f] = t[f] + Told(p, f)
        PROVE  Covered(u)'
    <3>1. ASSUME NEW f \in 0..MaxFile PROVE u[f] = t[f]
      <4>1. Told(p, f) = 0 /\ t[f] \in Nat /\ u[f] = t[f] + Told(p, f)
        BY <2>3, <2>6 DEF Totals
      <4> QED
        BY <4>1
    <3>2. t = [f \in 0..MaxFile |-> t[f]] /\ u = [f \in 0..MaxFile |-> u[f]]
      BY DEF Totals
    <3>3. u = t
      BY <3>1, <3>2, Zenon
    <3>4. Covered(u)
      BY <2>6, <3>3
    <3> QED
      BY <2>5, <3>4
  <2>7. Says(p)
    BY <2>1, <2>3, <2>4, <2>6 DEF Says, HasFile
  <2>8. pipe' = Append(pipe, p) /\ skewed' = skewed
    BY <1>a, <1>b, <1>9, <2>2 DEF NameFile
  <2> QED
    BY <2>3, <2>7, <2>8
<1>10. CASE ChildStop
  <2>1. /\ child = "run" /\ child' = "last" /\ file' = file /\ untold' = untold /\ file \in Files
        /\ \E k : Flushed(k)
    BY <1>2, <1>10 DEF ChildStop, Main
  <2>2. /\ buffered' = 0 /\ Written(Out') = Written(Out) + buffered
        /\ \A f \in Files : Out'[f] = IF f = file THEN Out[f] + buffered ELSE Out[f]
    BY <1>d, <2>1
  <2>3. Keeps
    BY <1>0, <1>1, <2>1, <2>2 DEF Keeps, Covered, Named, CountedFile
  <2>4. Send("main", Msg("error", 0, 0)) \/ UNCHANGED pipeVars
    BY <1>10 DEF ChildStop
  <2> QED
    BY <1>a, <1>c, <2>3, <2>4 DEF pipeVars
<1>11. CASE TellLast
  <2>1. /\ child = "last" /\ child' = "drops" /\ UNCHANGED <<file, disk, buffered, lost>> /\ untold' = 0 /\ buffered = 0
        /\ file \in Files
    BY <1>0, <1>11 DEF TellLast, Main, ChildInv, Files
  <2>2. \A n \in 0..MaxFile : Named(n) => n = file /\ Named(n)'
    BY <2>1 DEF Named
  <2>4. CASE untold > 0
    <3>1. ASSUME NEW t \in Totals, NEW u \in Totals, Covered(t),
                 \A g \in 0..MaxFile : u[g] = t[g] + (IF g = 0 \/ g = file THEN untold ELSE 0)
          PROVE  Covered(u)'
      <4>1. u[0] = t[0] + untold /\ u[file] = t[file] + untold /\ \A g \in Files : g # file => u[g] = t[g]
        BY <1>f, <2>1, <3>1
      <4> QED
        BY <1>0, <1>1, <2>1, <3>1, <4>1 DEF Covered, CountedFile, ChildInv
    <3>2. Send("main", Msg("count", file, untold))
      BY <1>11, <2>4 DEF TellLast
    <3> QED
      BY <1>a, <1>e, <2>1, <2>2, <3>1, <3>2
  <2>5. CASE ~(untold > 0)
    <3>1. untold = 0 /\ pipe' = pipe /\ skewed' = skewed
      BY <1>0, <1>11, <2>5 DEF TellLast, pipeVars
    <3>2. Keeps
      BY <1>0, <1>1, <2>1, <2>2, <3>1 DEF Keeps, Covered, CountedFile
    <3> QED
      BY <3>1, <3>2
  <2> QED
    BY <2>4, <2>5
<1>12. CASE TellDrops
  <2>1. /\ child = "drops" /\ child' = "bye" /\ UNCHANGED <<file, disk, buffered, lost, untold>> /\ file # 0
    BY <1>0, <1>12 DEF TellDrops, Main, ChildInv
  <2>2. Keeps
    BY <1>0, <1>1, <2>1 DEF Keeps, Covered, Named, CountedFile
  <2>3. \A n \in 0..MaxFile : Named(n) => n # 0
    BY <2>1 DEF Named
  <2> QED
    BY <1>a, <1>c, <1>12, <2>2, <2>3 DEF TellDrops
<1>13. CASE ChildExit \/ ChildCrash
  <2>1. child' = "dead" /\ UNCHANGED <<file, disk, lost, untold>> /\ pipe' = pipe /\ skewed' = skewed
    BY <1>13 DEF ChildExit, ChildCrash, pipeVars
  <2>2. Keeps
    BY <1>0, <1>1, <2>1 DEF Keeps, Covered, Named
  <2> QED
    BY <2>1, <2>2
<1>g. ASSUME UNCHANGED ChildState PROVE Keeps
  BY <1>0, <1>g DEF ChildState, Keeps, Covered, Named, CountedFile
<1>14. CASE ReaderLogs
  BY <1>a, <1>c, <1>g, <1>14 DEF ReaderLogs, ChildState
<1>15. CASE \E w \in Writers : Rest(w)
  <2>1. PICK w \in Writers : Rest(w)
    BY <1>15
  <2>2. PICK m, i : m = writing[w].msg /\ i = writing[w].part
    OBVIOUS
  <2>3. m \in Message /\ i \in 2..Parts(m) /\ Parts(m) \in {2, 5} /\ i \in 1..5 /\ i # 1
    <3>1. writing[w] # Idle
      BY <2>1 DEF Rest
    <3>2. m \in Message /\ i \in 2..Parts(m)
      BY <2>2, <3>1 DEF Typing, PipeType, SyncPipeType
    <3> QED
      BY <3>2, PartsIs
  <2>4. PICK p \in Pieces : p = Piece(w, m, i) /\ p.part = i
    BY <2>3, PieceIs
  <2>5. ~IsHeader(p, "count") /\ ~IsHeader(p, "file") /\ ~IsHeader(p, "drops")
    BY <2>3, <2>4 DEF IsHeader
  <2>6. Says(p)
    BY <1>g, <2>1, <2>5, SaysNothing DEF Rest, ChildState
  <2>7. pipe' = Append(pipe, p) /\ skewed' = skewed
    BY <2>1, <2>2, <2>4 DEF Rest, WriteRest
  <2> QED
    BY <2>6, <2>7
<1> QED
  BY <1>3, <1>4, <1>5, <1>6, <1>7, <1>8, <1>9, <1>10, <1>11, <1>12, <1>13, <1>14, <1>15 DEF ChildNext

(***************************************************************************)
(* What the interface was told of, with what the pipe holds for it, has    *)
(* left the buffer; and the files in the pipe are named before they are    *)
(* counted.                                                                *)
(***************************************************************************)
Account == [f \in 0..MaxFile |-> IF f = 0 THEN ui.count ELSE told[f]]

CountInv ==
    /\ ui.count <= setup.packets
    /\ \A f \in Files : told[f] <= Out[f]
    /\ watching /\ ~skewed =>
         /\ \A i \in 1..Len(pipe) : HasFile(pipe[i])
         /\ \E g, t : Ledger(g, pipe, Account) /\ t = g[Len(pipe)] /\ Covered(t)

NameInv ==
    watching /\ ~skewed /\ ~unopened =>
         /\ \E g, n : Names(g, pipe, ui.save) /\ n = g[Len(pipe)] /\ Named(n)
         /\ \A f \in Files : f > ui.save => told[f] = 0

(* A step of dumpcap keeps both.                                           *)
LEMMA ChildCounts ==
    ASSUME Typing, ChildInv, CountInv, NameInv, ChildNext
    PROVE  CountInv' /\ NameInv'
<1>0. /\ setup' = setup /\ ui' = ui /\ told' = told /\ watching' = watching /\ unopened' = unopened
      /\ Files' = Files /\ Account' = Account
      /\ pipe \in Seq(Pieces) /\ MaxFile \in Nat
  BY ChildSetup, SyncPipeAssumption DEF Account, Files, uiVars, Typing, PipeType, SyncPipeType
<1>1. ui'.count <= setup'.packets /\ \A f \in Files : told'[f] <= Out'[f]
  <2>1. ASSUME NEW f \in Files PROVE told'[f] <= Out'[f]
    <3>1. Out[f] <= Out'[f] /\ Out'[f] \in Nat
      BY ChildKeeps, OutGrows
    <3>2. Out[f] \in Nat /\ told[f] \in Nat
      BY OutIs, SyncPipeAssumption DEF Typing, UiType
    <3>3. told[f] <= Out[f]
      BY DEF CountInv
    <3> QED
      BY <1>0, <3>1, <3>2, <3>3
  <2> QED
    BY <1>0, <2>1 DEF CountInv
<1>2. ASSUME watching, ~skewed'
      PROVE  /\ \A i \in 1..Len(pipe') : HasFile(pipe'[i])
             /\ \E g, t : Ledger(g, pipe', Account) /\ t = g[Len(pipe')] /\ Covered(t)'
             /\ ~unopened => \E g, n : Names(g, pipe', ui.save) /\ n = g[Len(pipe')] /\ Named(n)'
  <2>0. skewed' = skewed /\ ((pipe' = pipe /\ Keeps) \/ \E p \in Pieces : pipe' = Append(pipe, p) /\ Says(p))
    BY <1>2, ChildSays
  <2>1. PICK g, t : Ledger(g, pipe, Account) /\ t = g[Len(pipe)] /\ Covered(t)
    BY <1>2, <2>0 DEF CountInv
  <2>2. t \in Totals
    BY <1>0, <2>1 DEF Ledger
  <2>3. \A i \in 1..Len(pipe) : HasFile(pipe[i])
    BY <1>2, <2>0 DEF CountInv
  <2>4. ~unopened => \E e, n : Names(e, pipe, ui.save) /\ n = e[Len(pipe)] /\ Named(n)
    BY <1>2, <2>0 DEF NameInv
  <2>5. CASE pipe' = pipe /\ Keeps
    <3>1. Covered(t)'
      BY <2>1, <2>2, <2>5 DEF Keeps
    <3>2. ~unopened => \E e, n : Names(e, pipe, ui.save) /\ n = e[Len(pipe)] /\ Named(n)'
      <4>1. ASSUME NEW e, NEW n, Names(e, pipe, ui.save), n = e[Len(pipe)], Named(n) PROVE Named(n)'
        <5>1. n \in 0..MaxFile
          BY <1>0, <4>1 DEF Names
        <5> QED
          BY <2>5, <4>1, <5>1 DEF Keeps
      <4> QED
        BY <2>4, <4>1
    <3> QED
      BY <2>1, <2>3, <2>5, <3>1, <3>2
  <2>6. ASSUME NEW p \in Pieces, pipe' = Append(pipe, p), Says(p)
        PROVE  /\ \A i \in 1..Len(pipe') : HasFile(pipe'[i])
               /\ \E h, u : Ledger(h, pipe', Account) /\ u = h[Len(pipe')] /\ Covered(u)'
               /\ ~unopened => \E e, n : Names(e, pipe', ui.save) /\ n = e[Len(pipe')] /\ Named(n)'
    <3>0. /\ Len(pipe') = Len(pipe) + 1 /\ Len(pipe) \in Nat /\ pipe'[Len(pipe) + 1] = p
          /\ \A i \in 1..Len(pipe) : pipe'[i] = pipe[i]
      BY <1>0, <2>6, AppendIs
    <3>1. \A i \in 1..Len(pipe') : HasFile(pipe'[i])
      <4> TAKE i \in 1..Len(pipe')
      <4>1. i \in 1..Len(pipe) \/ i = Len(pipe) + 1
        BY <3>0
      <4> QED
        BY <4>1, <3>0, <2>3, <2>6 DEF Says
    <3>2. PICK a : a = Account
      OBVIOUS
    <3>3. PICK q \in Seq(Pieces) : q = pipe
      BY <1>0
    <3>4. PICK h : Ledger(h, Append(q, p), a) /\ \A f \in 0..MaxFile : h[Len(Append(q, p))][f] = g[Len(q)][f] + Told(p, f)
      <4>1. Ledger(g, q, a)
        BY <2>1, <3>2, <3>3
      <4> QED
        BY <4>1, LedgerAppend
    <3>5. PICK u : u = h[Len(Append(q, p))]
      OBVIOUS
    <3>6. u \in Totals
      <4>1. Len(Append(q, p)) \in Nat
        BY AppendIs
      <4> QED
        BY <3>4, <3>5, <4>1 DEF Ledger
    <3>7. \A f \in 0..MaxFile : u[f] = t[f] + Told(p, f)
      BY <2>1, <3>3, <3>4, <3>5
    <3>8. Covered(u)'
      BY <2>1, <2>2, <2>6, <3>6, <3>7 DEF Says
    <3>9. \E x, y : Ledger(x, pipe', Account) /\ y = x[Len(pipe')] /\ Covered(y)'
      <4>1. Ledger(h, pipe', Account) /\ u = h[Len(pipe')]
        BY <2>6, <3>2, <3>3, <3>4, <3>5
      <4> QED
        BY <3>8, <4>1
    <3>10. ASSUME ~unopened PROVE \E e, n : Names(e, pipe', ui.save) /\ n = e[Len(pipe')] /\ Named(n)'
      <4>1. PICK e, n : Names(e, pipe, ui.save) /\ n = e[Len(pipe)] /\ Named(n)
        BY <2>4, <3>10
      <4>2. n \in 0..MaxFile
        BY <1>0, <4>1 DEF Names
      <4>3. Fits(p, n) /\ Named(NameAfter(p, n))'
        BY <2>6, <4>1, <4>2 DEF Says
      <4>4. PICK s : s = ui.save
        OBVIOUS
      <4>5. PICK d : Names(d, Append(q, p), s) /\ d[Len(Append(q, p))] = NameAfter(p, e[Len(q)])
        <5>1. Names(e, q, s) /\ Fits(p, e[Len(q)])
          BY <4>1, <4>3, <4>4, <3>3
        <5> QED
          BY <5>1, NamesAppend
      <4>6. PICK j : j = NameAfter(p, n)
        OBVIOUS
      <4>7. Names(d, pipe', ui.save) /\ j = d[Len(pipe')]
        BY <2>6, <3>3, <4>1, <4>4, <4>5, <4>6
      <4>8. Named(j)'
        BY <4>3, <4>6
      <4> QED
        BY <4>7, <4>8
    <3> QED
      BY <3>1, <3>9, <3>10
  <2> QED
    BY <2>0, <2>5, <2>6
<1>3. CountInv'
  BY <1>0, <1>1, <1>2 DEF CountInv
<1>4. NameInv'
  <2> SUFFICES ASSUME watching', ~skewed', ~unopened'
               PROVE  /\ \E g, n : Names(g, pipe', ui'.save) /\ n = g[Len(pipe')] /\ Named(n)'
                      /\ \A f \in Files : f > ui'.save => told'[f] = 0
    BY <1>0 DEF NameInv
  <2>1. watching /\ ~unopened /\ skewed' = skewed
    BY <1>0, ChildSays
  <2>2. \E g, n : Names(g, pipe', ui.save) /\ n = g[Len(pipe')] /\ Named(n)'
    BY <1>2, <2>1
  <2>3. \A f \in Files : f > ui.save => told[f] = 0
    BY <2>1 DEF NameInv
  <2> QED
    BY <1>0, <2>2, <2>3
<1> QED
  BY <1>3, <1>4

(* A whole message that is read moves from the pipe to the account, and    *)
(* the account holds.                                                      *)
LEMMA ReadTells ==
    ASSUME Typing, CountInv, watching, ReadBlock, Whole
    PROVE  /\ Header \in Message /\ pipe[1] \in Pieces /\ pipe[1].msg = Header /\ pipe[1].part = 1
           /\ Header.kind = "file" => Header.file \in Files
           /\ Header.kind = "count" => /\ Header.file \in Files
                                       /\ ui.count + Header.n <= setup.packets
                                       /\ told[Header.file] + Header.n <= Out[Header.file]
           /\ \A i \in 1..Len(pipe') : HasFile(pipe'[i])
           /\ \E g, t : /\ Ledger(g, pipe', [f \in 0..MaxFile |-> Account[f] + Told(pipe[1], f)])
                        /\ t = g[Len(pipe')] /\ Covered(t)
           /\ ~unopened /\ NameInv =>
                 /\ Fits(pipe[1], ui.save)
                 /\ \E g, n : Names(g, pipe', NameAfter(pipe[1], ui.save)) /\ n = g[Len(pipe')] /\ Named(n)
<1> USE SyncPipeAssumption
<1>1. PICK k \in {2, 5} :
              /\ k = Parts(Header) /\ k <= Len(pipe) /\ Len(pipe) \in Nat
              /\ pipe[1] \in Pieces /\ pipe[1].part = 1 /\ pipe[1].msg = Header /\ ~skewed
              /\ pipe' \in Seq(Pieces) /\ Len(pipe') = Len(pipe) - k
              /\ \A i \in 1..(Len(pipe) - k) : pipe'[i] = pipe[i + k]
  BY BlockIs DEF Typing, PipeType
<1>2. PICK q \in Seq(Pieces) : q = pipe
  BY DEF Typing, PipeType, SyncPipeType
<1>3. PICK r \in Seq(Pieces) : r = pipe'
  BY <1>1
<1>4. PICK p \in Pieces : p = pipe[1]
  BY <1>1
<1>5. /\ k <= Len(q) /\ Len(r) = Len(q) - k /\ \A i \in 1..(Len(q) - k) : r[i] = q[i + k]
      /\ p = q[1] /\ p.part = 1 /\ p.msg = Header
  BY <1>1, <1>2, <1>3, <1>4
<1>6. OneHeader(q, k)
  <2> SUFFICES ASSUME NEW i \in 2..k PROVE q[i].part # 1
    BY DEF OneHeader
  <2>1. i \in 1..Parts(Header)
    BY <1>1
  <2>2. pipe[i] = Piece(Head(pipe).by, Header, i)
    BY <2>1 DEF Whole
  <2>3. pipe[i].part = i
    BY <2>2 DEF Piece
  <2> QED
    BY <1>2, <2>3
<1>7. PICK a : a = Account
  OBVIOUS
<1>8. PICK g, t : Ledger(g, q, a) /\ t = g[Len(q)] /\ Covered(t)
  <2>1. watching /\ ~skewed
    BY <1>1
  <2>2. \E g, t : Ledger(g, pipe, Account) /\ t = g[Len(pipe)] /\ Covered(t)
    BY <2>1 DEF CountInv
  <2> QED
    BY <2>2, <1>2, <1>7
<1>9. \A f \in 0..MaxFile : g[k][f] = a[f] + Told(p, f)
  <2>1. Ledger(g, q, a) /\ k <= Len(q) /\ q[1] = p
    BY <1>5, <1>8
  <2>2. ASSUME NEW f \in 0..MaxFile PROVE g[k][f] = a[f] + Told(q[1], f)
    <3>1. Ledger(g, q, a) /\ k <= Len(q) /\ OneHeader(q, k)
      BY <1>6, <2>1
    <3> QED
      BY <3>1, LedgerMessage
  <2> QED
    BY <2>1, <2>2
<1>10. g[k] = [f \in 0..MaxFile |-> a[f] + Told(p, f)] /\ k \in 0..Len(q) /\ k \in Nat
  <2>1. k \in 0..Len(q) /\ k \in Nat
    BY <1>1, <1>2
  <2>2. g[k] \in Totals
    BY <2>1, <1>8 DEF Ledger
  <2>3. g[k] = [f \in 0..MaxFile |-> g[k][f]]
    BY <2>2 DEF Totals
  <2> QED
    BY <2>1, <2>3, <1>9
<1>11. \E h : Ledger(h, r, g[k]) /\ h[Len(r)] = g[Len(q)]
  BY <1>5, <1>8, <1>10, LedgerCut, ZenonT(60)
<1>12. \E h, u : Ledger(h, r, [f \in 0..MaxFile |-> a[f] + Told(p, f)]) /\ u = h[Len(r)] /\ Covered(u)
  <2>1. PICK h : Ledger(h, r, g[k]) /\ h[Len(r)] = g[Len(q)]
    BY <1>11
  <2>2. t = h[Len(r)]
    BY <1>8, <2>1
  <2> QED
    BY <1>8, <1>10, <2>1, <2>2
<1>13. \A i \in 1..Len(pipe') : HasFile(pipe'[i])
  <2> TAKE i \in 1..Len(pipe')
  <2>1. i \in 1..(Len(pipe) - k) /\ i + k \in 1..Len(pipe)
    BY <1>1
  <2>2. pipe'[i] = pipe[i + k]
    BY <1>1, <2>1
  <2> QED
    BY <1>1, <2>1, <2>2 DEF CountInv
<1>14. ASSUME Header.kind = "count"
       PROVE  /\ Header.file \in Files
              /\ ui.count + Header.n <= setup.packets
              /\ told[Header.file] + Header.n <= Out[Header.file]
  <2>1. IsHeader(p, "count") /\ 1 \in 1..Len(pipe)
    BY <1>1, <1>5, <1>14 DEF IsHeader
  <2>2. PICK f \in Files : f = Header.file
    BY <1>1, <1>4, <1>5, <2>1 DEF CountInv, HasFile
  <2>3. f \in 0..MaxFile /\ 0 \in 0..MaxFile /\ f # 0
    BY DEF Files
  <2>4. Told(p, 0) = Header.n /\ Told(p, f) = Header.n
    BY <1>5, <2>1, <2>2 DEF Told
  <2>5. g[k][0] = ui.count + Header.n /\ g[k][f] = told[f] + Header.n
    BY <1>7, <1>9, <2>3, <2>4 DEF Account
  <2>6. g[k][0] \in Nat /\ g[Len(q)][0] \in Nat /\ g[k][0] <= g[Len(q)][0]
    BY <1>8, <1>10, <2>3, LedgerGrows
  <2>7. g[k][f] \in Nat /\ g[Len(q)][f] \in Nat /\ g[k][f] <= g[Len(q)][f]
    BY <1>8, <1>10, <2>3, LedgerGrows
  <2>8. t[0] <= setup.packets /\ t[f] <= Out[f]
    BY <1>8 DEF Covered
  <2>9. setup.packets \in Nat /\ Out[f] \in Nat
    BY SetupFields, OutIs DEF Typing
  <2>10. g[k][0] <= setup.packets
    BY <1>8, <2>6, <2>8, <2>9
  <2>11. g[k][f] <= Out[f]
    BY <1>8, <2>7, <2>8, <2>9
  <2> QED
    BY <2>2, <2>5, <2>10, <2>11
<1>15. ASSUME ~unopened, NameInv
       PROVE  /\ Fits(p, ui.save)
              /\ \E h, n : Names(h, r, NameAfter(p, ui.save)) /\ n = h[Len(r)] /\ Named(n)
  <2>1. PICK s : s = ui.save
    OBVIOUS
  <2>2. PICK e, n : Names(e, q, s) /\ n = e[Len(q)] /\ Named(n)
    BY <1>1, <1>2, <1>15, <2>1 DEF NameInv
  <2>3. e[k] = NameAfter(p, s) /\ Fits(p, s)
    BY <1>5, <1>6, <2>2, NamesMessage
  <2>4. PICK h : Names(h, r, e[k]) /\ h[Len(r)] = e[Len(q)]
    <3>1. k \in Nat
      BY <1>10
    <3> QED
      BY <1>5, <2>2, <3>1, NamesCut
  <2>5. n = h[Len(r)] /\ Names(h, r, NameAfter(p, s))
    BY <2>2, <2>3, <2>4
  <2> QED
    BY <2>1, <2>2, <2>3, <2>5
<1>16. Header \in Message
  BY <1>1, PieceFields
<1>17. ASSUME Header.kind = "file" PROVE Header.file \in Files
  <2>1. IsHeader(p, "file") /\ 1 \in 1..Len(pipe)
    BY <1>1, <1>5, <1>17 DEF IsHeader
  <2> QED
    BY <1>1, <1>4, <1>5, <2>1 DEF CountInv, HasFile
<1> QED
  BY <1>1, <1>3, <1>4, <1>7, <1>12, <1>13, <1>14, <1>15, <1>16, <1>17

(***************************************************************************)
(* Who is still there, and when the session is over.                       *)
(***************************************************************************)
AllGone ==
    /\ ~timer /\ ~waitCbs /\ ~stopAfter
    /\ \A e \in Extcaps : proc[e] = "dead" /\ ~pid[e] /\ watches[e] = {} /\ fifo[e] = "gone"

DownInv ==
    /\ \A e \in Extcaps : ~pid[e] => proc[e] = "dead"
    /\ watching => fork /\ Active(ui)
    /\ loop = "wait" => watching
    /\ ~fork => child = "dead"
    /\ ui.state = "stopped" /\ ~fork => AllGone
    /\ ui.state = "stopped" /\ ~unopened => ~fork /\ (~ui.broken => ui.cf \in {"closed", "done"})
    /\ ~fork /\ AllFinished(pid, watches) => ui.state = "stopped"

(***************************************************************************)
(* What the interface makes of it: before the first file there is nothing, *)
(* then a current file, which in real time is the one that is read.        *)
(***************************************************************************)
Shape(s) ==
    /\ s.state = "preparing" => s.cf = "closed" /\ s.name = 0 /\ s.save = 0 /\ s.pending = 0 /\ s.info = 0
    /\ s.state = "running" => s.save # 0
    /\ s.cf = "pending" => s.state = "running"

\* n of the t packets of file f that were told of: all but some that are lost.
Near(n, t, l, f) == n <= t[f] /\ t[f] <= n + l[f]

InMode(s, r, t, l) ==
    /\ r => s.cf \in {"inprogress", "aborted"} /\ s.name = s.save /\ s.pending = 0
    /\ ~r => s.cf \in {"closed", "pending", "aborted"} /\ s.name = 0
    /\ s.info # 0 => s.info = s.save /\ Near(s.seen + s.spin, t, l, s.info)

ReadsTold(s, t, l) == s.cf = "inprogress" => s.name # 0 /\ Near(s.read, t, l, s.name)

UiInv ==
    /\ Valid(ui, disk)
    /\ ~unopened /\ ~ui.broken => Shape(ui)
    /\ ~switched => rt = setup.rt
    /\ unopened /\ ~switched => ui.state = "stopped"
    /\ ui.broken => unopened \/ switched
    /\ ~setup.info => ui.info = 0
    /\ ~switched /\ ~ui.broken =>
         /\ ui.state = "running" /\ ~unopened => InMode(ui, rt, told, lost)
         /\ ReadsTold(ui, told, lost)
         /\ loop = "spin" => ui.info # 0 /\ lost[ui.info] > 0
    /\ loop # "spin" => ui.spin = 0

Inv == Typing /\ ChildInv /\ CountInv /\ FrameInv /\ NameInv /\ DownInv /\ UiInv /\ WaitsOnlyForDead

(* What was told of stays true when the pipe and dumpcap stay as they are. *)
LEMMA QuietCounts ==
    ASSUME CountInv, NameInv, UNCHANGED <<pipeVars, setup, ChildState, told>>, ui'.count = ui.count,
           watching' => watching, unopened => unopened', watching' /\ ~unopened' => ui'.save = ui.save
    PROVE  CountInv' /\ NameInv'
<1>0. Files' = Files /\ Account' = Account
  BY DEF Files, Account
<1>1. UNCHANGED <<pipe, skewed, child, file, disk, buffered, lost, untold, setup>>
  BY DEF pipeVars, ChildState
<1>a. Out' = Out
  BY <1>1, OutSame
<1>2. ASSUME NEW t, Covered(t) PROVE Covered(t)'
  BY <1>0, <1>1, <1>2, <1>a DEF Covered, CountedFile
<1>3. ASSUME NEW n, Named(n) PROVE Named(n)'
  BY <1>1, <1>3 DEF Named
<1>4. CountInv'
  <2>1. ASSUME watching', ~skewed'
        PROVE  /\ \A i \in 1..Len(pipe) : HasFile(pipe[i])
               /\ \E g, t : Ledger(g, pipe, Account) /\ t = g[Len(pipe)] /\ Covered(t)'
    BY <1>1, <1>2, <2>1 DEF CountInv
  <2> QED
    BY <1>0, <1>1, <1>a, <2>1 DEF CountInv
<1>5. NameInv'
  <2>1. ASSUME watching', ~skewed', ~unopened'
        PROVE  /\ \E g, n : Names(g, pipe, ui.save) /\ n = g[Len(pipe)] /\ Named(n)'
               /\ \A f \in Files : f > ui.save => told[f] = 0
    BY <1>1, <1>3, <2>1 DEF NameInv
  <2> QED
    BY <1>0, <1>1, <2>1 DEF NameInv
<1> QED
  BY <1>4, <1>5

(* The types that follow from the rest of the invariant.                   *)
LEMMA UiTyped ==
    ASSUME NEW d \in Disk, NEW s, Valid(s, d), s.count <= MaxCount,
           NEW t \in [Files -> Nat], \A f \in Files : t[f] <= MaxCount
    PROVE  {s.read, s.count, s.seen} \subseteq 0..MaxCount /\ t \in [Files -> 0..MaxCount]
<1> USE SyncPipeAssumption
<1>1. s \in UiRecord
  BY DEF Valid
<1>2. s.count \in 0..MaxCount /\ s.seen \in 0..MaxCount
  BY <1>1 DEF Valid, Reads, UiRecord
<1>3. s.read \in 0..MaxCount
  <2>1. CASE s.name = 0
    BY <2>1 DEF Valid, Reads
  <2>2. CASE s.name # 0
    <3>1. d[s.name] \in 0..MaxCount
      BY <1>1, <2>2, DiskAt DEF UiRecord
    <3> QED
      BY <1>1, <2>2, <3>1 DEF Valid, Reads, UiRecord
  <2> QED
    BY <2>1, <2>2
<1>4. t \in [Files -> 0..MaxCount]
  <2>1. ASSUME NEW f \in Files PROVE t[f] \in 0..MaxCount
    <3>1. t[f] \in Nat /\ t[f] <= MaxCount
      OBVIOUS
    <3> QED
      BY <3>1
  <2> QED
    BY <2>1
<1> QED
  BY <1>2, <1>3, <1>4

(* The choice of the files that can be opened is one for each.             *)
LEMMA OpensIs == ASSUME NEW f, NEW o \in Opens(f) PROVE o \in Open2
BY DEF Opens, Open2

(* Closing the session.                                                    *)
LEMMA CloseIs ==
    ASSUME Typing, UiInv, CloseSession, Active(ui), UNCHANGED <<setup, ChildState, rt, told, switched>>,
           loop # "spin", loop' # "spin"
    PROVE  /\ ui'.state = "stopped" /\ ui'.count = ui.count /\ unopened' \in BOOLEAN /\ (unopened => unopened')
           /\ ~unopened' /\ ~ui'.broken => ui'.cf \in {"closed", "done"}
           /\ UiInv'
<1>0. disk \in Disk /\ disk' = disk /\ lost' = lost
  BY DEF Typing, ChildType, Disk, ChildState
<1>1. PICK o \in Opens(ui.save) : /\ ui' = Closed(ui, o, disk)
                                  /\ unopened' = (unopened \/ (ui.cf = "pending" /\ Missed(ui.save, o)))
  BY DEF CloseSession
<1>2. o \in Open2
  BY OpensIs
<1>3. PICK s : s = ui
  OBVIOUS
<1>4. PICK r : r = Closed(s, o, disk)
  OBVIOUS
<1>5. PICK d \in Disk : d = disk
  BY <1>0
<1>6. /\ Valid(r, d) /\ r.count = s.count /\ r.spin = s.spin
      /\ r.state = "stopped" /\ r.save = 0 /\ r.info = 0
      /\ s.broken => r.broken
      /\ r.cf = "inprogress" => s.cf = "inprogress" /\ r.name = s.name /\ r.read = s.read
      /\ ~s.broken /\ Active(s) /\ (s.state = "preparing" => s.cf = "closed") =>
            /\ ~r.broken
            /\ r.cf \in {"closed", "done"} \/ (r.cf = "pending" /\ s.cf = "pending" /\ (s.save = 0 \/ ~o[1]))
  <2>1. Valid(s, d) /\ r = Closed(s, o, d)
    BY <1>3, <1>4, <1>5 DEF UiInv
  <2> QED
    BY <1>2, <2>1, ClosedIs
<1>7. ui' = r /\ s = ui /\ d = disk
  BY <1>1, <1>3, <1>4, <1>5
<1>8. unopened' \in BOOLEAN /\ (unopened => unopened')
  BY <1>1 DEF Typing, LoopType
<1>9. ASSUME ~unopened, ~s.broken
      PROVE  ~r.broken /\ (~unopened' => r.cf \in {"closed", "done"})
  <2>1. s.state = "preparing" => s.cf = "closed"
    BY <1>7, <1>9 DEF UiInv, Shape
  <2>2. s.cf = "pending" => s.save # 0
    BY <1>7, <1>9 DEF UiInv, Shape
  <2>3. ~unopened' /\ s.cf = "pending" => o[1]
    BY <1>1, <1>7, <2>2 DEF Missed
  <2> QED
    BY <1>6, <1>7, <1>9, <2>1, <2>2, <2>3
<1>10. ~unopened' /\ ~r.broken => r.cf \in {"closed", "done"}
  BY <1>6, <1>8, <1>9
<1>11. r.broken => unopened' \/ switched
  BY <1>7, <1>8, <1>9 DEF UiInv
<1>12. UiInv'
  <2>1. Valid(ui', disk')
    BY <1>0, <1>6, <1>7
  <2>2. ~unopened' /\ ~ui'.broken => Shape(ui')
    BY <1>6, <1>7, <1>10 DEF Shape
  <2>3. ~switched /\ ~ui'.broken => ReadsTold(ui', told, lost)
    BY <1>6, <1>7 DEF UiInv, ReadsTold
  <2>4. ui'.spin = 0
    BY <1>6, <1>7 DEF UiInv
  <2> QED
    BY <1>0, <1>6, <1>7, <1>11, <2>1, <2>2, <2>3, <2>4 DEF UiInv
<1> QED
  BY <1>6, <1>7, <1>8, <1>10, <1>12

(***************************************************************************)
(* The steps of the event loop and of the extcap programs.                 *)
(***************************************************************************)
(* capture_process_finished closes the session when nobody is left.        *)
LEMMA ProcessIs ==
    ASSUME Typing, setup' = setup, NEW p, NEW w, NEW f \in BOOLEAN, NEW timed \in BOOLEAN, NEW waits \in BOOLEAN,
           ProcessFinished(p, w, f, timed, waits)
    PROVE  /\ fifo' \in [Extcaps -> {"unopened", "open", "gone"}]
           /\ timer' \in BOOLEAN /\ waitCbs' \in BOOLEAN /\ stopAfter' \in BOOLEAN /\ signal' \in BOOLEAN
           /\ AllFinished(p, w) /\ ~f =>
                 /\ CloseSession /\ ~stopAfter' /\ ~timer' /\ ~waitCbs'
                 /\ \A e \in Extcaps : fifo'[e] = "gone"
           /\ ~(AllFinished(p, w) /\ ~f) => UNCHANGED <<ui, unopened>>
<1>0. /\ fifo \in [Extcaps -> {"unopened", "open", "gone"}]
      /\ stopAfter \in BOOLEAN /\ signal \in BOOLEAN
  BY DEF Typing, ExtcapType, LoopType
<1>1. /\ fifo' = [e \in Extcaps |-> IF \A d \in 1..e : Finished1(p, w, d) THEN "gone" ELSE fifo[e]]
      /\ timer' = (timed /\ ~AllFinished(p, w)) /\ waitCbs' = (waits /\ ~AllFinished(p, w))
  BY DEF ProcessFinished, RemoveFifos
<1>2. fifo' \in [Extcaps -> {"unopened", "open", "gone"}]
  <2>1. ASSUME NEW e \in Extcaps
        PROVE (IF \A d \in 1..e : Finished1(p, w, d) THEN "gone" ELSE fifo[e]) \in {"unopened", "open", "gone"}
    BY <1>0
  <2> QED
    BY <1>1, <2>1
<1>3. ASSUME AllFinished(p, w), ~f
      PROVE  CloseSession /\ ~stopAfter' /\ ~timer' /\ ~waitCbs' /\ \A e \in Extcaps : fifo'[e] = "gone"
  <2>1. CloseSession /\ stopAfter' = FALSE
    BY <1>3 DEF ProcessFinished
  <2>2. ASSUME NEW e \in Extcaps PROVE fifo'[e] = "gone"
    <3>1. \A d \in 1..e : d \in Extcaps
      <4>1. setup.extcaps \in Nat
        BY SetupFields DEF Typing
      <4> QED
        BY <4>1 DEF Extcaps
    <3>2. \A d \in 1..e : Finished1(p, w, d)
      BY <1>3, <3>1 DEF AllFinished
    <3> QED
      BY <1>1, <3>2
  <2> QED
    BY <1>1, <1>3, <2>1, <2>2
<1>4. ~(AllFinished(p, w) /\ ~f) => UNCHANGED <<ui, unopened>>
  BY DEF ProcessFinished
<1>5. stopAfter' \in BOOLEAN /\ signal' \in BOOLEAN
  <2>1. stopAfter' \in {FALSE, stopAfter} /\ signal' \in {TRUE, signal}
    BY DEF ProcessFinished
  <2> QED
    BY <1>0, <2>1
<1>6. timer' \in BOOLEAN /\ waitCbs' \in BOOLEAN
  BY <1>1
<1> QED
  BY <1>2, <1>3, <1>4, <1>5, <1>6

(* After an end that was waited for, of an extcap or of dumpcap: f says    *)
(* whether dumpcap is still there.                                         *)
LEMMA EndKeeps ==
    ASSUME Inv, UNCHANGED <<setup, pipeVars, ChildState, rt, asked, told, switched>>,
           loop # "spin", loop' \in {"idle", "wait"}, loop' = "wait" => watching',
           NEW f \in BOOLEAN, f = fork', f => fork, ~f => child = "dead", Active(ui) \/ f,
           watching' \in BOOLEAN, watching' => watching /\ f,
           NEW p, NEW w, p = pid', w = watches',
           p \in [Extcaps -> BOOLEAN], w \in [Extcaps -> SUBSET {"stdout", "stderr"}],
           proc' \in [Extcaps -> {"run", "term", "dead"}],
           \A e \in Extcaps : ~p[e] => proc'[e] = "dead",
           \/ \E timed, waits \in BOOLEAN : ProcessFinished(p, w, f, timed, waits)
           \/ /\ ~AllFinished(p, w) /\ UNCHANGED <<ui, unopened>>
              /\ fifo' \in [Extcaps -> {"unopened", "open", "gone"}]
              /\ timer' \in BOOLEAN /\ waitCbs' \in BOOLEAN /\ stopAfter' \in BOOLEAN /\ signal' \in BOOLEAN
    PROVE  ExtcapType' /\ LoopType' /\ DownInv' /\ UiInv' /\ CountInv' /\ NameInv'
<1>0. /\ Typing /\ UiInv /\ DownInv /\ Extcaps' = Extcaps /\ loop' # "spin"
      /\ disk' = disk /\ lost' = lost /\ child' = child
  BY DEF Inv, Extcaps, ChildState
<1>1. CASE AllFinished(p, w) /\ ~f
  <2>1. PICK timed \in BOOLEAN, waits \in BOOLEAN : ProcessFinished(p, w, f, timed, waits)
    BY <1>1
  <2>2. /\ fifo' \in [Extcaps -> {"unopened", "open", "gone"}]
        /\ timer' \in BOOLEAN /\ waitCbs' \in BOOLEAN /\ stopAfter' \in BOOLEAN /\ signal' \in BOOLEAN
        /\ CloseSession /\ ~stopAfter' /\ ~timer' /\ ~waitCbs'
        /\ \A e \in Extcaps : fifo'[e] = "gone"
    BY <1>0, <1>1, <2>1, ProcessIs
  <2>3. /\ ui'.state = "stopped" /\ ui'.count = ui.count /\ unopened' \in BOOLEAN /\ (unopened => unopened')
        /\ ~unopened' /\ ~ui'.broken => ui'.cf \in {"closed", "done"}
        /\ UiInv'
    BY <1>0, <1>1, <2>2, CloseIs
  <2>4. \A e \in Extcaps : proc'[e] = "dead" /\ ~pid'[e] /\ watches'[e] = {} /\ fifo'[e] = "gone"
    BY <1>1, <2>2 DEF AllFinished, Finished1
  <2>5. AllGone'
    BY <1>0, <2>2, <2>4 DEF AllGone
  <2>6. DownInv'
    <3>1. ~watching' /\ ~fork' /\ child' = "dead"
      BY <1>0, <1>1
    <3> QED
      BY <1>0, <2>3, <2>5, <3>1 DEF DownInv
  <2>7. ExtcapType' /\ LoopType'
    BY <1>0, <2>2, <2>3 DEF ExtcapType, LoopType, Typing
  <2>8. CountInv' /\ NameInv'
    BY <1>1, <2>3, QuietCounts DEF Inv
  <2> QED
    BY <2>3, <2>6, <2>7, <2>8
<1>2. CASE ~(AllFinished(p, w) /\ ~f)
  <2>1. /\ fifo' \in [Extcaps -> {"unopened", "open", "gone"}] /\ UNCHANGED <<ui, unopened>>
        /\ timer' \in BOOLEAN /\ waitCbs' \in BOOLEAN /\ stopAfter' \in BOOLEAN /\ signal' \in BOOLEAN
    <3>1. CASE \E timed, waits \in BOOLEAN : ProcessFinished(p, w, f, timed, waits)
      BY <1>0, <1>2, <3>1, ProcessIs
    <3> QED
      BY <3>1
  <2>2. ui'.state = "stopped" => f /\ unopened
    <3>1. Active(ui) => ui.state # "stopped"
      BY DEF Active
    <3>2. ui.state = "stopped" /\ ~unopened => ~fork
      BY <1>0 DEF DownInv
    <3> QED
      BY <2>1, <3>1, <3>2
  <2>3. DownInv'
    <3>1. watching' => fork' /\ Active(ui')
      BY <1>0, <2>1 DEF DownInv
    <3>2. ~fork' => child' = "dead"
      BY <1>0
    <3>3. ~(~fork' /\ AllFinished(pid', watches'))
      BY <1>2
    <3>4. ~fork' /\ AllFinished(pid, watches)' => ui'.state = "stopped"
      BY <1>0, <3>3 DEF AllFinished, Finished1
    <3>5. \A e \in Extcaps' : ~pid'[e] => proc'[e] = "dead"
      BY <1>0
    <3> QED
      BY <1>0, <2>1, <2>2, <3>1, <3>2, <3>4, <3>5 DEF DownInv
  <2>4. UiInv'
    BY <1>0, <2>1 DEF UiInv
  <2>5. ExtcapType' /\ LoopType'
    BY <1>0, <2>1 DEF ExtcapType, LoopType, Typing
  <2>6. CountInv' /\ NameInv'
    BY <2>1, QuietCounts DEF Inv
  <2> QED
    BY <2>3, <2>4, <2>5, <2>6
<1> QED
  BY <1>1, <1>2

(* What is left to show of a step that is not dumpcap's.                   *)
Side == ExtcapType /\ LoopType /\ DownInv /\ UiInv /\ CountInv /\ NameInv

(* An extcap, or its output, comes to its end.                             *)
LEMMA WatchKeeps ==
    ASSUME Inv, NEW e \in Extcaps, NEW p, NEW w, p = pid', w = watches',
           ExtcapReaped(e) \/ \E x \in {"stdout", "stderr"} : ExtcapOutputEnds(e, x)
    PROVE  Side'
<1>0. /\ ExtcapType /\ LoopType /\ DownInv /\ fork \in BOOLEAN /\ watching \in BOOLEAN /\ loop \in {"idle", "wait", "spin"}
  BY DEF Inv, Typing, LoopType
<1>1. /\ UNCHANGED <<setup, pipeVars, ChildState, rt, asked, told, switched, loop, watching, fork, proc>>
      /\ loop = "idle"
      /\ WatchRemoved(p, w, e)
      /\ \/ pid[e] /\ proc[e] = "dead" /\ p = [pid EXCEPT ![e] = FALSE] /\ w = watches
         \/ \E x \in {"stdout", "stderr"} : x \in watches[e] /\ w = [watches EXCEPT ![e] = @ \ {x}] /\ p = pid
  <2>1. CASE ExtcapReaped(e)
    <3>1. WatchRemoved(p, w, e)
      BY <2>1 DEF ExtcapReaped
    <3> QED
      BY <2>1, <3>1 DEF ExtcapReaped, CallbackUnchanged, Silent, ChildState, IdleLoop
  <2>2. ASSUME NEW x \in {"stdout", "stderr"}, ExtcapOutputEnds(e, x)
        PROVE  /\ UNCHANGED <<setup, pipeVars, ChildState, rt, asked, told, switched, loop, watching, fork, proc>>
               /\ loop = "idle"
               /\ WatchRemoved(p, w, e)
               /\ x \in watches[e] /\ w = [watches EXCEPT ![e] = @ \ {x}] /\ p = pid
    <3>1. p = pid
      BY <2>2 DEF ExtcapOutputEnds
    <3>2. WatchRemoved(p, w, e)
      BY <2>2, <3>1 DEF ExtcapOutputEnds
    <3> QED
      BY <2>2, <3>1, <3>2 DEF ExtcapOutputEnds, CallbackUnchanged, Silent, ChildState, IdleLoop
  <2> QED
    BY <2>1, <2>2
<1>2. p \in [Extcaps -> BOOLEAN] /\ w \in [Extcaps -> SUBSET {"stdout", "stderr"}]
      /\ \A d \in Extcaps : ~p[d] => proc[d] = "dead"
  <2>1. CASE pid[e] /\ proc[e] = "dead" /\ p = [pid EXCEPT ![e] = FALSE] /\ w = watches
    BY <1>0, <2>1 DEF ExtcapType, DownInv
  <2>2. ASSUME NEW x \in {"stdout", "stderr"}, w = [watches EXCEPT ![e] = @ \ {x}], p = pid
        PROVE  /\ p \in [Extcaps -> BOOLEAN] /\ w \in [Extcaps -> SUBSET {"stdout", "stderr"}]
               /\ \A d \in Extcaps : ~p[d] => proc[d] = "dead"
    BY <1>0, <2>2 DEF ExtcapType, DownInv
  <2> QED
    BY <1>1, <2>1, <2>2
<1>3. ~AllGone
  BY <1>1 DEF AllGone
<1>4. Active(ui) \/ fork
  <2>1. ui.state \in CapStates
    BY DEF Inv, UiInv, Valid, UiRecord
  <2> QED
    BY <1>0, <1>3, <2>1 DEF DownInv, Active, CapStates
<1>5. PICK f \in BOOLEAN : f = fork
  BY <1>0
<1>6. \/ \E timed, waits \in BOOLEAN : ProcessFinished(p, w, f, timed, waits)
      \/ /\ ~AllFinished(p, w) /\ UNCHANGED <<ui, unopened>>
         /\ fifo' \in [Extcaps -> {"unopened", "open", "gone"}]
         /\ timer' \in BOOLEAN /\ waitCbs' \in BOOLEAN /\ stopAfter' \in BOOLEAN /\ signal' \in BOOLEAN
  <2>1. CASE Finished1(p, w, e)
    <3>1. ProcessFinished(p, w, fork, timer, waitCbs) /\ timer \in BOOLEAN /\ waitCbs \in BOOLEAN
      BY <1>0, <1>1, <2>1 DEF WatchRemoved, LoopType
    <3>2. PICK t \in BOOLEAN, b \in BOOLEAN : t = timer /\ b = waitCbs
      BY <3>1
    <3>3. ProcessFinished(p, w, f, t, b)
      BY <1>5, <3>1, <3>2
    <3> QED
      BY <3>3
  <2>2. CASE ~Finished1(p, w, e)
    <3>1. UNCHANGED <<fifo, downVars, signal, ui, unopened>>
      BY <1>1, <2>2 DEF WatchRemoved
    <3>2. ~AllFinished(p, w)
      BY <2>2 DEF AllFinished
    <3> QED
      BY <1>0, <3>1, <3>2 DEF downVars, ExtcapType, LoopType
  <2> QED
    BY <2>1, <2>2
<1>7. ~f => child = "dead"
  BY <1>0, <1>5 DEF DownInv
<1>8. watching' => watching /\ f
  BY <1>0, <1>1, <1>5 DEF DownInv
<1>9. ExtcapType' /\ LoopType' /\ DownInv' /\ UiInv' /\ CountInv' /\ NameInv'
  <2>1. f = fork' /\ (f => fork) /\ (Active(ui) \/ f) /\ loop # "spin" /\ loop' \in {"idle", "wait"} /\ loop' # "wait"
        /\ watching' \in BOOLEAN /\ proc' \in [Extcaps -> {"run", "term", "dead"}]
        /\ \A d \in Extcaps : ~p[d] => proc'[d] = "dead"
    BY <1>0, <1>1, <1>2, <1>4, <1>5 DEF ExtcapType
  <2> QED
    BY <1>1, <1>2, <1>6, <1>7, <1>8, <2>1, EndKeeps
<1> QED
  BY <1>9 DEF Side

(* The timeout.                                                            *)
LEMMA TimeoutKeeps ==
    ASSUME Inv, TerminateTimeout, NEW w, w = watches'
    PROVE  Side'
<1>0. /\ ExtcapType /\ LoopType /\ DownInv /\ fork \in BOOLEAN /\ watching \in BOOLEAN
  BY DEF Inv, Typing, LoopType
<1>1. /\ UNCHANGED <<setup, pipeVars, ChildState, rt, asked, told, switched, loop, watching, fork, pid>>
      /\ loop = "idle" /\ timer
      /\ proc' = [e \in Extcaps |-> IF pid[e] THEN "dead" ELSE proc[e]]
      /\ w = [e \in Extcaps |-> {}]
  BY DEF TerminateTimeout, Silent, ChildState, IdleLoop
<1>2. PICK p : p = pid
  OBVIOUS
<1>3. p \in [Extcaps -> BOOLEAN] /\ w \in [Extcaps -> SUBSET {"stdout", "stderr"}]
      /\ proc' \in [Extcaps -> {"run", "term", "dead"}] /\ \A d \in Extcaps : ~p[d] => proc'[d] = "dead"
  BY <1>0, <1>1, <1>2 DEF ExtcapType, DownInv
<1>4. Active(ui) \/ fork
  <2>1. ui.state \in CapStates /\ ~AllGone
    BY <1>1 DEF Inv, UiInv, Valid, UiRecord, AllGone
  <2> QED
    BY <1>0, <2>1 DEF DownInv, Active, CapStates
<1>5. PICK f \in BOOLEAN : f = fork
  BY <1>0
<1>6. \/ \E timed, waits \in BOOLEAN : ProcessFinished(p, w, f, timed, waits)
      \/ /\ ~AllFinished(p, w) /\ UNCHANGED <<ui, unopened>>
         /\ fifo' \in [Extcaps -> {"unopened", "open", "gone"}]
         /\ timer' \in BOOLEAN /\ waitCbs' \in BOOLEAN /\ stopAfter' \in BOOLEAN /\ signal' \in BOOLEAN
  <2>1. CASE \A e \in Extcaps : ~pid[e]
    <3>1. ProcessFinished(p, w, f, FALSE, TRUE)
      BY <1>2, <1>5, <2>1 DEF TerminateTimeout
    <3>2. PICK t \in BOOLEAN, b \in BOOLEAN : t = FALSE /\ b = TRUE
      OBVIOUS
    <3>3. ProcessFinished(p, w, f, t, b)
      BY <3>1, <3>2
    <3> QED
      BY <3>3
  <2>2. CASE ~(\A e \in Extcaps : ~pid[e])
    <3>1. timer' = FALSE /\ waitCbs' = TRUE /\ UNCHANGED <<fifo, stopAfter, signal, ui, unopened>>
      BY <2>2 DEF TerminateTimeout
    <3>2. ~AllFinished(p, w)
      BY <1>2, <2>2 DEF AllFinished, Finished1
    <3> QED
      BY <1>0, <3>1, <3>2 DEF ExtcapType, LoopType
  <2> QED
    BY <2>1, <2>2
<1>7. ~f => child = "dead"
  BY <1>0, <1>5 DEF DownInv
<1>8. watching' => watching /\ f
  BY <1>0, <1>1, <1>5 DEF DownInv
<1>9. ExtcapType' /\ LoopType' /\ DownInv' /\ UiInv' /\ CountInv' /\ NameInv'
  <2>1. f = fork' /\ (f => fork) /\ (Active(ui) \/ f) /\ loop # "spin" /\ loop' \in {"idle", "wait"} /\ loop' # "wait"
        /\ watching' \in BOOLEAN /\ p = pid'
    BY <1>0, <1>1, <1>2, <1>4, <1>5
  <2> QED
    BY <1>1, <1>3, <1>6, <1>7, <1>8, <2>1, EndKeeps
<1> QED
  BY <1>9 DEF Side

(* dumpcap has been waited for.                                            *)
LEMMA ReapedKeeps ==
    ASSUME Inv, ChildReaped
    PROVE  Side'
<1>0. /\ ExtcapType /\ LoopType /\ DownInv /\ watching /\ fork /\ Active(ui)
  BY DEF Inv, Typing, ChildReaped, DownInv
<1>1. /\ UNCHANGED <<setup, pipeVars, ChildState, rt, asked, told, switched, pid, watches>>
      /\ loop = "wait" /\ child = "dead" /\ loop' = "idle" /\ watching' = FALSE /\ fork' = FALSE
  BY DEF ChildReaped, Silent, ChildState
<1>2. PICK p, w : p = pid /\ w = watches
  OBVIOUS
<1>3. PICK f \in BOOLEAN : f = FALSE
  OBVIOUS
<1>4. /\ proc' \in [Extcaps -> {"run", "term", "dead"}] /\ (\A d \in Extcaps : ~p[d] => proc'[d] = "dead")
      /\ \/ \E timed, waits \in BOOLEAN : ProcessFinished(p, w, f, timed, waits)
         \/ /\ ~AllFinished(p, w) /\ UNCHANGED <<ui, unopened>>
            /\ fifo' \in [Extcaps -> {"unopened", "open", "gone"}]
            /\ timer' \in BOOLEAN /\ waitCbs' \in BOOLEAN /\ stopAfter' \in BOOLEAN /\ signal' \in BOOLEAN
  <2>1. CASE AllFinished(pid, watches)
    <3>1. ProcessFinished(pid, watches, FALSE, timer, waitCbs) /\ proc' = proc
      BY <2>1 DEF ChildReaped
    <3>2. PICK t \in BOOLEAN, b \in BOOLEAN : t = timer /\ b = waitCbs
      BY <1>0 DEF LoopType
    <3>3. ProcessFinished(p, w, f, t, b)
      BY <1>2, <1>3, <3>1, <3>2
    <3> QED
      BY <1>0, <1>2, <3>1, <3>3 DEF ExtcapType, DownInv
  <2>2. CASE ~AllFinished(pid, watches)
    <3>1. RequestStop /\ UNCHANGED <<stopAfter, signal, ui, unopened>>
      BY <2>2 DEF ChildReaped
    <3>2. fifo' \in [Extcaps -> {"unopened", "open", "gone"}]
      <4>1. fifo' = [e \in Extcaps |-> IF \A d \in 1..e : Finished1(pid, watches, d) THEN "gone" ELSE fifo[e]]
        BY <3>1 DEF RequestStop, RemoveFifos
      <4> QED
        BY <1>0, <4>1 DEF ExtcapType
    <3>3. \/ UNCHANGED <<proc, timer>>
          \/ timer' = TRUE /\ proc' = [e \in Extcaps |-> IF pid[e] /\ proc[e] = "run" THEN "term" ELSE proc[e]]
      BY <3>1 DEF RequestStop
    <3>4. /\ proc' \in [Extcaps -> {"run", "term", "dead"}] /\ (\A d \in Extcaps : ~p[d] => proc'[d] = "dead")
          /\ timer' \in BOOLEAN
      BY <1>0, <1>2, <3>3 DEF ExtcapType, DownInv, LoopType
    <3>5. waitCbs' = waitCbs
      BY <3>1 DEF RequestStop
    <3> QED
      BY <1>0, <1>2, <2>2, <3>1, <3>2, <3>4, <3>5 DEF LoopType
  <2> QED
    BY <2>1, <2>2
<1>5. ExtcapType' /\ LoopType' /\ DownInv' /\ UiInv' /\ CountInv' /\ NameInv'
  <2>1. f = fork' /\ (f => fork) /\ (~f => child = "dead") /\ (Active(ui) \/ f) /\ loop # "spin"
        /\ loop' \in {"idle", "wait"} /\ loop' # "wait"
        /\ watching' \in BOOLEAN /\ (watching' => watching /\ f) /\ p = pid' /\ w = watches'
        /\ p \in [Extcaps -> BOOLEAN] /\ w \in [Extcaps -> SUBSET {"stdout", "stderr"}]
    BY <1>0, <1>1, <1>2, <1>3 DEF ExtcapType
  <2> QED
    BY <1>1, <1>4, <2>1, EndKeeps
<1> QED
  BY <1>5 DEF Side

(* An extcap opens its fifo, or exits.                                     *)
LEMMA ExtcapKeeps ==
    ASSUME Inv, NEW e \in Extcaps, ExtcapOpens(e) \/ ExtcapExits(e)
    PROVE  Side'
<1>0. /\ ExtcapType /\ LoopType /\ DownInv /\ UiInv
  BY DEF Inv, Typing
<1>1. /\ UNCHANGED <<setup, pipeVars, ChildState, told, pid, watches, loop, watching, fork, stopAfter, waitCbs, timer,
                     signal, rt, ui, asked, switched, unopened>>
      /\ proc[e] # "dead" /\ Extcaps' = Extcaps
      /\ \/ fifo' = [fifo EXCEPT ![e] = "open"] /\ proc' = proc
         \/ proc' = [proc EXCEPT ![e] = "dead"] /\ fifo' = fifo
  BY DEF ExtcapOpens, ExtcapExits, childVars, downVars, uiVars, ChildState, Extcaps
<1>2. ExtcapType'
  BY <1>0, <1>1 DEF ExtcapType
<1>3. LoopType'
  BY <1>0, <1>1 DEF LoopType
<1>4. UiInv'
  BY <1>0, <1>1 DEF UiInv, ChildState
<1>5. ~AllGone /\ \A d \in Extcaps : ~pid[d] => proc'[d] = "dead"
  BY <1>0, <1>1 DEF AllGone, DownInv, ExtcapType
<1>6. DownInv'
  <2>1. ~(ui.state = "stopped" /\ ~fork)
    BY <1>0, <1>5 DEF DownInv
  <2>2. AllFinished(pid, watches)' = AllFinished(pid, watches) /\ child' = child
    BY <1>1 DEF AllFinished, Finished1, ChildState
  <2> QED
    BY <1>0, <1>1, <1>5, <2>1, <2>2 DEF DownInv, Active
<1>7. CountInv' /\ NameInv'
  BY <1>1, QuietCounts DEF Inv
<1> QED
  BY <1>2, <1>3, <1>4, <1>6, <1>7 DEF Side

(* The pipe has ended, the user changes the mode, or nothing happens.      *)
LEMMA QuietKeeps ==
    ASSUME Inv, PipeEnd \/ UserSwitches \/ UNCHANGED vars
    PROVE  Side'
<1>0. /\ ExtcapType /\ LoopType /\ DownInv /\ UiInv
  BY DEF Inv, Typing
<1>1. /\ UNCHANGED <<setup, pipeVars, ChildState, told, extcapVars, watching, fork, downVars, signal, ui, asked, unopened>>
      /\ \/ loop = "idle" /\ loop' = "wait" /\ watching /\ rt' = rt /\ switched' = switched
         \/ switched' = TRUE /\ rt' = ~rt /\ loop' = loop
         \/ UNCHANGED <<loop, rt, switched>>
  BY DEF PipeEnd, UserSwitches, vars, childVars, uiVars, downVars, extcapVars, ChildState, IdleLoop
<1>2. ExtcapType'
  BY <1>0, <1>1 DEF ExtcapType, extcapVars, Extcaps
<1>3. LoopType'
  <2>1. rt' \in BOOLEAN /\ switched' \in BOOLEAN
    <3>1. CASE rt' = ~rt /\ switched' = TRUE
      BY <3>1
    <3>2. CASE rt' = rt /\ switched' = switched
      BY <1>0, <3>2 DEF LoopType
    <3> QED
      BY <1>1, <3>1, <3>2
  <2>2. loop' \in {"idle", "wait", "spin"}
    BY <1>0, <1>1 DEF LoopType
  <2> QED
    BY <1>0, <1>1, <2>1, <2>2 DEF LoopType, downVars
<1>4. UiInv'
  <2>1. disk' = disk /\ lost' = lost
    BY <1>1 DEF ChildState
  <2> QED
    BY <1>0, <1>1, <2>1 DEF UiInv
<1>5. DownInv'
  <2>1. AllFinished(pid, watches)' = AllFinished(pid, watches) /\ child' = child /\ Extcaps' = Extcaps
        /\ (AllGone => AllGone')
    BY <1>1 DEF AllFinished, Finished1, ChildState, Extcaps, extcapVars, AllGone, downVars
  <2> QED
    BY <1>0, <1>1, <2>1 DEF DownInv, extcapVars, Active
<1>6. CountInv' /\ NameInv'
  BY <1>1, QuietCounts DEF Inv
<1> QED
  BY <1>2, <1>3, <1>4, <1>5, <1>6 DEF Side

(* The information window goes on reading.                                 *)
LEMMA SpinKeeps ==
    ASSUME Inv, InfoSpin
    PROVE  Side'
<1>0. /\ ExtcapType /\ LoopType /\ DownInv /\ UiInv
  BY DEF Inv, Typing
<1>1. /\ UNCHANGED <<setup, pipeVars, ChildState, told, extcapVars, watching, fork, downVars, signal, asked, unopened,
                     rt, switched>>
      /\ loop = "spin" /\ disk' = disk /\ lost' = lost
      /\ ui' = InfoRead(ui, ui.spin, disk) /\ loop' = IF ui'.spin > 0 THEN "spin" ELSE "idle"
  BY DEF InfoSpin, childVars, ChildState
<1>2. PICK s, n, d : s = ui /\ n = ui.spin /\ d = disk
  OBVIOUS
<1>3. d \in Disk /\ Valid(s, d) /\ n \in Nat
  BY <1>0, <1>2 DEF Inv, Typing, ChildType, Disk, UiInv, Valid, UiRecord
<1>4. /\ Valid(ui', d)
      /\ ui'.state = ui.state /\ ui'.save = ui.save /\ ui'.pending = ui.pending /\ ui'.count = ui.count
      /\ ui'.info = ui.info /\ ui'.cf = ui.cf /\ ui'.name = ui.name /\ ui'.broken = ui.broken
      /\ ui'.read = ui.read /\ (ui.info # 0 => Waits(ui.seen, n, d[ui.info], ui'.seen, ui'.spin))
  <2>1. PICK r : r = InfoRead(s, n, d)
    OBVIOUS
  <2>2. /\ Valid(r, d)
        /\ r.state = s.state /\ r.save = s.save /\ r.pending = s.pending /\ r.count = s.count
        /\ r.info = s.info /\ r.cf = s.cf /\ r.name = s.name /\ r.broken = s.broken
        /\ r.read = s.read /\ (s.info # 0 => Waits(s.seen, n, d[s.info], r.seen, r.spin))
    BY <1>3, <2>1, InfoReadIs
  <2>3. ui' = r
    BY <1>1, <1>2, <2>1
  <2> QED
    BY <1>2, <2>2, <2>3
<1>5. loop' \in {"idle", "spin"} /\ (loop' # "spin" => ui'.spin = 0)
  <2>1. ui'.spin \in Nat
    BY <1>4 DEF Valid, UiRecord
  <2> QED
    BY <1>1, <2>1
<1>6. ExtcapType'
  BY <1>0, <1>1 DEF ExtcapType, extcapVars, Extcaps
<1>7. LoopType'
  BY <1>0, <1>1, <1>5 DEF LoopType, downVars
<1>8. UiInv'
  <2>1. InMode(ui, rt, told, lost) => InMode(ui', rt, told, lost)
    <3>1. ui.info # 0 => ui'.seen + ui'.spin = ui.seen + ui.spin
      BY <1>2, <1>4 DEF Waits
    <3> QED
      BY <1>4, <3>1 DEF InMode
  <2>2. Shape(ui) => Shape(ui')
    BY <1>4 DEF Shape
  <2>3. ReadsTold(ui, told, lost) => ReadsTold(ui', told, lost)
    BY <1>4 DEF ReadsTold
  <2> QED
    BY <1>0, <1>1, <1>2, <1>4, <1>5, <2>1, <2>2, <2>3 DEF UiInv
<1>9. DownInv'
  <2>1. AllFinished(pid, watches)' = AllFinished(pid, watches) /\ child' = child /\ Extcaps' = Extcaps
        /\ (AllGone => AllGone') /\ (Active(ui) => Active(ui'))
    BY <1>1, <1>4 DEF AllFinished, Finished1, ChildState, Extcaps, extcapVars, AllGone, downVars, Active
  <2> QED
    BY <1>0, <1>1, <1>4, <1>5, <2>1 DEF DownInv, extcapVars
<1>10. CountInv' /\ NameInv'
  BY <1>1, <1>4, QuietCounts DEF Inv
<1> QED
  BY <1>6, <1>7, <1>8, <1>9, <1>10 DEF Side

(* The user stops the capture, and may discard the file.                   *)
LEMMA StopKeeps ==
    ASSUME Inv, UserStops
    PROVE  Side'
<1>0. /\ ExtcapType /\ LoopType /\ DownInv /\ UiInv /\ ui.state \in CapStates
  BY DEF Inv, Typing, UiInv, Valid, UiRecord
<1>1. /\ UNCHANGED <<setup, pipeVars, ChildState, told, pid, watches, loop, watching, fork, unopened, rt, switched>>
      /\ ui.state # "stopped" /\ loop = "idle" /\ disk' = disk /\ lost' = lost /\ Extcaps' = Extcaps
      /\ asked' \in {"stop", "discard"}
      /\ ui' = ui \/ (ui.cf \in {"inprogress", "pending"} /\ ui' = Discard(ui))
  BY DEF UserStops, Silent, ChildState, IdleLoop, Extcaps
<1>2. /\ fifo' \in [Extcaps -> {"unopened", "open", "gone"}]
      /\ timer' \in BOOLEAN /\ waitCbs' \in BOOLEAN /\ signal' \in BOOLEAN /\ stopAfter' \in BOOLEAN
      /\ \/ proc' = proc
         \/ proc' = [e \in Extcaps |-> IF pid[e] /\ proc[e] = "run" THEN "term" ELSE proc[e]]
  <2>1. RemoveFifos(pid, watches)
    BY DEF UserStops, CaptureStop, RequestStop
  <2>2. fifo' \in [Extcaps -> {"unopened", "open", "gone"}]
    BY <1>0, <2>1 DEF RemoveFifos, ExtcapType
  <2>3. CaptureStop
    BY DEF UserStops
  <2>4. CASE AllFinished(pid, watches)
    BY <1>0, <2>2, <2>3, <2>4 DEF CaptureStop, LoopType
  <2>5. CASE ~AllFinished(pid, watches)
    <3>1. RequestStop /\ stopAfter' = TRUE /\ UNCHANGED signal
      BY <2>3, <2>5 DEF CaptureStop
    <3> QED
      BY <1>0, <2>2, <3>1 DEF RequestStop, LoopType
  <2> QED
    BY <2>4, <2>5
<1>3. proc' \in [Extcaps -> {"run", "term", "dead"}] /\ \A e \in Extcaps : ~pid[e] => proc'[e] = "dead"
  BY <1>0, <1>2 DEF ExtcapType, DownInv
<1>4. /\ Valid(ui', disk) /\ ui'.state = ui.state /\ ui'.save = ui.save /\ ui'.pending = ui.pending
      /\ ui'.count = ui.count /\ ui'.info = ui.info /\ ui'.seen = ui.seen /\ ui'.spin = ui.spin
      /\ ui'.name = ui.name /\ ui'.read = ui.read /\ ui'.broken = ui.broken
      /\ ui'.cf = ui.cf \/ (ui.cf \in {"inprogress", "pending"} /\ ui'.cf = "aborted")
  <2>1. PICK s, d : s = ui /\ d = disk
    OBVIOUS
  <2>2. /\ Valid(Discard(s), d) /\ Kept(s, Discard(s)) /\ Discard(s).cf = "aborted"
        /\ Discard(s).name = s.name /\ Discard(s).read = s.read /\ Discard(s).broken = s.broken
    BY <1>0, <2>1, DiscardIs DEF UiInv
  <2> QED
    BY <1>0, <1>1, <2>1, <2>2 DEF UiInv, Kept
<1>5. ExtcapType'
  BY <1>0, <1>1, <1>2, <1>3 DEF ExtcapType
<1>6. LoopType'
  BY <1>0, <1>1, <1>2 DEF LoopType
<1>7. DownInv'
  <2>1. Active(ui') /\ ui'.state # "stopped"
    BY <1>0, <1>1, <1>4 DEF Active, CapStates
  <2>2. AllFinished(pid, watches)' = AllFinished(pid, watches) /\ child' = child
    BY <1>1 DEF AllFinished, Finished1, ChildState
  <2> QED
    BY <1>0, <1>1, <1>3, <2>1, <2>2 DEF DownInv
<1>8. UiInv'
  <2>1. ~unopened \/ switched
    BY <1>0, <1>1 DEF UiInv
  <2>2. Shape(ui) => Shape(ui')
    BY <1>4 DEF Shape
  <2>3. ReadsTold(ui, told, lost) => ReadsTold(ui', told, lost)
    BY <1>4 DEF ReadsTold
  <2>4. InMode(ui, rt, told, lost) => InMode(ui', rt, told, lost)
    BY <1>4 DEF InMode
  <2> QED
    BY <1>0, <1>1, <1>4, <2>2, <2>3, <2>4 DEF UiInv
<1>9. CountInv' /\ NameInv'
  BY <1>1, <1>4, QuietCounts DEF Inv
<1> QED
  BY <1>5, <1>6, <1>7, <1>8, <1>9 DEF Side

(* A message is read by a session that is active.                          *)
LEMMA MessageStart ==
    ASSUME Inv, PipeMessage
    PROVE  /\ ReadBlock /\ watching /\ loop = "idle" /\ ~ui.broken /\ fork /\ Active(ui) /\ ui.spin = 0
           /\ unopened => switched
           /\ UNCHANGED <<setup, ChildState, extcapVars, fork, downVars, rt, asked, switched, disk, lost>>
<1>1. /\ ReadBlock /\ watching /\ loop = "idle" /\ ~ui.broken
      /\ UNCHANGED <<setup, ChildState, extcapVars, fork, downVars, rt, asked, switched, disk, lost>>
  BY DEF PipeMessage, IdleLoop, Silent, ChildState
<1>2. fork /\ Active(ui) /\ ui.state # "stopped"
  BY <1>1 DEF Inv, DownInv, Active
<1> QED
  BY <1>1, <1>2 DEF Inv, UiInv

(* After a message the session is active or dumpcap is told to stop.       *)
LEMMA ReadDown ==
    ASSUME Inv, PipeMessage, signal' \in BOOLEAN, unopened' \in BOOLEAN, loop' \in {"idle", "spin"},
           watching' \in BOOLEAN, (watching' /\ Active(ui')) \/ (~watching' /\ unopened')
    PROVE  ExtcapType' /\ LoopType' /\ DownInv'
<1>0. /\ ExtcapType /\ LoopType /\ DownInv /\ Extcaps' = Extcaps
      /\ fork /\ UNCHANGED <<setup, ChildState, extcapVars, fork, downVars, rt, asked, switched>>
  BY MessageStart DEF Inv, Typing, Extcaps
<1>1. ExtcapType'
  BY <1>0 DEF ExtcapType, extcapVars
<1>2. LoopType'
  BY <1>0 DEF LoopType, downVars
<1>3. DownInv'
  <2>1. Active(ui') => ui'.state # "stopped"
    BY DEF Active
  <2> QED
    BY <1>0, <2>1 DEF DownInv, extcapVars
<1> QED
  BY <1>1, <1>2, <1>3

(* What a whole message tells of is in the account.                        *)
LEMMA ReadCounts ==
    ASSUME Inv, PipeMessage, Whole, NEW p, p = pipe[1],
           ui'.count = ui.count + Told(p, 0), \A f \in Files : told'[f] = told[f] + Told(p, f),
           watching' => watching, unopened => unopened', watching' /\ ~unopened' => ui'.save = NameAfter(p, ui.save)
    PROVE  CountInv' /\ NameInv'
<1>0. /\ ReadBlock /\ watching /\ UNCHANGED <<setup, child, file, disk, buffered, lost, untold>>
      /\ Files' = Files /\ Typing /\ CountInv /\ NameInv /\ Out' = Out
  BY MessageStart, OutSame DEF Inv, ChildState, Files
<1>1. /\ Header \in Message /\ p \in Pieces /\ p.msg = Header /\ p.part = 1
      /\ Header.kind = "file" => Header.file \in Files
      /\ Header.kind = "count" => /\ Header.file \in Files
                                  /\ ui.count + Header.n <= setup.packets
                                  /\ told[Header.file] + Header.n <= Out[Header.file]
      /\ \A i \in 1..Len(pipe') : HasFile(pipe'[i])
      /\ \E g, t : /\ Ledger(g, pipe', [f \in 0..MaxFile |-> Account[f] + Told(p, f)])
                   /\ t = g[Len(pipe')] /\ Covered(t)
      /\ ~unopened =>
            /\ Fits(p, ui.save)
            /\ \E g, n : Names(g, pipe', NameAfter(p, ui.save)) /\ n = g[Len(pipe')] /\ Named(n)
  BY <1>0, ReadTells
<1>2. /\ ui.count \in Nat /\ ui.save \in 0..MaxFile /\ setup.packets \in Nat
      /\ \A f \in Files : told[f] \in Nat /\ Out[f] \in Nat
  BY <1>0, SetupFields, OutIs DEF Typing, UiType, UiRecord
<1>3. Account' = [f \in 0..MaxFile |-> Account[f] + Told(p, f)]
  <2>1. ASSUME NEW f \in 0..MaxFile
        PROVE  (IF f = 0 THEN ui'.count ELSE told'[f]) = Account[f] + Told(p, f)
    BY DEF Account, Files
  <2>2. Account' = [f \in 0..MaxFile |-> IF f = 0 THEN ui'.count ELSE told'[f]]
    BY DEF Account
  <2> QED
    BY <2>1, <2>2
<1>4. ASSUME NEW f PROVE Told(p, f) = IF Header.kind = "count" /\ (f = 0 \/ Header.file = f) THEN Header.n ELSE 0
  BY <1>1 DEF Told, IsHeader
<1>5. ui'.count <= setup.packets
  <2>1. CASE Header.kind = "count"
    BY <1>1, <1>4, <2>1
  <2>2. CASE Header.kind # "count"
    <3>1. Told(p, 0) = 0
      BY <1>4, <2>2
    <3> QED
      BY <1>0, <1>2, <3>1 DEF CountInv
  <2> QED
    BY <2>1, <2>2
<1>6. ASSUME NEW f \in Files PROVE told'[f] <= Out[f]
  <2>1. CASE Header.kind = "count" /\ Header.file = f
    BY <1>1, <1>4, <2>1
  <2>2. CASE ~(Header.kind = "count" /\ Header.file = f)
    <3>1. f # 0
      BY SyncPipeAssumption DEF Files
    <3>2. Told(p, f) = 0
      BY <1>4, <2>2, <3>1
    <3> QED
      BY <1>0, <1>2, <3>2 DEF CountInv
  <2> QED
    BY <2>1, <2>2
<1>7. ASSUME NEW t, Covered(t) PROVE Covered(t)'
  BY <1>0, <1>7 DEF Covered, CountedFile
<1>8. ASSUME NEW n, Named(n) PROVE Named(n)'
  BY <1>0, <1>8 DEF Named
<1>9. CountInv'
  <2>1. \E g, t : Ledger(g, pipe', Account') /\ t = g[Len(pipe')] /\ Covered(t)'
    BY <1>1, <1>3, <1>7
  <2> QED
    BY <1>0, <1>1, <1>5, <1>6, <2>1 DEF CountInv
<1>10. NameInv'
  <2>1. ASSUME watching', ~unopened'
        PROVE  \E g, n : Names(g, pipe', ui'.save) /\ n = g[Len(pipe')] /\ Named(n)'
    <3>1. ~unopened /\ ui'.save = NameAfter(p, ui.save)
      BY <2>1
    <3> QED
      BY <1>1, <1>8, <3>1
  <2>2. ASSUME watching', ~unopened', NEW f \in Files, f > ui'.save PROVE told'[f] = 0
    <3>1. ~unopened /\ ui'.save = NameAfter(p, ui.save) /\ Fits(p, ui.save) /\ ~skewed
      BY <1>0, <1>1, <2>2, BlockIs DEF Typing, PipeType
    <3>2. f > ui.save /\ Told(p, f) = 0
      <4>1. CASE Header.kind = "file"
        <5>1. IsHeader(p, "file") /\ Header.file \in Nat /\ f \in Nat
          BY <1>1, <4>1, SyncPipeAssumption DEF IsHeader, Files
        <5>2. f > Header.file /\ Header.file > ui.save
          BY <1>1, <2>2, <3>1, <5>1 DEF NameAfter, Fits
        <5>3. ui.save \in Nat
          BY <1>2, SyncPipeAssumption
        <5> QED
          BY <1>4, <4>1, <5>1, <5>2, <5>3
      <4>2. CASE Header.kind # "file"
        <5>1. ui'.save = ui.save
          BY <1>1, <3>1, <4>2 DEF NameAfter, IsHeader
        <5>2. Header.kind = "count" => Header.file = ui.save
          BY <1>1, <3>1 DEF Fits, IsHeader
        <5>3. f # 0 /\ f # ui.save
          BY <1>2, <2>2, <5>1, SyncPipeAssumption DEF Files
        <5> QED
          BY <1>4, <2>2, <5>1, <5>2, <5>3
      <4> QED
        BY <4>1, <4>2
    <3>3. told[f] = 0
      BY <1>0, <3>1, <3>2 DEF NameInv
    <3> QED
      BY <3>2, <3>3
  <2> QED
    BY <1>0, <2>1, <2>2 DEF NameInv
<1> QED
  BY <1>9, <1>10

(* Pieces of two messages are taken for one: the account is lost with it,  *)
(* but nothing more is read than is there.                                 *)
LEMMA SkewedKeeps ==
    ASSUME Inv, PipeMessage, ~Whole
    PROVE  Side'
<1>0. /\ UiInv /\ LoopType /\ disk \in Disk /\ disk' = disk /\ lost' = lost /\ Valid(ui, disk)
      /\ ReadBlock /\ watching /\ loop = "idle" /\ ~ui.broken /\ fork /\ Active(ui) /\ ui.spin = 0 /\ (unopened => switched)
      /\ UNCHANGED <<setup, rt, switched>> /\ Files' = Files /\ Out' = Out
  BY MessageStart, OutSame DEF Inv, Typing, ChildType, Disk, UiInv, Files
<1>1. /\ skewed' /\ told' = told /\ loop' = loop
      /\ \/ UNCHANGED <<ui, watching, signal, unopened>>
         \/ /\ ui' = Closed(Finished(Must(ui, Active(ui)), disk), [i \in 1..2 |-> FALSE], disk)
            /\ watching' = FALSE /\ signal' = TRUE /\ unopened' = TRUE
  BY <1>0 DEF PipeMessage, DeliverSkewed, ReadBlock
<1>2. CASE UNCHANGED <<ui, watching, signal, unopened>>
  <2>1. UiInv'
    BY <1>0, <1>1, <1>2 DEF UiInv
  <2>2. Active(ui')
    BY <1>0, <1>2 DEF Active
  <2>3. CountInv' /\ NameInv'
    BY <1>0, <1>1, <1>2 DEF Inv, CountInv, NameInv
  <2>4. ExtcapType' /\ LoopType' /\ DownInv'
    BY <1>0, <1>1, <1>2, <2>2, ReadDown DEF LoopType
  <2> QED
    BY <2>1, <2>3, <2>4 DEF Side
<1>3. CASE /\ ui' = Closed(Finished(Must(ui, Active(ui)), disk), [i \in 1..2 |-> FALSE], disk)
           /\ watching' = FALSE /\ signal' = TRUE /\ unopened' = TRUE
  <2>1. PICK s, d : s = ui /\ d = disk
    OBVIOUS
  <2>2. PICK o : o = [i \in 1..2 |-> FALSE]
    OBVIOUS
  <2>3. o \in Open2
    BY <2>2 DEF Open2
  <2>4. Must(s, Active(s)) = s
    BY <1>0, <2>1 DEF Must
  <2>5. PICK x : x = Finished(s, d)
    OBVIOUS
  <2>6. PICK r : r = Closed(x, o, d)
    OBVIOUS
  <2>7. d \in Disk /\ Valid(s, d)
    BY <1>0, <2>1
  <2>8. /\ Valid(x, d) /\ Kept(s, x) /\ (s.save # 0 => x.cf \in {"closed", "pending"}) /\ (s.save = 0 => x = s)
    BY <2>5, <2>7, FinishedIs
  <2>9. /\ Valid(r, d) /\ r.count = x.count /\ r.spin = x.spin /\ r.state = "stopped" /\ r.save = 0 /\ r.info = 0
        /\ r.cf = "inprogress" => x.cf = "inprogress"
    BY <2>3, <2>6, <2>7, <2>8, ClosedIs
  <2>10. ui' = r
    BY <1>3, <2>1, <2>2, <2>4, <2>5, <2>6
  <2>11. ~switched => r.cf # "inprogress"
    <3>1. s.save = 0 /\ ~switched => s.cf # "inprogress"
      BY <1>0, <2>1 DEF UiInv, Shape, Active
    <3> QED
      BY <2>8, <2>9, <3>1
  <2>12. ReadsTold(ui', told, lost) \/ switched
    BY <2>10, <2>11 DEF ReadsTold
  <2>13. UiInv'
    BY <1>0, <1>1, <1>3, <2>1, <2>8, <2>9, <2>10, <2>12 DEF UiInv, Kept
  <2>14. CountInv'
    <3>1. ui'.count = ui.count
      BY <2>1, <2>8, <2>9, <2>10 DEF Kept
    <3> QED
      BY <1>0, <1>1, <1>3, <3>1 DEF Inv, CountInv
  <2>15. NameInv'
    BY <1>3 DEF NameInv
  <2>16. ExtcapType' /\ LoopType' /\ DownInv'
    BY <1>0, <1>1, <1>3, ReadDown DEF LoopType
  <2> QED
    BY <2>13, <2>14, <2>15, <2>16 DEF Side
<1> QED
  BY <1>1, <1>2, <1>3

(* An error, the drops, or a line of the log: the session expects it.      *)
LEMMA TextKeeps ==
    ASSUME Inv, PipeMessage, Whole, Header.kind \in {"error", "drops", "log"}
    PROVE  Side'
<1>0. /\ UiInv /\ LoopType /\ disk' = disk /\ lost' = lost /\ Valid(ui, disk) /\ Typing /\ CountInv /\ NameInv
      /\ ReadBlock /\ watching /\ loop = "idle" /\ ~ui.broken /\ fork /\ Active(ui) /\ ui.spin = 0 /\ (unopened => switched)
      /\ UNCHANGED <<setup, rt, switched>>
  BY MessageStart DEF Inv, Typing, UiInv
<1>1. /\ UNCHANGED <<loop, told, watching, signal, unopened>>
      /\ \/ Header.kind = "drops" /\ ui' = Must(ui, ui.state = "running")
         \/ ui' = ui
  <2>1. Deliver(Header)
    BY DEF PipeMessage
  <2>2. CASE Header.kind = "error"
    <3>1. /\ UNCHANGED <<loop, told, watching, signal, unopened>> /\ ui' = Must(ui, Active(ui))
      BY <2>1, <2>2 DEF Deliver
    <3> QED
      BY <1>0, <3>1 DEF Must
  <2>3. CASE Header.kind = "drops"
    BY <2>1, <2>3 DEF Deliver
  <2>4. CASE Header.kind = "log"
    BY <2>1, <2>4 DEF Deliver
  <2> QED
    BY <2>2, <2>3, <2>4
<1>2. PICK p : p = pipe[1]
  OBVIOUS
<1>3. p.msg = Header /\ p.part = 1 /\ (~unopened => Fits(p, ui.save))
  BY <1>0, <1>2, ReadTells
<1>4. ui' = ui \/ (switched /\ ui' = Break(ui))
  <2>1. CASE Header.kind = "drops" /\ ui' = Must(ui, ui.state = "running")
    <3>1. CASE switched
      BY <2>1, <3>1 DEF Must
    <3>2. CASE ~switched
      <4>1. ui.save # 0 /\ Shape(ui)
        BY <1>0, <1>3, <2>1, <3>2 DEF Fits, IsHeader, UiInv
      <4>2. ui.state = "running"
        BY <1>0, <4>1 DEF Shape, Active
      <4> QED
        BY <2>1, <4>2 DEF Must
    <3> QED
      BY <3>1, <3>2
  <2> QED
    BY <1>1, <2>1
<1>5. /\ Valid(ui', disk) /\ ui'.state = ui.state /\ ui'.save = ui.save /\ ui'.count = ui.count
      /\ ui'.info = ui.info /\ ui'.spin = ui.spin
      /\ ui'.broken => ui' = ui \/ switched
      /\ ~ui'.broken => ui' = ui
  <2>1. CASE ui' = ui
    BY <1>0, <2>1
  <2>2. CASE switched /\ ui' = Break(ui)
    <3>1. PICK s, d : s = ui /\ d = disk
      OBVIOUS
    <3>2. PICK b \in BOOLEAN : b = FALSE
      OBVIOUS
    <3>3. Break(s) = Must(s, b)
      BY <3>2 DEF Must
    <3>4. /\ Valid(Must(s, b), d) /\ Kept(s, Must(s, b)) /\ Must(s, b).broken = (s.broken \/ ~b)
      BY <1>0, <3>1, MustIs
    <3> QED
      BY <2>2, <3>1, <3>2, <3>3, <3>4 DEF Kept
  <2> QED
    BY <1>4, <2>1, <2>2
<1>6. UiInv'
  BY <1>0, <1>1, <1>5 DEF UiInv
<1>7. ExtcapType' /\ LoopType' /\ DownInv'
  <2>1. Active(ui')
    BY <1>0, <1>5 DEF Active
  <2> QED
    BY <1>0, <1>1, <2>1, ReadDown DEF LoopType
<1>8. CountInv' /\ NameInv'
  <2>1. \A f : Told(p, f) = 0
    BY <1>3 DEF Told, IsHeader
  <2>2. NameAfter(p, ui.save) = ui.save
    BY <1>3 DEF NameAfter, IsHeader
  <2>3. ui'.count = ui.count + Told(p, 0)
    BY <1>0, <1>5, <2>1 DEF Valid, UiRecord
  <2>4. \A f \in Files : told'[f] = told[f] + Told(p, f)
    <3>1. \A f \in Files : told[f] \in Nat
      BY <1>0 DEF Typing, UiType
    <3> QED
      BY <1>1, <2>1, <3>1
  <2> QED
    BY <1>1, <1>2, <1>5, <2>2, <2>3, <2>4, ReadCounts
<1> QED
  BY <1>6, <1>7, <1>8 DEF Side

(* A file is named: nothing was told of it yet.  When it cannot be opened  *)
(* the session is closed.                                                  *)
LEMMA FileKeeps ==
    ASSUME Inv, PipeMessage, Whole, Header.kind = "file"
    PROVE  Side'
<1>0. /\ UiInv /\ LoopType /\ disk' = disk /\ lost' = lost /\ disk \in Disk /\ Typing /\ CountInv /\ NameInv
      /\ ReadBlock /\ watching /\ loop = "idle" /\ ~ui.broken /\ fork /\ Active(ui) /\ ui.spin = 0 /\ (unopened => switched)
      /\ UNCHANGED <<setup, rt, switched>> /\ ~skewed
  BY MessageStart, BlockIs DEF Inv, Typing, ChildType, Disk, PipeType
<1>1. PICK p : p = pipe[1]
  OBVIOUS
<1>2. /\ p.msg = Header /\ p.part = 1 /\ Header.file \in Files /\ Header.kind = "file"
      /\ ~unopened => Fits(p, ui.save)
  BY <1>0, <1>1, ReadTells
<1>a. Header.file \in Files /\ rt \in BOOLEAN /\ setup.info \in BOOLEAN
  BY <1>0, <1>2, SetupFields DEF LoopType, Typing
<1>b. PICK s : s = ui
  OBVIOUS
<1>c. PICK d \in Disk, f \in Files, b \in BOOLEAN, info \in BOOLEAN :
         d = disk /\ f = Header.file /\ b = rt /\ info = setup.info
  BY <1>0, <1>a
<1>3. s = ui /\ d = disk /\ f = Header.file /\ b = rt /\ info = setup.info
  BY <1>b, <1>c
<1>4. /\ d \in Disk /\ Valid(s, d) /\ f \in Files /\ b \in BOOLEAN /\ info \in BOOLEAN /\ f # 0
  <2>1. f # 0
    BY <1>2, <1>3, SyncPipeAssumption DEF Files
  <2> QED
    BY <1>0, <1>2, <1>3, <2>1, SetupFields DEF UiInv, LoopType, Typing
<1>5. PICK o \in Opens(Header.file) :
         LET r == NewFile(ui, Header.file, rt, setup.info, o, disk) IN
           /\ IF r.ok THEN ui' = r.s /\ UNCHANGED <<watching, signal>>
              ELSE ui' = Closed(r.s, o, disk) /\ watching' = FALSE /\ signal' = TRUE
           /\ unopened' = (unopened \/ ~r.ok)
           /\ UNCHANGED <<loop, told>>
  BY <1>2 DEF PipeMessage, Deliver
<1>6. o \in Open2
  BY OpensIs
<1>7. PICK r : r = NewFile(s, f, b, info, o, d)
  OBVIOUS
<1>8. PICK c : c = Closed(r.s, o, d)
  OBVIOUS
<1>9. /\ UNCHANGED <<loop, told>> /\ unopened' = (unopened \/ ~r.ok)
      /\ r.ok => ui' = r.s /\ UNCHANGED <<watching, signal>>
      /\ ~r.ok => ui' = c /\ watching' = FALSE /\ signal' = TRUE
  BY <1>3, <1>5, <1>7, <1>8
<1>10. Must(s, Active(s)) = s
  BY <1>0, <1>3 DEF Must
<1>11. /\ r.ok \in BOOLEAN /\ Valid(r.s, d) /\ r.s.count = s.count /\ r.s.spin = s.spin
       /\ r.ok => /\ r.s.state = "running" /\ r.s.save = f
                  /\ info => r.s.info = f /\ r.s.seen = 0
                  /\ ~info => r.s.info = s.info /\ r.s.seen = s.seen
                  /\ b => r.s.cf = "inprogress" /\ r.s.name = f /\ r.s.read = 0 /\ r.s.pending = s.pending
                  /\ ~b => r.s.cf = Finished(s, d).cf /\ r.s.name = Finished(s, d).name
                  /\ Active(s) /\ (s.save = 0 => s.cf # "inprogress") => r.s.broken = s.broken
       /\ ~r.ok => /\ r.s.cf = "inprogress" /\ s.cf # "inprogress" => r.s.name = f /\ r.s.read = 0
                   /\ r.s.cf = "inprogress" /\ s.save # 0 => r.s.name = f /\ r.s.read = 0
  <2>1. FileNamed(s, f, b, info, d, r)
    BY <1>4, <1>6, <1>7, NewFileIs
  <2> QED
    BY <1>10, <2>1 DEF FileNamed
<1>12. ~unopened => told[f] = 0 /\ (s.save = 0 => s.state = "preparing" /\ s.cf = "closed" /\ s.name = 0 /\ s.pending = 0)
  <2>1. ASSUME ~unopened PROVE told[f] = 0
    <3>1. Header.file > ui.save
      BY <1>2, <2>1 DEF Fits, IsHeader
    <3> QED
      BY <1>0, <1>3, <1>4, <2>1, <3>1 DEF NameInv
  <2>2. ASSUME ~unopened, s.save = 0 PROVE s.state = "preparing" /\ s.cf = "closed" /\ s.name = 0 /\ s.pending = 0
    BY <1>0, <1>3, <2>2 DEF UiInv, Shape, Active
  <2> QED
    BY <2>1, <2>2
<1>13. CountInv' /\ NameInv'
  <2>1. \A g : Told(p, g) = 0
    BY <1>2 DEF Told, IsHeader
  <2>2. NameAfter(p, ui.save) = f
    BY <1>2, <1>3 DEF NameAfter, IsHeader
  <2>3. ui'.count = ui.count
    <3>1. c.count = r.s.count
      BY <1>4, <1>6, <1>8, <1>11, ClosedIs
    <3> QED
      BY <1>3, <1>9, <1>11, <3>1
  <2>4. ui'.count = ui.count + Told(p, 0)
    BY <1>0, <2>1, <2>3 DEF UiInv, Valid, UiRecord
  <2>5. \A g \in Files : told'[g] = told[g] + Told(p, g)
    <3>1. \A g \in Files : told[g] \in Nat
      BY <1>0 DEF Typing, UiType
    <3> QED
      BY <1>9, <2>1, <3>1
  <2>6. watching' => watching
    BY <1>0
  <2>7. watching' /\ ~unopened' => ui'.save = NameAfter(p, ui.save)
    BY <1>9, <1>11, <2>2
  <2>8. unopened => unopened'
    BY <1>9
  <2> QED
    BY <1>1, <2>4, <2>5, <2>6, <2>7, <2>8, ReadCounts
<1>14. CASE r.ok
  <2>1. UiInv'
    <3>1. Shape(r.s)
      BY <1>4, <1>11, <1>14 DEF Shape
    <3>2. ~unopened => r.s.broken = s.broken
      BY <1>0, <1>3, <1>11, <1>12, <1>14
    <3>3. r.s.broken => unopened' \/ switched
      BY <1>0, <1>3, <1>9, <3>2
    <3>4. ~setup.info => r.s.info = 0
      BY <1>0, <1>3, <1>11, <1>14 DEF UiInv
    <3>5. ASSUME ~switched PROVE InMode(r.s, rt, told, lost) /\ ReadsTold(r.s, told, lost)
      <4>1. ~unopened /\ told[f] = 0
        BY <1>0, <1>12, <3>5
      <4>2. s.state = "running" => InMode(s, b, told, lost)
        BY <1>0, <1>3, <3>5, <4>1 DEF UiInv
      <4>3. s.save = 0 \/ s.state = "running"
        BY <1>0, <1>3, <4>1 DEF Active, UiInv, Shape
      <4>4. b => s.pending = 0
        BY <1>12, <4>1, <4>2, <4>3 DEF InMode
      <4>5. ~b => Finished(s, d).cf \in {"closed", "pending", "aborted"} /\ Finished(s, d).name = 0
        <5>1. /\ s.cf \in {"closed", "pending"} => Finished(s, d) = s
              /\ s.save # 0 => Finished(s, d).cf \in {"closed", "pending"}
              /\ s.save # 0 /\ s.cf \notin {"closed", "pending"} =>
                    Finished(s, d).cf = "closed" /\ Finished(s, d).name = 0
              /\ s.save = 0 => Finished(s, d) = s
          BY <1>4, FinishedIs
        <5> QED
          BY <1>12, <4>1, <4>2, <4>3, <5>1 DEF InMode
      <4>6. r.s.info # 0 => info
        BY <1>3, <3>4
      <4>7. Near(0, told, lost, f) /\ r.s.spin = 0 /\ 0 + 0 = 0
        BY <1>0, <1>3, <1>11, <4>1, OutIs DEF Near
      <4>8. b => r.s.cf = "inprogress" /\ r.s.name = f /\ r.s.save = f /\ r.s.pending = 0 /\ r.s.read = 0
        BY <1>11, <1>14, <4>4
      <4>9. ~b => r.s.cf \in {"closed", "pending", "aborted"} /\ r.s.name = 0
        BY <1>3, <1>4, <1>11, <1>14, <4>5
      <4>10. r.s.info # 0 => r.s.info = f /\ r.s.save = f /\ r.s.seen + r.s.spin = 0
        BY <1>11, <1>14, <4>6, <4>7
      <4> QED
        BY <1>3, <4>7, <4>8, <4>9, <4>10, <1>4 DEF InMode, ReadsTold
    <3> QED
      BY <1>0, <1>3, <1>9, <1>11, <1>14, <3>1, <3>3, <3>4, <3>5 DEF UiInv
  <2>2. ExtcapType' /\ LoopType' /\ DownInv'
    <3>1. Active(ui')
      BY <1>9, <1>11, <1>14 DEF Active
    <3> QED
      BY <1>0, <1>9, <1>14, <3>1, ReadDown DEF LoopType
  <2> QED
    BY <1>13, <2>1, <2>2 DEF Side
<1>15. CASE ~r.ok
  <2>1. /\ Valid(c, d) /\ c.count = r.s.count /\ c.spin = r.s.spin
        /\ c.state = "stopped" /\ c.save = 0 /\ c.info = 0
        /\ c.cf = "inprogress" => r.s.cf = "inprogress" /\ c.name = r.s.name /\ c.read = r.s.read
    BY <1>4, <1>6, <1>8, <1>11, ClosedIs
  <2>2. UiInv'
    <3>1. ASSUME ~switched PROVE ReadsTold(c, told, lost)
      <4>1. ~unopened
        BY <1>0, <3>1
      <4>2. c.cf = "inprogress" => c.name = f /\ c.read = 0
        BY <1>11, <1>12, <1>15, <2>1, <4>1
      <4>3. told[f] = 0 /\ f # 0 /\ Near(0, told, lost, f)
        BY <1>0, <1>4, <1>12, <3>1, <4>1, OutIs DEF Near, Files
      <4> QED
        BY <4>2, <4>3 DEF ReadsTold
    <3> QED
      BY <1>0, <1>3, <1>9, <1>11, <1>15, <2>1, <3>1 DEF UiInv
  <2>3. ExtcapType' /\ LoopType' /\ DownInv'
    BY <1>0, <1>9, <1>15, ReadDown DEF LoopType
  <2> QED
    BY <1>13, <2>2, <2>3 DEF Side
<1> QED
  BY <1>11, <1>14, <1>15

(* Of the t packets that were told of, l of them lost at most, r were      *)
(* read; then, of n more, q.                                               *)
LEMMA NearRead ==
    ASSUME NEW t \in Nat, NEW r \in Nat, NEW q \in Nat, NEW n \in Nat, NEW d \in Nat, NEW l \in Nat,
           r <= t, t <= r + l, t + n <= d + l, ReadsOn(r, n, d, q)
    PROVE  q <= t + n /\ t + n <= q + l
BY DEF ReadsOn

(* Packets are told of: they are those of the current file.                *)
WindowNear(s, f, t) == Near(s.seen + s.spin, t, lost, f) /\ (s.spin # 0 => lost[f] > 0)

SpinsLost(s) == s.spin # 0 => s.info # 0 /\ lost[s.info] > 0

LEMMA CountKeeps ==
    ASSUME Inv, PipeMessage, Whole, Header.kind = "count"
    PROVE  Side'
<1>0. /\ UiInv /\ LoopType /\ disk' = disk /\ lost' = lost /\ disk \in Disk /\ Typing /\ CountInv /\ NameInv
      /\ ReadBlock /\ watching /\ loop = "idle" /\ ~ui.broken /\ fork /\ Active(ui) /\ ui.spin = 0 /\ (unopened => switched)
      /\ UNCHANGED <<setup, rt, switched>> /\ told \in [Files -> Nat] /\ ui \in UiRecord
      /\ \A g \in Files : told[g] \in Nat /\ Out[g] = disk[g] + lost[g] /\ disk[g] \in Nat /\ lost[g] \in Nat
  BY MessageStart, SyncPipeAssumption, OutIs DEF Inv, Typing, ChildType, Disk, UiType
<1>1. PICK p : p = pipe[1]
  OBVIOUS
<1>2. /\ p.msg = Header /\ p.part = 1 /\ Header.file \in Files /\ Header \in Message
      /\ told[Header.file] + Header.n <= Out[Header.file]
      /\ ~unopened => Fits(p, ui.save)
  BY <1>0, <1>1, ReadTells
<1>3. Header.n \in Nat /\ Header.file # 0
  BY <1>2, SyncPipeAssumption DEF Message, Files
<1>4. PICK d \in Disk, f \in Files, n \in Nat : d = disk /\ f = Header.file /\ n = Header.n
  BY <1>0, <1>2, <1>3
<1>5. PICK s : s = [ui EXCEPT !.count = @ + n]
  OBVIOUS
<1>6. /\ Valid(s, d) /\ s.count = ui.count + n /\ s.state = ui.state /\ s.cf = ui.cf /\ s.name = ui.name
      /\ s.read = ui.read /\ s.save = ui.save /\ s.pending = ui.pending /\ s.info = ui.info /\ s.seen = ui.seen
      /\ s.spin = 0 /\ ~s.broken
  <2>1. ui.count + n \in Nat
    BY <1>0 DEF UiRecord
  <2>2. s \in UiRecord
    BY <1>0, <1>5, <2>1, SetCount
  <2>3. /\ s.count = ui.count + n /\ s.state = ui.state /\ s.cf = ui.cf /\ s.name = ui.name
        /\ s.read = ui.read /\ s.save = ui.save /\ s.pending = ui.pending /\ s.info = ui.info /\ s.seen = ui.seen
        /\ s.spin = ui.spin /\ s.broken = ui.broken
    BY <1>0, <1>5 DEF UiRecord
  <2>4. Reads(ui, disk)
    BY <1>0 DEF UiInv, Valid
  <2>5. Reads(s, d)
    BY <1>4, <2>3, <2>4 DEF Reads
  <2> QED
    BY <1>0, <2>2, <2>3, <2>5 DEF Valid
<1>7. PICK o \in Opens(ui.save) :
         LET r == NewPackets([ui EXCEPT !.count = @ + Header.n], Header.n, rt, o, disk) IN
           /\ ui' = r.s
           /\ loop' = IF r.s.spin > 0 THEN "spin" ELSE "idle"
           /\ signal' = (signal \/ r.kill)
           /\ unopened' = (unopened \/ (rt /\ ui.cf = "pending" /\ ~o[1]))
           /\ told' = [told EXCEPT ![Header.file] = @ + Header.n]
           /\ UNCHANGED watching
  BY DEF PipeMessage, Deliver
<1>8. PICK r : r = NewPackets(s, n, rt, o, d)
  OBVIOUS
<1>9. /\ ui' = r.s /\ loop' = (IF r.s.spin > 0 THEN "spin" ELSE "idle") /\ signal' = (signal \/ r.kill)
      /\ unopened' = (unopened \/ (rt /\ ui.cf = "pending" /\ ~o[1]))
      /\ told' = [told EXCEPT ![f] = @ + n] /\ UNCHANGED watching
  BY <1>4, <1>5, <1>7, <1>8
<1>10. o \in Open2
  BY OpensIs
<1>11. /\ told' \in [Files -> Nat] /\ told'[f] = told[f] + n /\ \A g \in Files : g # f => told'[g] = told[g]
  BY <1>0, <1>9
<1>12. ~switched => /\ ~unopened /\ ui.save = f /\ ui.state = "running" /\ rt = setup.rt
                    /\ Shape(ui) /\ InMode(ui, rt, told, lost) /\ ReadsTold(ui, told, lost)
  <2>1. ASSUME ~switched PROVE ~unopened /\ ui.save = f
    BY <1>0, <1>2, <1>4, <2>1 DEF Fits, IsHeader
  <2>2. ASSUME ~switched PROVE ui.state = "running" /\ Shape(ui)
    BY <1>0, <1>3, <1>4, <2>1, <2>2 DEF UiInv, Shape, Active
  <2> QED
    BY <1>0, <2>1, <2>2 DEF UiInv
<1>13. f # 0 /\ told[f] + n <= d[f] + lost[f]
  BY <1>0, <1>2, <1>3, <1>4
<1>c. ASSUME ~switched, s.info = f, Valid(r.s, d), Waits(s.seen, n, d[f], r.s.seen, r.s.spin)
      PROVE  WindowNear(r.s, f, told')
  <2>1. s.seen <= told[f] /\ told[f] <= s.seen + lost[f]
    <3>1. ui.info # 0 /\ ui.info = f /\ ui.seen = s.seen /\ ui.spin = 0 /\ s.seen \in Nat
      BY <1>0, <1>6, <1>13, <1>c DEF Valid, UiRecord
    <3>2. Near(ui.seen + ui.spin, told, lost, f) /\ ui.seen + ui.spin = s.seen
      BY <1>12, <1>c, <3>1 DEF InMode
    <3> QED
      BY <3>2 DEF Near
  <2>2. r.s.seen \in Nat /\ r.s.spin \in Nat /\ s.seen \in Nat
    BY <1>6, <1>c DEF Valid, UiRecord
  <2>3. told[f] \in Nat /\ d[f] \in Nat /\ lost[f] \in Nat /\ told'[f] = told[f] + n
    BY <1>0, <1>4, <1>11
  <2>4. /\ r.s.seen + r.s.spin <= told[f] + n /\ told[f] + n <= (r.s.seen + r.s.spin) + lost[f]
        /\ r.s.spin # 0 => lost[f] > 0
    <3>1. PICK t, a, q, k, e, l \in Nat :
             t = told[f] /\ a = s.seen /\ q = r.s.seen /\ k = r.s.spin /\ e = d[f] /\ l = lost[f]
      BY <2>2, <2>3
    <3>2. a <= t /\ t <= a + l /\ t + n <= e + l /\ Waits(a, n, e, q, k)
      BY <1>13, <1>c, <1>4, <2>1, <3>1
    <3>3. q + k <= t + n /\ t + n <= (q + k) + l /\ (k # 0 => l > 0)
      <4>1. t \in Nat /\ a \in Nat /\ q \in Nat /\ k \in Nat /\ e \in Nat /\ l \in Nat /\ n \in Nat
        OBVIOUS
      <4> QED
        BY ONLY <3>2, <4>1 DEF Waits
    <3> QED
      BY <3>1, <3>3
  <2> QED
    BY <2>3, <2>4 DEF WindowNear, Near
<1>14. /\ r.kill \in BOOLEAN /\ Valid(r.s, d) /\ r.s.count = s.count /\ r.s.state = s.state /\ r.s.info = s.info
       /\ ~(rt /\ s.cf = "pending" /\ ~o[1]) => r.s.save = s.save
       /\ ~r.s.broken => s.save # 0
       /\ r.s.cf # "pending" \/ s.cf = "pending" \/ s.cf = "closed"
       /\ ~switched =>
             /\ ~r.s.broken /\ InMode(r.s, rt, told', lost) /\ ReadsTold(r.s, told', lost) /\ SpinsLost(r.s)
             /\ ~(rt /\ s.cf = "pending")
  <2>1. CASE rt = TRUE
    <3>1. /\ r.kill \in BOOLEAN /\ Valid(r.s, d) /\ r.s.count = s.count /\ r.s.state = s.state /\ r.s.info = s.info
          /\ r.s.cf # "pending" \/ s.cf = "pending"
          /\ ~(s.cf = "pending" /\ ~o[1]) => r.s.save = s.save
          /\ ~r.s.broken => s.save # 0 /\ r.s.cf = Reopen(s, o).cf
          /\ s.save # 0 /\ s.name = s.save /\ s.cf \in {"inprogress", "aborted"} /\ s.pending = 0 /\ ~s.broken =>
                /\ ~r.s.broken /\ r.s.cf = s.cf /\ r.s.name = s.name /\ r.s.pending = 0
                /\ s.cf = "inprogress" => ReadsOn(s.read, n, d[s.name], r.s.read)
                /\ s.info # 0 => Waits(s.seen, n, d[s.info], r.s.seen, r.s.spin)
                /\ s.info = 0 => r.s.spin = s.spin
      <4>1. r = NewPackets(s, n, TRUE, o, d)
        BY <1>8, <2>1
      <4>2. PacketsNow(s, n, o, d, r)
        BY <1>6, <1>10, <4>1, NewPacketsNow
      <4> QED
        BY <4>2 DEF PacketsNow
    <3>2. ASSUME ~switched
          PROVE  /\ ~r.s.broken /\ InMode(r.s, rt, told', lost) /\ ReadsTold(r.s, told', lost) /\ SpinsLost(r.s)
                 /\ ~(rt /\ s.cf = "pending")
      <4>1. /\ s.cf \in {"inprogress", "aborted"} /\ s.name = f /\ s.save = f /\ s.pending = 0
            /\ s.info # 0 => s.info = f
            /\ s.cf = "inprogress" => s.read <= told[f] /\ told[f] <= s.read + lost[f]
        BY <1>6, <1>12, <2>1, <3>2 DEF InMode, ReadsTold, Near
      <4>2. /\ ~r.s.broken /\ r.s.cf = s.cf /\ r.s.name = f /\ r.s.pending = 0 /\ r.s.save = f
            /\ s.cf = "inprogress" => ReadsOn(s.read, n, d[f], r.s.read)
            /\ s.info # 0 => Waits(s.seen, n, d[f], r.s.seen, r.s.spin)
            /\ s.info = 0 => r.s.spin = 0
        BY <1>6, <1>13, <3>1, <4>1
      <4>3. s.info # 0 => WindowNear(r.s, f, told')
        BY <3>1, <3>2, <4>1, <4>2, <1>c
      <4>4. s.cf = "inprogress" => Near(r.s.read, told', lost, f)
        <5>1. r.s.read \in Nat /\ s.read \in Nat
          BY <1>6, <3>1 DEF Valid, UiRecord
        <5>2. told[f] \in Nat /\ d[f] \in Nat /\ lost[f] \in Nat /\ told'[f] = told[f] + n
          BY <1>0, <1>4, <1>11
        <5> QED
          <6>1. PICK t, a, q, e, l \in Nat : t = told[f] /\ a = s.read /\ q = r.s.read /\ e = d[f] /\ l = lost[f]
            BY <5>1, <5>2
          <6>2. ASSUME s.cf = "inprogress" PROVE q <= t + n /\ t + n <= q + l
            <7>1. a <= t /\ t <= a + l /\ t + n <= e + l /\ ReadsOn(a, n, e, q)
              BY <1>13, <1>4, <4>1, <4>2, <6>1, <6>2
            <7> QED
              BY <7>1, NearRead
          <6> QED
            BY <5>2, <6>1, <6>2 DEF Near
      <4>5. InMode(r.s, rt, told', lost) /\ SpinsLost(r.s)
        BY <1>13, <2>1, <3>1, <4>1, <4>2, <4>3 DEF InMode, SpinsLost, WindowNear
      <4>6. ReadsTold(r.s, told', lost)
        BY <1>13, <4>2, <4>4 DEF ReadsTold
      <4> QED
        BY <2>1, <4>1, <4>2, <4>5, <4>6
    <3> QED
      BY <2>1, <3>1, <3>2
  <2>2. CASE rt = FALSE
    <3>1. /\ r.kill = FALSE /\ Valid(r.s, d) /\ r.s.count = s.count /\ r.s.state = s.state /\ r.s.info = s.info
          /\ r.s.save = s.save /\ r.s.name = s.name /\ r.s.read = s.read
          /\ r.s.cf = IF s.cf = "closed" THEN "pending" ELSE s.cf
          /\ r.s.broken = (s.broken \/ s.save = 0)
          /\ s.info # 0 => Waits(s.seen, n, d[s.info], r.s.seen, r.s.spin)
          /\ s.info = 0 => r.s.spin = s.spin
      <4>1. r = NewPackets(s, n, FALSE, o, d)
        BY <1>8, <2>2
      <4>2. PacketsLater(s, n, o, d, r)
        BY <1>6, <1>10, <4>1, NewPacketsLater
      <4> QED
        BY <4>2 DEF PacketsLater
    <3>2. ASSUME ~switched
          PROVE  ~r.s.broken /\ InMode(r.s, rt, told', lost) /\ ReadsTold(r.s, told', lost) /\ SpinsLost(r.s)
      <4>1. /\ s.cf \in {"closed", "pending", "aborted"} /\ s.name = 0 /\ s.save = f
            /\ s.info # 0 => s.info = f
        BY <1>6, <1>12, <2>2, <3>2 DEF InMode
      <4>2. /\ ~r.s.broken /\ r.s.cf \in {"pending", "aborted"} /\ r.s.name = 0 /\ r.s.save = f
            /\ s.info # 0 => Waits(s.seen, n, d[f], r.s.seen, r.s.spin)
            /\ s.info = 0 => r.s.spin = 0
        BY <1>6, <1>13, <3>1, <4>1
      <4>3. s.info # 0 => WindowNear(r.s, f, told')
        BY <3>1, <3>2, <4>1, <4>2, <1>c
      <4> QED
        BY <1>13, <2>2, <3>1, <4>1, <4>2, <4>3 DEF InMode, ReadsTold, SpinsLost, WindowNear
    <3> QED
      BY <2>2, <3>1, <3>2
  <2> QED
    BY <1>0, <2>1, <2>2 DEF LoopType
<1>15. UiInv'
  <2>1. ASSUME ~unopened', ~r.s.broken PROVE Shape(r.s)
    <3>1. ~unopened /\ Shape(ui) /\ r.s.save = s.save /\ s.save # 0
      BY <1>0, <1>6, <1>9, <1>14, <2>1 DEF UiInv
    <3>2. s.state = "running"
      BY <1>0, <1>6, <3>1 DEF Shape, Active
    <3> QED
      BY <1>14, <3>1, <3>2 DEF Shape
  <2>2. r.s.broken => switched
    BY <1>14
  <2>3. ~setup.info => r.s.info = 0
    BY <1>0, <1>6, <1>14 DEF UiInv
  <2>4. ~(unopened' /\ ~switched)
    BY <1>6, <1>9, <1>12, <1>14
  <2>5. /\ loop' # "spin" => r.s.spin = 0
        /\ ~switched /\ loop' = "spin" => r.s.info # 0 /\ lost[r.s.info] > 0
    <3>1. r.s.spin \in Nat
      BY <1>14 DEF Valid, UiRecord
    <3> QED
      BY <1>9, <1>14, <3>1 DEF SpinsLost
  <2> QED
    BY <1>0, <1>4, <1>9, <1>12, <1>14, <2>1, <2>2, <2>3, <2>4, <2>5 DEF UiInv
<1>16. ExtcapType' /\ LoopType' /\ DownInv'
  <2>1. Active(ui')
    BY <1>0, <1>6, <1>9, <1>14 DEF Active
  <2>2. signal' \in BOOLEAN /\ unopened' \in BOOLEAN /\ loop' \in {"idle", "spin"} /\ watching'
    BY <1>0, <1>9, <1>10, <1>14 DEF LoopType
  <2> QED
    BY <2>1, <2>2, ReadDown
<1>17. CountInv' /\ NameInv'
  <2>1. \A g : Told(p, g) = IF g = 0 \/ f = g THEN n ELSE 0
    BY <1>2, <1>4 DEF Told, IsHeader
  <2>2. NameAfter(p, ui.save) = ui.save
    BY <1>2 DEF NameAfter, IsHeader
  <2>3. ui'.count = ui.count + Told(p, 0)
    BY <1>6, <1>9, <1>14, <2>1
  <2>4. ASSUME NEW g \in Files PROVE told'[g] = told[g] + Told(p, g)
    <3>1. g # 0 /\ told[g] \in Nat
      BY <1>0, SyncPipeAssumption DEF Files
    <3> QED
      BY <1>11, <2>1, <3>1
  <2>5. watching' /\ ~unopened' => ui'.save = ui.save
    BY <1>6, <1>9, <1>14
  <2>6. (watching' => watching) /\ (unopened => unopened')
    BY <1>9
  <2> QED
    BY <1>1, <2>2, <2>3, <2>4, <2>5, <2>6, ReadCounts
<1> QED
  BY <1>15, <1>16, <1>17 DEF Side

(* A message of any kind.                                                  *)
LEMMA MessageKeeps ==
    ASSUME Inv, PipeMessage
    PROVE  Side'
<1>1. CASE Whole
  <2>1. Typing /\ CountInv /\ watching /\ ReadBlock
    BY MessageStart DEF Inv
  <2>2. Header \in Message
    BY <1>1, <2>1, ReadTells
  <2>3. Header.kind \in {"error", "drops", "log"} \/ Header.kind = "file" \/ Header.kind = "count"
    BY <2>2 DEF Message, Kinds
  <2> QED
    BY <1>1, <2>3, TextKeeps, FileKeeps, CountKeeps
<1> QED
  BY <1>1, SkewedKeeps

(* A step of dumpcap leaves the interface as it is, with more on the disk. *)
LEMMA ChildSide ==
    ASSUME Inv, ChildNext
    PROVE  Side'
<1>0. /\ ExtcapType /\ LoopType /\ DownInv /\ UiInv /\ Typing /\ ChildInv /\ CountInv /\ NameInv
  BY DEF Inv, Typing
<1>1. /\ UNCHANGED <<setup, proc, fifo, pid, watches, loop, watching, fork, stopAfter, waitCbs, timer, rt, ui, asked, told,
                     switched, unopened>>
      /\ Extcaps' = Extcaps
  BY ChildSetup DEF extcapVars, downVars, uiVars, Extcaps
<1>2. child # "dead"
  BY DEF ChildNext, ChildOpen, ChildOpenFails, ChildWrite, ChildTell, ChildSwitch, TellOldFile, NameFile, ChildStop,
         TellLast, TellDrops, ChildExit, ChildCrash, ReaderLogs, Rest, Main
<1>3. signal' \in BOOLEAN
  <2>1. signal' = signal \/ signal' = TRUE
    BY DEF ChildNext, ChildOpen, ChildOpenFails, ChildWrite, ChildTell, ChildSwitch, TellOldFile, NameFile, ChildStop,
           TellLast, TellDrops, ChildExit, ChildCrash, ReaderLogs, Rest, Send
  <2> QED
    BY <1>0, <2>1 DEF LoopType
<1>4. ExtcapType' /\ LoopType'
  BY <1>0, <1>1, <1>3 DEF ExtcapType, LoopType
<1>5. DownInv'
  <2>1. fork /\ AllFinished(pid, watches)' = AllFinished(pid, watches)
    BY <1>0, <1>1, <1>2 DEF DownInv, AllFinished, Finished1
  <2> QED
    BY <1>0, <1>1, <2>1 DEF DownInv, Active
<1>6. CountInv' /\ NameInv'
  BY <1>0, ChildCounts
<1>7. Valid(ui, disk')
  <2>1. PICK d, e : d = disk /\ e = disk'
    OBVIOUS
  <2>2. d \in Disk /\ e \in Disk /\ \A f \in Files : d[f] <= e[f]
    BY <1>0, <2>1, ChildKeeps DEF DiskGrows, Typing, ChildType, Disk, Files
  <2>3. Valid(ui, d)
    BY <1>0, <2>1 DEF UiInv
  <2>4. ASSUME NEW f \in 0..MaxFile, f # 0, NEW n \in Nat, n <= d[f] PROVE n <= e[f]
    BY <2>2, <2>4, DiskAt
  <2>5. Valid(ui, e)
    BY <2>3, <2>4 DEF Valid, Reads, UiRecord
  <2> QED
    BY <2>1, <2>5
<1>8. UiInv'
  <2>1. ASSUME NEW f \in 0..MaxFile, f # 0, NEW n \in Nat, Near(n, told, lost, f) PROVE Near(n, told, lost', f)
    <3>1. f \in Files
      BY <2>1 DEF Files
    <3>2. lost[f] <= lost'[f] /\ lost[f] \in 0..MaxCount /\ lost'[f] \in 0..MaxCount /\ told[f] \in 0..MaxCount
      BY <1>0, <3>1, ChildKeeps DEF DiskGrows, Typing, ChildType, UiType, Files
    <3> QED
      BY <2>1, <3>2, SyncPipeAssumption DEF Near
  <2>2. /\ ui.info \in 0..MaxFile /\ ui.name \in 0..MaxFile /\ ui.read \in Nat /\ ui.seen + ui.spin \in Nat
    BY <1>0 DEF Typing, UiType, UiRecord
  <2>3. InMode(ui, rt, told, lost) => InMode(ui, rt, told, lost')
    BY <2>1, <2>2 DEF InMode
  <2>4. ReadsTold(ui, told, lost) => ReadsTold(ui, told, lost')
    BY <2>1, <2>2 DEF ReadsTold
  <2>5. ui.info # 0 /\ lost[ui.info] > 0 => lost'[ui.info] > 0
    <3>1. ASSUME ui.info # 0 PROVE lost[ui.info] <= lost'[ui.info] /\ lost[ui.info] \in Nat /\ lost'[ui.info] \in Nat
      <4>1. ui.info \in Files
        BY <2>2, <3>1 DEF Files
      <4>2. lost[ui.info] <= lost'[ui.info] /\ lost[ui.info] \in 0..MaxCount /\ lost'[ui.info] \in 0..MaxCount
        BY <1>0, <4>1, ChildKeeps DEF DiskGrows, Typing, ChildType, Files
      <4> QED
        BY <4>2, SyncPipeAssumption
    <3> QED
      BY <3>1
  <2> QED
    BY <1>0, <1>1, <1>7, <2>3, <2>4, <2>5 DEF UiInv
<1> QED
  BY <1>4, <1>5, <1>6, <1>8 DEF Side

(* With one writer the end of the pipe is the end of dumpcap.              *)
LEMMA WaitKeeps ==
    ASSUME Inv, [Next]_vars
    PROVE  WaitsOnlyForDead'
<1>0. WaitsOnlyForDead /\ FrameInv /\ pipe \in Seq(Pieces)
  BY DEF Inv, Typing, PipeType, SyncPipeType
<1>1. CASE ChildNext
  <2>1. child # "dead"
    BY <1>1 DEF ChildNext, ChildOpen, ChildOpenFails, ChildWrite, ChildTell, ChildSwitch, TellOldFile, NameFile, ChildStop,
           TellLast, TellDrops, ChildExit, ChildCrash, ReaderLogs, Rest, Main
  <2>2. loop' = loop /\ setup' = setup
    BY <1>1, ChildSetup
  <2> QED
    BY <1>0, <2>1, <2>2 DEF WaitsOnlyForDead, OneWriter
<1>2. CASE UNCHANGED vars
  BY <1>0, <1>2 DEF vars, childVars, WaitsOnlyForDead, OneWriter
<1>3. CASE Next /\ ~ChildNext
  <2>1. setup' = setup /\ child' = child
    BY <1>3, OthersSilent DEF ChildState
  <2>2. loop' = "wait" => loop = "wait" \/ PipeEnd
    <3>1. CASE PipeMessage
      <4>1. Side'
        BY <3>1, MessageKeeps
      <4>2. loop' = loop \/ loop' \in {"idle", "spin"}
        BY <3>1 DEF PipeMessage, Deliver, DeliverSkewed
      <4> QED
        BY <4>2
    <3>2. CASE ChildReaped \/ TerminateTimeout \/ InfoSpin
      BY <3>2 DEF ChildReaped, TerminateTimeout, InfoSpin
    <3>3. CASE \E e \in Extcaps : ExtcapReaped(e) \/ \E x \in {"stdout", "stderr"} : ExtcapOutputEnds(e, x)
      BY <3>3 DEF ExtcapReaped, ExtcapOutputEnds, CallbackUnchanged
    <3>4. CASE \E e \in Extcaps : ExtcapOpens(e) \/ ExtcapExits(e)
      BY <3>4 DEF ExtcapOpens, ExtcapExits
    <3>5. CASE UserStops \/ UserSwitches \/ Over
      BY <3>5 DEF UserStops, UserSwitches, Over, vars
    <3> QED
      BY <1>3, <3>1, <3>2, <3>3, <3>4, <3>5 DEF Next, LoopNext
  <2>3. ASSUME PipeEnd, OneWriter PROVE child = "dead"
    <3>1. ~skewed /\ (pipe # <<>> => pipe[1].part = 1)
      BY <1>0, <2>3 DEF FrameInv, Framed, PipeEnd
    <3>2. pipe # <<>> => Head(pipe) = pipe[1]
      BY <1>0
    <3>3. ~BadHeader
      BY <3>1, <3>2 DEF BadHeader
    <3> QED
      BY <2>3, <3>3 DEF PipeEnd
  <2> QED
    BY <1>0, <2>1, <2>2, <2>3 DEF WaitsOnlyForDead, OneWriter
<1> QED
  BY <1>1, <1>2, <1>3

(* The invariant holds after every step.                                   *)
LEMMA InvNext ==
    ASSUME Inv, [Next]_vars
    PROVE  Inv'
<1>0. Typing /\ ChildInv /\ FrameInv /\ PipeType /\ setup \in Setups
  BY DEF Inv, Typing
<1>1. PipeMoves /\ (watching' => watching) /\ setup' = setup
  BY <1>0, PipeTouched
<1>2. PipeType' /\ FrameInv'
  BY <1>0, <1>1, PipeTyped, FrameKeeps
<1>3. Side'
  <2>1. CASE ChildNext
    BY <2>1, ChildSide
  <2>2. CASE PipeEnd \/ UserSwitches \/ Over \/ UNCHANGED vars
    <3>1. PipeEnd \/ UserSwitches \/ UNCHANGED vars
      BY <2>2 DEF Over
    <3> QED
      BY <3>1, QuietKeeps
  <2>3. CASE PipeMessage
    BY <2>3, MessageKeeps
  <2>4. CASE InfoSpin
    BY <2>4, SpinKeeps
  <2>5. CASE UserStops
    BY <2>5, StopKeeps
  <2>6. CASE ChildReaped
    BY <2>6, ReapedKeeps
  <2>7. CASE TerminateTimeout
    <3>1. PICK w : w = watches'
      OBVIOUS
    <3> QED
      BY <2>7, <3>1, TimeoutKeeps
  <2>8. ASSUME NEW e \in Extcaps, ExtcapReaped(e) \/ \E x \in {"stdout", "stderr"} : ExtcapOutputEnds(e, x)
        PROVE  Side'
    <3>1. PICK p, w : p = pid' /\ w = watches'
      OBVIOUS
    <3> QED
      BY <2>8, <3>1, WatchKeeps
  <2>9. ASSUME NEW e \in Extcaps, ExtcapOpens(e) \/ ExtcapExits(e)
        PROVE  Side'
    BY <2>9, ExtcapKeeps
  <2> QED
    BY <2>1, <2>2, <2>3, <2>4, <2>5, <2>6, <2>7, <2>8, <2>9 DEF Next, LoopNext
<1>4. ChildType' /\ ChildInv'
  <2>1. CASE ChildNext
    BY <1>0, <2>1, ChildKeeps
  <2>2. CASE ~ChildNext
    <3>1. UNCHANGED <<setup, child, file, disk, buffered, lost, untold>>
      <4>1. CASE Next
        BY <2>2, <4>1, OthersSilent DEF ChildState
      <4>2. CASE UNCHANGED vars
        BY <4>2 DEF vars, childVars
      <4> QED
        BY <4>1, <4>2
    <3>2. Out' = Out
      BY <3>1, OutSame
    <3> QED
      BY <1>0, <3>1, <3>2 DEF Typing, ChildType, ChildInv, Files
  <2> QED
    BY <2>1, <2>2
<1>5. told' \in [Files -> Nat]
  <2>1. told \in [Files -> Nat]
    BY <1>0, SyncPipeAssumption DEF Typing, UiType
  <2>2. CASE PipeMessage
    <3>1. /\ Whole => /\ Header \in Message /\ Header.n \in Nat
                      /\ Header.kind = "count" => Header.file \in Files
      BY <1>0, <2>2, MessageStart, ReadTells, SyncPipeAssumption DEF Inv, Message
    <3>2. CASE Whole /\ Header.kind = "count"
      <4>1. told' = [told EXCEPT ![Header.file] = @ + Header.n]
        BY <2>2, <3>2 DEF PipeMessage, Deliver
      <4> QED
        BY <2>1, <3>1, <3>2, <4>1
    <3>3. CASE ~(Whole /\ Header.kind = "count")
      <4>1. told' = told
        BY <2>2, <3>3 DEF PipeMessage, Deliver, DeliverSkewed
      <4> QED
        BY <2>1, <4>1
    <3> QED
      BY <3>2, <3>3
  <2>3. CASE ChildNext
    BY <2>1, <2>3, ChildSetup DEF uiVars
  <2>4. CASE ~ChildNext /\ ~PipeMessage
    <3>1. told' = told
      BY <2>4 DEF Next, LoopNext, PipeEnd, ChildReaped, TerminateTimeout, InfoSpin, ExtcapReaped, ExtcapOutputEnds,
                  CallbackUnchanged, ExtcapOpens, ExtcapExits, UserStops, UserSwitches, Over, vars, uiVars
    <3> QED
      BY <2>1, <3>1
  <2> QED
    BY <2>2, <2>3, <2>4
<1>6. UiType'
  <2>1. PICK s, d, t : s = ui' /\ d = disk' /\ t = told'
    OBVIOUS
  <2>2. Valid(s, d) /\ d \in Disk
    BY <1>3, <1>4, <2>1 DEF Side, UiInv, ChildType, Disk, Files
  <2>3. s.count <= MaxCount /\ \A f \in Files : t[f] <= MaxCount
    <3>1. s.count <= setup.packets /\ setup.packets \in 0..MaxCount /\ s.count \in Nat /\ MaxCount \in Nat
      BY <1>0, <1>1, <1>3, <2>1, <2>2, SetupFields, SyncPipeAssumption DEF Side, CountInv, Valid, UiRecord
    <3>2. ASSUME NEW f \in Files PROVE t[f] <= MaxCount
      <4>1. t[f] <= Out'[f] /\ t[f] \in Nat
        BY <1>3, <1>5, <2>1 DEF Side, CountInv, Files
      <4>2. Out' \in [Files -> Nat]
        <5>1. \A g \in Files : disk'[g] \in 0..MaxCount /\ lost'[g] \in 0..MaxCount
          BY <1>4 DEF ChildType, Files
        <5>2. \A g \in Files : disk'[g] + lost'[g] \in Nat
          BY <5>1, SyncPipeAssumption
        <5> QED
          BY <5>2 DEF Out, Files
      <4>3. Out'[f] <= Written(Out') /\ Written(Out') \in Nat /\ Out'[f] \in Nat
        BY <4>2, WrittenBounds
      <4>4. Written(Out') + buffered' <= setup'.packets /\ buffered' \in 0..MaxCount
        BY <1>4 DEF ChildInv, ChildType
      <4>5. setup'.packets \in 0..MaxCount /\ MaxCount \in Nat
        BY <1>0, <1>1, SetupFields, SyncPipeAssumption DEF Typing
      <4> QED
        BY <4>1, <4>3, <4>4, <4>5
    <3> QED
      BY <3>1, <3>2
  <2>4. {s.read, s.count, s.seen} \subseteq 0..MaxCount /\ t \in [Files -> 0..MaxCount] /\ s \in UiRecord
    BY <1>5, <2>1, <2>2, <2>3, UiTyped DEF Valid
  <2> QED
    BY <2>1, <2>4 DEF UiType, Files
<1>7. Typing'
  BY <1>0, <1>1, <1>2, <1>3, <1>4, <1>6 DEF Typing, Side
<1> QED
  BY <1>2, <1>3, <1>4, <1>7, WaitKeeps DEF Inv, Side

(* The invariant holds at the start.                                       *)
LEMMA InvInit ==
    ASSUME Init
    PROVE  Inv
<1> USE SyncPipeAssumption
<1>0. /\ pipe = <<>> /\ writing = [w \in Writers |-> Idle] /\ skewed = FALSE /\ setup \in Setups
      /\ child = "open" /\ signal = FALSE /\ file = 0
      /\ disk = [f \in Files |-> 0] /\ lost = [f \in Files |-> 0] /\ buffered = 0 /\ untold = 0
      /\ proc \in [Extcaps -> {"run", "dead"}] /\ fifo = [e \in Extcaps |-> "unopened"]
      /\ pid = [e \in Extcaps |-> proc[e] = "run"]
      /\ watches = [e \in Extcaps |-> IF proc[e] = "run" THEN {"stdout", "stderr"} ELSE {}]
      /\ loop = "idle" /\ watching = TRUE /\ fork = TRUE
      /\ stopAfter = FALSE /\ waitCbs = FALSE /\ timer = FALSE
      /\ rt = setup.rt /\ ui = NewSession /\ asked = "no"
      /\ told = [f \in Files |-> 0] /\ switched = FALSE /\ unopened = FALSE
  BY DEF Init, SyncPipeInit
<1>1. /\ ui.state = "preparing" /\ ui.cf = "closed" /\ ui.name = 0 /\ ui.read = 0 /\ ui.save = 0 /\ ui.pending = 0
      /\ ui.count = 0 /\ ui.info = 0 /\ ui.seen = 0 /\ ui.spin = 0 /\ ui.broken = FALSE
      /\ ui \in UiRecord
  BY <1>0 DEF NewSession, UiRecord, CapStates, CfStates
<1>2. /\ setup.packets \in Nat /\ setup.rt \in BOOLEAN
  BY <1>0, SetupFields
<1>3. Out = [f \in Files |-> 0] /\ Written(Out) = 0
  <2>1. Out = [f \in Files |-> 0]
    <3>1. \A f \in Files : disk[f] + lost[f] = 0
      BY <1>0
    <3> QED
      BY <3>1 DEF Out
  <2> QED
    BY <2>1, WrittenNone
<1>4. Typing
  <2>1. pipe \in Seq(Pieces) /\ Len(pipe) = 0
    BY <1>0
  <2>2. PipeType
    <3>1. writing \in [Writers -> Hands] /\ \A w \in Writers : writing[w] = Idle
      <4>1. PICK h \in Hands : h = Idle
        BY HandIdle
      <4>2. writing = [w \in Writers |-> h]
        BY <1>0, <4>1
      <4> QED
        BY <4>1, <4>2
    <3>2. SyncPipeType
      <4>1. Len(pipe) <= PipeSize
        BY <2>1
      <4>2. skewed \in BOOLEAN
        BY <1>0, Zenon
      <4> QED
        BY <2>1, <3>1, <4>1, <4>2, Zenon DEF SyncPipeType
    <3> QED
      BY <3>1, <3>2 DEF PipeType
  <2>3. ChildType
    BY <1>0 DEF ChildType, ChildStates
  <2>4. ExtcapType
    <3>1. pid \in [Extcaps -> BOOLEAN] /\ proc \in [Extcaps -> {"run", "term", "dead"}]
      BY <1>0
    <3>2. fifo \in [Extcaps -> {"unopened", "open", "gone"}]
      BY <1>0
    <3>3. watches \in [Extcaps -> SUBSET {"stdout", "stderr"}]
      BY <1>0
    <3> QED
      BY <3>1, <3>2, <3>3 DEF ExtcapType
  <2>5. LoopType
    BY <1>0, <1>2 DEF LoopType
  <2>6. UiType
    BY <1>0, <1>1 DEF UiType
  <2> QED
    BY <1>0, <2>2, <2>3, <2>4, <2>5, <2>6 DEF Typing
<1>5. ChildInv
  BY <1>0, <1>2, <1>3 DEF ChildInv
<1>6. CountInv
  <2>1. PICK a : a = [f \in 0..MaxFile |-> 0]
    OBVIOUS
  <2>2. Account = a
    BY <1>0, <1>1, <2>1 DEF Account, Files
  <2>3. PICK g : g = [i \in 0..0 |-> a]
    OBVIOUS
  <2>4. Len(pipe) = 0 /\ a \in Totals
    BY <1>0, <2>1 DEF Totals
  <2>5. Ledger(g, pipe, Account) /\ a = g[Len(pipe)]
    BY <2>2, <2>3, <2>4 DEF Ledger
  <2>6. Covered(a)
    BY <1>0, <1>2, <1>3, <2>1 DEF Covered, Files
  <2>7. \A i \in 1..Len(pipe) : HasFile(pipe[i])
    BY <2>4
  <2>8. \A f \in Files : told[f] <= Out[f]
    BY <1>0, <1>3
  <2> QED
    BY <1>1, <1>2, <2>5, <2>6, <2>7, <2>8 DEF CountInv
<1>7. FrameInv
  <2>1. "main" \in Writers
    BY SessionAssumption
  <2> QED
    BY <1>0, <2>1 DEF FrameInv, Framed
<1>8. NameInv
  <2>1. PICK g : g = [i \in 0..0 |-> 0]
    OBVIOUS
  <2>2. Len(pipe) = 0
    BY <1>0
  <2>3. Names(g, pipe, ui.save) /\ 0 = g[Len(pipe)]
    BY <1>1, <2>1, <2>2 DEF Names
  <2>4. Named(0)
    BY <1>0 DEF Named
  <2> QED
    BY <1>0, <2>3, <2>4 DEF NameInv
<1>9. DownInv
  <2>1. \A e \in Extcaps : ~pid[e] => proc[e] = "dead"
    BY <1>0
  <2> QED
    BY <1>0, <1>1, <2>1 DEF DownInv, Active
<1>10. UiInv
  <2>1. Valid(ui, disk)
    BY <1>1 DEF Valid, Reads
  <2> QED
    BY <1>0, <1>1, <2>1 DEF UiInv, Shape, InMode, ReadsTold
<1> QED
  BY <1>0, <1>4, <1>5, <1>6, <1>7, <1>8, <1>9, <1>10 DEF Inv, WaitsOnlyForDead

(***************************************************************************)
(* What the list holds in the end.                                         *)
(***************************************************************************)
(* A running session with packets has a current file, and reads it or will *)
(* read it as a whole, unless it was discarded; where it does not, nothing *)
(* was told of the file.                                                   *)
ReadsCurrent(s, t, a) ==
    /\ s.cf \in {"closed", "pending", "inprogress", "aborted"}
    /\ s.cf = "inprogress" => s.name = s.save
    /\ s.cf = "closed" => s.name = 0 /\ t[s.save] = 0
    /\ s.cf = "aborted" => a = "discard"

LastInv ==
    /\ loop = "wait" => ~ui.broken
    /\ ui.state = "running" /\ ~unopened /\ ~ui.broken => ReadsCurrent(ui, told, asked)

(* cf_read of a file that was put off reads all of it.                     *)
LEMMA ReadAllDone ==
    ASSUME NEW d \in Disk, NEW s, Valid(s, d), NEW o \in Open2, s.cf = "pending", s.save # 0, o[1], s.count > 0
    PROVE  /\ ReadAll(s, o, d).cf = "done" /\ ReadAll(s, o, d).name = s.save
           /\ ReadAll(s, o, d).read = d[s.save]
<1>1. PICK f \in 0..MaxFile : f = s.save /\ f # 0
  BY DEF Valid, UiRecord
<1>2. PICK u : u = CfOpen(s, f)
  OBVIOUS
<1>3. Valid(u, d) /\ u.name = f /\ u.count = s.count
  BY <1>1, <1>2, CfOpenIs DEF Kept
<1>4. PICK n \in Nat : n = d[f]
  BY <1>1, DiskAt
<1>5. PICK t : t = [u EXCEPT !.cf = "done", !.read = n]
  OBVIOUS
<1>6. t.cf = "done" /\ t.read = n /\ t.name = f /\ t.count = s.count
  BY <1>3, <1>5 DEF Valid, UiRecord
<1>7. s.count # 0
  OBVIOUS
<1>8. ReadAll(s, o, d) = t
  BY <1>1, <1>2, <1>4, <1>5, <1>6, <1>7 DEF ReadAll
<1> QED
  BY <1>1, <1>4, <1>6, <1>8

(* A session that has read some packets ends with all of its file read.    *)
LEMMA ClosedDone ==
    ASSUME NEW d \in Disk, NEW s, Valid(s, d), NEW o \in Open2, NEW r, r = Closed(s, o, d),
           s.state = "running", s.save # 0, s.count > 0,
           (s.cf = "inprogress" /\ s.name = s.save) \/ (s.cf = "pending" /\ o[1])
    PROVE  r.cf = "done" /\ r.name = s.save /\ r.read = d[s.save]
<1>1. Must(s, Active(s)) = s
  BY DEF Must, Active
<1>2. PICK l : l = LastRead(s, o, d)
  OBVIOUS
<1>3. l.cf = "done" /\ l.name = s.save /\ l.read = d[s.save] /\ l \in UiRecord /\ l.save = s.save
  <2>1. CASE s.cf = "inprogress" /\ s.name = s.save
    <3>1. PICK n \in Nat : n = d[s.name]
      BY <2>1, DiskAt DEF Valid, UiRecord
    <3>2. PICK t : t = [s EXCEPT !.cf = "done", !.read = n]
      OBVIOUS
    <3>3. /\ t.cf = "done" /\ t.read = n /\ t.name = s.name /\ t.count = s.count /\ t.save = s.save
      BY <3>2 DEF Valid, UiRecord
    <3>4. [s EXCEPT !.cf = "done"] \in UiRecord
      BY SetCf DEF Valid, CfStates
    <3>5. t \in UiRecord
      BY <3>2, <3>4, SetRead
    <3>6. CfFinishTail(s, d) = t
      BY <2>1, <3>1, <3>2 DEF CfFinishTail
    <3>7. s.count # 0
      OBVIOUS
    <3>8. l = t
      BY <1>2, <2>1, <3>3, <3>6, <3>7 DEF LastRead
    <3> QED
      BY <2>1, <3>1, <3>3, <3>5, <3>8
  <2>2. CASE s.cf = "pending" /\ o[1]
    <3>1. l = ReadAll(s, o, d)
      BY <1>2, <2>2 DEF LastRead
    <3>2. /\ ReadAll(s, o, d).cf = "done" /\ ReadAll(s, o, d).name = s.save
          /\ ReadAll(s, o, d).read = d[s.save]
      BY <2>2, ReadAllDone
    <3>3. l \in UiRecord /\ l.save = s.save
      BY <1>2, LastReadIs DEF Valid, Kept
    <3> QED
      BY <3>1, <3>2, <3>3
  <2> QED
    BY <2>1, <2>2
<1>4. PICK t : t = [l EXCEPT !.info = 0, !.state = "stopped"]
  OBVIOUS
<1>5. t.cf = l.cf /\ t.name = l.name /\ t.read = l.read /\ t.save = l.save
      /\ [t EXCEPT !.save = 0].cf = t.cf /\ [t EXCEPT !.save = 0].name = t.name /\ [t EXCEPT !.save = 0].read = t.read
  BY <1>3, <1>4 DEF UiRecord
<1>6. r = [t EXCEPT !.save = 0]
  BY <1>1, <1>2, <1>3, <1>4, <1>5 DEF Closed
<1> QED
  BY <1>3, <1>5, <1>6

(* A step that leaves the session's file alone keeps what it reads.        *)
LEMMA SameLast ==
    ASSUME LastInv, UNCHANGED <<unopened, told>>, asked' = asked \/ (asked = "no" /\ asked' \in {"stop", "discard"}),
           ui'.state = ui.state, ui'.save = ui.save, ui'.name = ui.name, ui'.cf = ui.cf, ui'.broken = ui.broken,
           loop' = "wait" => ~ui.broken
    PROVE  LastInv'
BY DEF LastInv, ReadsCurrent

(* A closed session reads nothing any more.                                *)
LEMMA CloseLast ==
    ASSUME Inv, CloseSession, loop' # "wait"
    PROVE  LastInv' /\ ui'.state = "stopped"
<1>1. PICK o \in Opens(ui.save) : ui' = Closed(ui, o, disk)
  BY DEF CloseSession
<1>2. PICK s, d : s = ui /\ d = disk
  OBVIOUS
<1>3. d \in Disk /\ Valid(s, d) /\ o \in Open2
  BY <1>2, OpensIs DEF Inv, Typing, ChildType, Disk, UiInv
<1>4. PICK r : r = Closed(s, o, d)
  OBVIOUS
<1>5. r.state = "stopped"
  BY <1>3, <1>4, ClosedIs
<1> QED
  BY <1>1, <1>2, <1>4, <1>5 DEF LastInv

(* The end of a session that has packets reads the whole file.             *)
LEMMA CloseReads ==
    ASSUME Inv, LastInv, CloseSession, ui.state = "running", ~ui.broken, ~unopened', asked # "discard", ui.count > 0
    PROVE  \/ ui'.cf = "done" /\ ui'.name = ui.save /\ ui'.read = disk[ui.save]
           \/ ui.cf = "closed" /\ told[ui.save] = 0
<1>1. PICK o \in Opens(ui.save) : /\ ui' = Closed(ui, o, disk)
                                  /\ unopened' = (unopened \/ (ui.cf = "pending" /\ Missed(ui.save, o)))
  BY DEF CloseSession
<1>2. PICK s, d : s = ui /\ d = disk
  OBVIOUS
<1>3. d \in Disk /\ Valid(s, d) /\ o \in Open2
  BY <1>2, OpensIs DEF Inv, Typing, ChildType, Disk, UiInv
<1>4. ~unopened /\ ReadsCurrent(s, told, asked) /\ s.save # 0
  BY <1>1, <1>2 DEF LastInv, Inv, UiInv, Shape
<1>5. s.cf = "pending" => o[1]
  BY <1>1, <1>2, <1>4 DEF Missed
<1>6. CASE s.cf = "closed"
  BY <1>2, <1>4, <1>6 DEF ReadsCurrent
<1>7. CASE s.cf # "closed"
  <2>1. (s.cf = "inprogress" /\ s.name = s.save) \/ (s.cf = "pending" /\ o[1])
    BY <1>4, <1>5, <1>7 DEF ReadsCurrent
  <2>2. PICK r : r = Closed(s, o, d)
    OBVIOUS
  <2>3. s.state = "running" /\ s.count > 0
    BY <1>2
  <2>4. r.cf = "done" /\ r.name = s.save /\ r.read = d[s.save]
    BY <1>3, <1>4, <2>1, <2>2, <2>3, ClosedDone
  <2> QED
    BY <1>1, <1>2, <2>2, <2>4
<1> QED
  BY <1>6, <1>7

(* A file that is named becomes the current one, of which nothing was told *)
LEMMA FileLast ==
    ASSUME Inv, LastInv, PipeMessage, Whole, Header.kind = "file"
    PROVE  LastInv' /\ (~unopened' => ui'.state # "stopped")
<1>0. /\ UiInv /\ disk \in Disk /\ Typing /\ CountInv /\ NameInv
      /\ ReadBlock /\ watching /\ loop = "idle" /\ ~ui.broken /\ Active(ui) /\ ~skewed
  BY MessageStart, BlockIs DEF Inv, Typing, ChildType, Disk, PipeType
<1>1. PICK p : p = pipe[1]
  OBVIOUS
<1>2. /\ p.msg = Header /\ p.part = 1 /\ Header.file \in Files /\ Header.kind = "file"
      /\ ~unopened => Fits(p, ui.save)
  BY <1>0, <1>1, ReadTells
<1>3. PICK s, d, f, b, info : s = ui /\ d = disk /\ f = Header.file /\ b = rt /\ info = setup.info
  OBVIOUS
<1>4. /\ d \in Disk /\ Valid(s, d) /\ f \in Files /\ b \in BOOLEAN /\ info \in BOOLEAN /\ Active(s)
  BY <1>0, <1>2, <1>3, SetupFields DEF UiInv, LoopType, Typing
<1>5. PICK o \in Opens(Header.file) :
         LET r == NewFile(ui, Header.file, rt, setup.info, o, disk) IN
           /\ r.ok => ui' = r.s
           /\ unopened' = (unopened \/ ~r.ok)
           /\ UNCHANGED <<loop, told>>
  BY <1>2 DEF PipeMessage, Deliver
<1>6. PICK r : r = NewFile(s, f, b, info, o, d)
  OBVIOUS
<1>7. (r.ok => ui' = r.s) /\ unopened' = (unopened \/ ~r.ok) /\ UNCHANGED <<loop, told>>
  BY <1>3, <1>5, <1>6
<1>8. FileNamed(s, f, b, info, d, r)
  BY <1>4, <1>6, OpensIs, NewFileIs
<1>9. Must(s, Active(s)) = s
  BY <1>4 DEF Must
<1>10. r.ok => /\ r.s.state = "running" /\ r.s.save = f
               /\ b => r.s.cf = "inprogress" /\ r.s.name = f
               /\ ~b => r.s.cf = Finished(s, d).cf /\ r.s.name = Finished(s, d).name
  BY <1>8, <1>9 DEF FileNamed
<1>11. ASSUME ~unopened', ~ui'.broken PROVE ReadsCurrent(ui', told, asked')
  <2>1. r.ok /\ ~unopened
    BY <1>7, <1>8, <1>11 DEF FileNamed
  <2>2. told[f] = 0
    <3>1. Header.file > ui.save
      BY <1>2, <2>1 DEF Fits, IsHeader
    <3> QED
      BY <1>0, <1>2, <1>3, <2>1, <3>1 DEF NameInv
  <2>3. s.state = "running" => s.save # 0 /\ ReadsCurrent(s, told, asked)
    BY <1>0, <1>3, <2>1 DEF LastInv, UiInv, Shape
  <2>4. s.state # "running" => s.cf = "closed" /\ s.name = 0
    BY <1>0, <1>3, <2>1 DEF UiInv, Shape, Active
  <2>5. Finished(s, d).cf \in {"closed", "pending"} /\ (Finished(s, d).cf = "closed" => Finished(s, d).name = 0)
    <3>1. /\ s.cf \in {"closed", "pending"} => Finished(s, d) = s
          /\ s.save # 0 /\ s.cf \notin {"closed", "pending"} =>
                Finished(s, d).cf = "closed" /\ Finished(s, d).name = 0
      BY <1>4, FinishedIs
    <3> QED
      BY <2>3, <2>4, <3>1 DEF ReadsCurrent
  <2>6. r.s.cf \in {"closed", "pending", "inprogress"} /\ (r.s.cf = "inprogress" => r.s.name = f)
        /\ (r.s.cf = "closed" => r.s.name = 0) /\ r.s.save = f
    BY <1>4, <1>10, <2>1, <2>5
  <2> QED
    BY <1>7, <2>1, <2>2, <2>6 DEF ReadsCurrent
<1>12. ~unopened' => ui'.state # "stopped"
  BY <1>7, <1>8, <1>10 DEF FileNamed
<1> QED
  BY <1>0, <1>7, <1>11, <1>12 DEF LastInv

(* A count finds the current file open, opens it or puts it off.           *)
LEMMA CountLast ==
    ASSUME Inv, LastInv, PipeMessage, Whole, Header.kind = "count"
    PROVE  LastInv' /\ ui'.state = ui.state
<1>0. /\ UiInv /\ disk \in Disk /\ Typing /\ CountInv /\ NameInv /\ ui \in UiRecord
      /\ ReadBlock /\ watching /\ loop = "idle" /\ ~ui.broken /\ UNCHANGED asked
      /\ rt \in BOOLEAN
  BY MessageStart DEF Inv, Typing, ChildType, Disk, UiInv, Valid, LoopType
<1>1. PICK p : p = pipe[1]
  OBVIOUS
<1>2. /\ p.msg = Header /\ p.part = 1 /\ Header.file \in Files /\ Header \in Message
      /\ ~unopened => Fits(p, ui.save)
  BY <1>0, <1>1, ReadTells
<1>3. Header.n \in Nat
  BY <1>2, SyncPipeAssumption DEF Message
<1>4. PICK d \in Disk, n \in Nat : d = disk /\ n = Header.n
  BY <1>0, <1>3
<1>5. PICK s : s = [ui EXCEPT !.count = @ + n]
  OBVIOUS
<1>6. /\ Valid(s, d) /\ s.state = ui.state /\ s.cf = ui.cf /\ s.name = ui.name /\ s.save = ui.save
      /\ s.broken = ui.broken
  <2>1. ui.count + n \in Nat
    BY <1>0 DEF UiRecord
  <2>2. s \in UiRecord
    BY <1>0, <1>5, <2>1, SetCount
  <2>3. /\ s.state = ui.state /\ s.cf = ui.cf /\ s.name = ui.name
        /\ s.read = ui.read /\ s.save = ui.save /\ s.info = ui.info /\ s.seen = ui.seen
        /\ s.broken = ui.broken
    BY <1>0, <1>5 DEF UiRecord
  <2>4. Reads(ui, disk)
    BY <1>0 DEF UiInv, Valid
  <2> QED
    BY <1>4, <2>2, <2>3, <2>4 DEF Valid, Reads
<1>7. PICK o \in Opens(ui.save) :
         LET r == NewPackets([ui EXCEPT !.count = @ + Header.n], Header.n, rt, o, disk) IN
           /\ ui' = r.s
           /\ loop' = IF r.s.spin > 0 THEN "spin" ELSE "idle"
           /\ unopened' = (unopened \/ (rt /\ ui.cf = "pending" /\ ~o[1]))
           /\ told' = [told EXCEPT ![Header.file] = @ + Header.n]
  BY DEF PipeMessage, Deliver
<1>8. PICK r : r = NewPackets(s, n, rt, o, d)
  OBVIOUS
<1>9. /\ ui' = r.s /\ loop' # "wait"
      /\ unopened' = (unopened \/ (rt /\ ui.cf = "pending" /\ ~o[1]))
  BY <1>4, <1>5, <1>7, <1>8
<1>10. o \in Open2
  BY OpensIs
<1>11. CASE rt = TRUE
  <2>1. PacketsNow(s, n, o, d, r)
    BY <1>6, <1>8, <1>10, <1>11, NewPacketsNow
  <2>2. r.s.state = s.state
    BY <2>1 DEF PacketsNow
  <2>3. ASSUME ui.state = "running", ~unopened', ~r.s.broken PROVE ReadsCurrent(r.s, told', asked')
    <3>1. ~unopened /\ ReadsCurrent(s, told, asked) /\ ~(s.cf = "pending" /\ ~o[1]) /\ s.save # 0
      BY <1>0, <1>6, <1>9, <1>11, <2>3 DEF LastInv, ReadsCurrent, UiInv, Shape
    <3>2. /\ r.s.save = s.save /\ r.s.cf = Reopen(s, o).cf /\ r.s.name = Reopen(s, o).name /\ r.s.name # 0
      BY <2>1, <2>3, <3>1 DEF PacketsNow
    <3>3. /\ s.cf # "pending" => Reopen(s, o) = s
          /\ s.cf = "pending" => Reopen(s, o).cf = "inprogress" /\ Reopen(s, o).name = s.save
      BY <1>6, <1>10, <3>1, ReopenIs
    <3> QED
      BY <1>0, <3>1, <3>2, <3>3 DEF ReadsCurrent
  <2> QED
    BY <1>6, <1>9, <2>2, <2>3 DEF LastInv
<1>12. CASE rt = FALSE
  <2>1. PacketsLater(s, n, o, d, r)
    BY <1>6, <1>8, <1>10, <1>12, NewPacketsLater
  <2>2. /\ r.s.state = s.state /\ r.s.save = s.save /\ r.s.name = s.name
        /\ r.s.cf = (IF s.cf = "closed" THEN "pending" ELSE s.cf)
    BY <2>1 DEF PacketsLater
  <2>3. ASSUME ui.state = "running", ~unopened' PROVE ReadsCurrent(r.s, told', asked')
    <3>1. ReadsCurrent(s, told, asked)
      BY <1>0, <1>6, <1>9, <1>12, <2>3 DEF LastInv, ReadsCurrent
    <3> QED
      BY <1>0, <2>2, <3>1 DEF ReadsCurrent
  <2> QED
    BY <1>6, <1>9, <2>2, <2>3 DEF LastInv
<1> QED
  BY <1>0, <1>11, <1>12

(* What a step does to it: the session is left as it is, moves on in a     *)
(* message, or is closed, by an interface that has not failed.             *)
LEMMA StepLast ==
    ASSUME Inv, LastInv, [Next]_vars
    PROVE  LastInv' /\ (ui'.state = ui.state \/ unopened' \/ ui'.state # "stopped" \/ (CloseSession /\ ~ui.broken))
<1>1. CASE ChildNext \/ PipeEnd \/ UserSwitches \/ Over \/ UNCHANGED vars
        \/ \E e \in Extcaps : ExtcapOpens(e) \/ ExtcapExits(e)
  <2>1. UNCHANGED <<unopened, told, asked, ui>> /\ (loop' = loop \/ ~ui.broken)
    <3>1. CASE ChildNext
      BY <3>1, ChildSetup DEF uiVars
    <3>2. CASE ~ChildNext
      BY <1>1, <3>2 DEF PipeEnd, IdleLoop, UserSwitches, Over, vars, uiVars, ExtcapOpens, ExtcapExits
    <3> QED
      BY <3>1, <3>2
  <2>2. loop' = "wait" => ~ui.broken
    BY <2>1 DEF LastInv
  <2> QED
    BY <2>1, <2>2, SameLast
<1>2. CASE UserStops
  <2>1. /\ UNCHANGED <<unopened, told, loop>> /\ loop = "idle" /\ asked = "no" /\ asked' \in {"stop", "discard"}
        /\ ui' = ui \/ (ui.cf \in {"inprogress", "pending"} /\ asked' = "discard" /\ ui' = Discard(ui))
    BY <1>2 DEF UserStops, IdleLoop
  <2>2. CASE ui' = ui
    BY <2>1, <2>2, SameLast
  <2>3. CASE asked' = "discard" /\ ui' = Discard(ui)
    <3>1. PICK s, d : s = ui /\ d = disk
      OBVIOUS
    <3>2. Valid(s, d)
      BY <3>1 DEF Inv, UiInv
    <3>3. Discard(s).cf = "aborted" /\ Discard(s).state = s.state
      BY <3>2, DiscardIs DEF Kept
    <3> QED
      BY <2>1, <2>3, <3>1, <3>3 DEF LastInv, ReadsCurrent
  <2> QED
    BY <2>1, <2>2, <2>3
<1>3. CASE InfoSpin
  <2>1. UNCHANGED <<unopened, told, asked>> /\ ui' = InfoRead(ui, ui.spin, disk) /\ loop' # "wait"
    BY <1>3 DEF InfoSpin
  <2>2. PICK s, d : s = ui /\ d = disk
    OBVIOUS
  <2>3. d \in Disk /\ Valid(s, d) /\ s.spin \in Nat
    BY <2>2 DEF Inv, Typing, ChildType, Disk, UiInv, Valid, UiRecord
  <2>4. PICK r : r = InfoRead(s, s.spin, d)
    OBVIOUS
  <2>5. r.state = s.state /\ r.save = s.save /\ r.cf = s.cf /\ r.name = s.name /\ r.broken = s.broken
    BY <2>3, <2>4, InfoReadIs
  <2> QED
    BY <2>1, <2>2, <2>4, <2>5, SameLast
<1>4. CASE PipeMessage
  <2>1. CASE ~Whole
    <3>1. loop = "idle" /\ UNCHANGED <<asked, loop, told>> /\ (unopened' \/ UNCHANGED <<ui, unopened>>)
      BY <1>4, <2>1, MessageStart DEF PipeMessage, DeliverSkewed
    <3> QED
      BY <3>1, SameLast DEF LastInv
  <2>2. CASE Whole
    <3>1. Header.kind \in {"error", "drops", "log"} \/ Header.kind = "file" \/ Header.kind = "count"
      <4>1. Typing /\ CountInv /\ watching /\ ReadBlock
        BY <1>4, MessageStart DEF Inv
      <4>2. Header \in Message
        BY <2>2, <4>1, ReadTells
      <4> QED
        BY <4>2 DEF Message, Kinds
    <3>2. CASE Header.kind = "file"
      BY <1>4, <2>2, <3>2, FileLast
    <3>3. CASE Header.kind = "count"
      BY <1>4, <2>2, <3>3, CountLast
    <3>4. CASE Header.kind \in {"error", "drops", "log"}
      <4>1. loop = "idle" /\ ~ui.broken /\ UNCHANGED <<loop, told, unopened, asked>> /\ ui \in UiRecord
            /\ (ui' = ui \/ ui' = Must(ui, ui.state = "running") \/ ui' = Must(ui, Active(ui)))
        BY <1>4, <2>2, <3>4, MessageStart DEF PipeMessage, Deliver, Inv, UiInv, Valid
      <4>2. ui' = ui \/ ui' = Break(ui)
        BY <4>1 DEF Must
      <4>3. Break(ui).broken /\ Break(ui).state = ui.state
        BY <4>1 DEF Break, UiRecord
      <4> QED
        BY <4>1, <4>2, <4>3, SameLast DEF LastInv
    <3> QED
      BY <3>1, <3>2, <3>3, <3>4
  <2> QED
    BY <2>1, <2>2
<1>5. CASE ChildReaped \/ TerminateTimeout
        \/ \E e \in Extcaps : ExtcapReaped(e) \/ \E x \in {"stdout", "stderr"} : ExtcapOutputEnds(e, x)
  <2>1. /\ UNCHANGED <<told, asked>> /\ loop' = "idle" /\ ~ui.broken
        /\ UNCHANGED <<ui, unopened>> \/ CloseSession
    <3>1. CASE ChildReaped
      <4>1. UNCHANGED <<told, asked>> /\ loop' = "idle" /\ ~ui.broken
        BY <3>1 DEF ChildReaped, LastInv
      <4>2. UNCHANGED <<ui, unopened>> \/ CloseSession
        BY <3>1 DEF ChildReaped, ProcessFinished
      <4> QED
        BY <4>1, <4>2
    <3>2. CASE TerminateTimeout
      <4>1. UNCHANGED <<told, asked>> /\ loop' = "idle" /\ ~ui.broken
        BY <3>2 DEF TerminateTimeout, IdleLoop
      <4>2. UNCHANGED <<ui, unopened>> \/ CloseSession
        BY <3>2 DEF TerminateTimeout, ProcessFinished
      <4> QED
        BY <4>1, <4>2
    <3>3. ASSUME NEW e \in Extcaps, ExtcapReaped(e) \/ \E x \in {"stdout", "stderr"} : ExtcapOutputEnds(e, x)
          PROVE  /\ UNCHANGED <<told, asked>> /\ loop' = "idle" /\ ~ui.broken
                 /\ UNCHANGED <<ui, unopened>> \/ CloseSession
      <4>1. UNCHANGED <<told, asked>> /\ loop' = "idle" /\ ~ui.broken
        BY <3>3 DEF ExtcapReaped, ExtcapOutputEnds, CallbackUnchanged, IdleLoop
      <4>2. \E p, w : WatchRemoved(p, w, e)
        BY <3>3 DEF ExtcapReaped, ExtcapOutputEnds
      <4>3. UNCHANGED <<ui, unopened>> \/ CloseSession
        BY <4>2 DEF WatchRemoved, ProcessFinished
      <4> QED
        BY <4>1, <4>3
    <3> QED
      BY <1>5, <3>1, <3>2, <3>3
  <2>2. CASE UNCHANGED <<ui, unopened>>
    BY <2>1, <2>2, SameLast
  <2>3. CASE CloseSession
    BY <2>1, <2>3, CloseLast
  <2> QED
    BY <2>1, <2>2, <2>3
<1> QED
  BY <1>1, <1>2, <1>3, <1>4, <1>5 DEF Next, LoopNext

(***************************************************************************)
(* The theorems.                                                           *)
(***************************************************************************)
LEMMA Invariance == Spec => []Inv
<1>1. Init => Inv
  BY InvInit
<1>2. Inv /\ [Next]_vars => Inv'
  BY InvNext
<1> QED
  BY <1>1, <1>2, PTL DEF Spec

(* No assertion of a callback of the interface fails, and no wtap is read  *)
(* that is not there, unless a file could not be opened or the mode has    *)
(* changed.                                                                *)
THEOREM NoFailedAssertion == Spec => []AssertionsHold
<1>1. Inv => AssertionsHold
  BY TypingIs DEF Inv, UiInv, AssertionsHold
<1> QED
  BY <1>1, Invariance, PTL

(* A session that is closed has waited for everyone it has started, and    *)
(* has left nothing behind.                                                *)
THEOREM ClosedOnceAll == Spec => []ClosedLast
<1>1. ASSUME Inv PROVE ClosedLast
  <2> SUFFICES ASSUME ui.state = "stopped", ~unopened
               PROVE  /\ ~fork /\ ~watching /\ child = "dead"
                      /\ ~timer /\ ~waitCbs /\ ~stopAfter
                      /\ ~ui.broken => ui.cf \in {"closed", "done"}
                      /\ \A e \in Extcaps : proc[e] = "dead" /\ ~pid[e] /\ watches[e] = {} /\ fifo[e] = "gone"
    BY DEF ClosedLast
  <2> QED
    BY <1>1 DEF Inv, DownInv, AllGone
<1> QED
  BY <1>1, Invariance, PTL

(* With one writer the interface blocks in its wait for dumpcap only when  *)
(* dumpcap has ended.                                                      *)
THEOREM WaitsForDead == Spec => []WaitsOnlyForDead
<1>1. Inv => WaitsOnlyForDead
  BY DEF Inv
<1> QED
  BY <1>1, Invariance, PTL

(* In real time the list holds what was told of, but for packets that were *)
(* lost, the window waits for none but those, and the counts follow the    *)
(* name of their file.                                                     *)
THEOREM ListIsTold == Spec => []ListIsWhatWasTold
<1>1. ASSUME Inv PROVE ListIsWhatWasTold
  <2>1. ASSUME watching, ~skewed, ~unopened, NEW i \in DOMAIN pipe, pipe[i].part = 1, pipe[i].msg.kind = "count"
        PROVE  pipe[i].msg.file = FileBefore(i)
    <3>1. pipe \in Seq(Pieces) /\ i \in 1..Len(pipe)
      BY <1>1 DEF Inv, Typing, PipeType, SyncPipeType
    <3>2. PICK g : Names(g, pipe, ui.save)
      BY <1>1, <2>1 DEF Inv, NameInv
    <3>3. FileBefore(i) = g[i - 1]
      BY <3>1, <3>2, FileBeforeIs
    <3>4. pipe[i].msg.file = g[i - 1]
      BY <2>1, <3>1, <3>2 DEF Names, Fits, IsHeader
    <3> QED
      BY <3>3, <3>4
  <2>2. ~switched /\ ~ui.broken =>
          /\ ui.cf = "inprogress" => ui.read <= told[ui.name] /\ told[ui.name] <= ui.read + lost[ui.name]
          /\ loop = "spin" => ui.info # 0 /\ lost[ui.info] > 0
    BY <1>1 DEF Inv, UiInv, ReadsTold, Near
  <2> QED
    BY <2>1, <2>2 DEF ListIsWhatWasTold, CountsFollowTheirFile
<1> QED
  BY <1>1, Invariance, PTL

(* After the session the list holds every packet of the last file that was *)
(* named, in either mode and with changes of mode, unless nothing was told *)
(* of it, it was discarded, or could not be opened.                        *)
THEOREM ListIsComplete == Spec => ListComplete
<1>1. Init => LastInv
  BY DEF Init, LastInv, NewSession
<1>2. Inv /\ LastInv /\ [Next]_vars => LastInv'
  BY StepLast
<1>3. ASSUME Inv, LastInv, [Next]_vars, ui.state = "running", ui'.state = "stopped", ~unopened', asked # "discard",
             ui.count > 0
      PROVE  \/ ui'.cf = "done" /\ ui'.name = ui.save /\ ui'.read = disk[ui.save]
             \/ ui.cf = "closed" /\ told[ui.save] = 0
  <2>1. CloseSession /\ ~ui.broken
    BY <1>3, StepLast
  <2> QED
    BY <1>3, <2>1, CloseReads
<1> QED
  BY <1>1, <1>2, <1>3, Invariance, PTL DEF Spec, ListComplete

=============================================================================
