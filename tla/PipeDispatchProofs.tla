------------------------- MODULE PipeDispatchProofs -------------------------
(***************************************************************************)
(* Theorems about PipeDispatch, for all streams, pipes of any capacity and *)
(* however the pipe cuts what it delivers.                                 *)
(***************************************************************************)
EXTENDS PipeDispatch, NumberLemmas, SequenceTheorems, TLAPS

(***************************************************************************)
(* Streams.  The units of a record; the unit behind another; the units of  *)
(* q are those from behind u to s.                                         *)
(***************************************************************************)
U(r, o) == [rec |-> r, off |-> o]

Size(st, r) == Hdr + st.recs[r].len

Succ(st, u) ==
    IF u # None /\ u.off < Size(st, u.rec) THEN U(u.rec, u.off + 1) ELSE U(u.rec + 1, 1)

Chain(st, u, q, s) ==
    /\ \A i \in 1..Len(q) : q[i].rec \in DOMAIN st.recs /\ q[i].off \in 1..Size(st, q[i].rec)
    /\ q = <<>> => s = u
    /\ q # <<>> => q[1] = Succ(st, u) /\ q[Len(q)] = s
    /\ \A i \in 1..(Len(q) - 1) : q[i + 1] = Succ(st, q[i])

(***************************************************************************)
(* Where the reader is in the stream.                                      *)
(***************************************************************************)
(* The record it is in, the units it has read of it, and the last unit it  *)
(* has read.                                                               *)
Cur == IF at \in {"magic", "header"} THEN 1 ELSE Nth(Len(delivered) + 1)

InOpen == cont \in {"openlen", "openshb"}

Taken ==
    IF at = "magic" THEN 0
    ELSE IF at = "header" THEN 1 + got
    ELSE IF state = "EXPECT_REC_HDR" /\ ~InOpen THEN 0
    ELSE IF stream.pcapng THEN bytesRead + got
    ELSE IF state = "READ_REC_HDR" THEN bytesRead
    ELSE IF state = "EXPECT_DATA" THEN Hdr ELSE Hdr + bytesRead

LastRead ==
    IF Taken # 0 THEN U(Cur, Taken)
    ELSE IF Cur = 1 THEN None ELSE U(Cur - 1, Size(stream, Cur - 1))

(* The header, or the part of it that was read, is that of the record.     *)
Header(n) == \A i \in 1..n : hdr[i] = U(Cur, i)
Kind      == stream.recs[Cur].kind
Idle      == at \in {"loop", "select", "dispatch", "done"}

PcapPlace ==
    /\ ~InOpen
    /\ state = "READ_REC_HDR" => toRead = Hdr /\ bytesRead < Hdr /\ Header(bytesRead)
    /\ state \in {"EXPECT_DATA", "READ_DATA"} => Header(Hdr) /\ stream.recs[Cur].len > 0
    /\ state = "READ_DATA" =>
          /\ toRead = stream.recs[Cur].len /\ bytesRead < toRead
          /\ \A i \in 1..bytesRead : buf[i] = U(Cur, Hdr + i)

PcapngPlace ==
    /\ \A i \in 1..Taken : buf[i] = U(Cur, i)
    /\ Idle => /\ state # "READ_DATA"
               /\ state = "EXPECT_REC_HDR" => cont = "data"
               /\ state # "EXPECT_REC_HDR" =>
                     bytesRead = toRead /\ got = 0 /\ Header(Hdr) /\ toRead \in {Hdr, Fixed}
               /\ state = "READ_REC_HDR" => toRead = Fixed /\ Kind = "foreign"
    /\ at = "reading" =>
          /\ cont = "openlen" => toRead = Hdr /\ bytesRead = 1
          /\ cont = "openshb" =>
                toRead = Fixed /\ bytesRead = Hdr /\ Header(Hdr) /\ Kind \in {"shb", "foreign"}
          /\ cont = "rechdr" => \/ toRead = Hdr /\ bytesRead = 0
                                \/ toRead = Fixed /\ bytesRead = Fixed /\ Kind = "foreign"
          /\ cont = "shb" =>
                /\ toRead = Fixed /\ bytesRead \in {Hdr, Fixed} /\ Header(Hdr)
                /\ Kind \in {"shb", "foreign"}
          /\ cont = "data" =>
                toRead = Size(stream, Cur) /\ bytesRead \in {Hdr, Fixed} /\ Header(Hdr)

PlaceInv ==
    /\ Cur = 1 \/ Cur - 1 \in Recs
    /\ Taken # 0 => Cur \in Recs /\ Taken <= Size(stream, Cur)
    /\ Chain(stream, LastRead, pipe, sent)
    /\ at = "magic" => /\ state = "EXPECT_REC_HDR" /\ cont = "none" /\ delivered = <<>>
                       /\ got = 0
    /\ at = "header" => /\ ~stream.pcapng /\ state = "EXPECT_REC_HDR" /\ cont = "none"
                        /\ delivered = <<>> /\ got < Size(stream, 1) - 1
    /\ at = "read" => /\ ~stream.pcapng
                      /\ \/ state = "READ_REC_HDR" /\ cont = "rechdr"
                         \/ state = "READ_DATA" /\ cont = "data"
    /\ at = "reading" => /\ stream.pcapng /\ got <= toRead - bytesRead
                         /\ \/ InOpen /\ state = "EXPECT_REC_HDR" /\ delivered = <<>>
                            \/ cont \in {"rechdr", "shb"} /\ state = "READ_REC_HDR"
                            \/ cont = "data" /\ state = "READ_DATA"
    /\ ~stream.pcapng /\ at \notin {"magic", "header"} => PcapPlace
    /\ stream.pcapng /\ at # "magic" => PcapngPlace

(* Nothing of the record it is in is missing, or it is too short.          *)
Complete == Cur \in Recs /\ (sent.rec > Cur \/ sent = U(Cur, Size(stream, Cur)))

ErrInv ==
    /\ err # "PIPOK" => at \in {"loop", "done"}
    /\ ret = -1 => err # "PIPOK"
    /\ err = "PIPEOF" => (closed /\ ~Complete) \/ (Cur \in Recs /\ Kind = "short")

PipeInv ==
    /\ TypeOK /\ ErrInv /\ DeliveredWhole
    /\ err = "PIPOK" => PlaceInv

(***************************************************************************)
(* Lemmas about streams and chains.                                        *)
(***************************************************************************)
(* What the assumption says of a stream.                                   *)
LEMMA StreamFacts ==
    ASSUME NEW st \in Streams
    PROVE  /\ st.pcapng \in BOOLEAN
           /\ \A r \in DOMAIN st.recs :
                 /\ r \in Nat \ {0} /\ \A s \in 1..r : s \in DOMAIN st.recs
                 /\ st.recs[r].len \in Nat /\ st.recs[r].kind \in Kinds
                 /\ Size(st, r) \in Nat /\ Size(st, r) >= Hdr /\ Size(st, r) <= MaxUnits
                 /\ st.recs[r].kind \in {"shb", "foreign"} => Size(st, r) > Fixed
                 /\ st.pcapng => st.recs[r].kind \notin {"file", "old", "pkt"}
           /\ 1 \in DOMAIN st.recs
           /\ ~st.pcapng => st.recs[1].len > 0
           /\ st.pcapng => st.recs[1].kind \in {"shb", "foreign", "bad"}
           /\ Capacity \in Nat \ {0} /\ MaxUnits \in Nat /\ MaxUnits >= Fixed
<1>1. st \in StreamType /\ st.recs # <<>>
  BY PipeAssumption
<1>2. st.pcapng \in BOOLEAN /\ st.recs \in Seq([kind : Kinds, len : Nat])
  BY <1>1 DEF StreamType
<1>3. DOMAIN st.recs = 1..Len(st.recs) /\ Len(st.recs) \in Nat /\ Len(st.recs) > 0
  BY <1>1, <1>2
<1>4. ASSUME NEW r \in DOMAIN st.recs
      PROVE  /\ Hdr + st.recs[r].len <= MaxUnits
             /\ st.pcapng => st.recs[r].kind \notin {"file", "old", "pkt"}
             /\ st.recs[r].kind \in {"shb", "foreign"} => st.recs[r].len >= 2
             /\ st.recs[r].kind \in {"file", "old"} => st.recs[r].len >= 1
             /\ ~st.pcapng => (r = 1 => st.recs[r].kind \in {"file", "old"})
             /\ (st.pcapng /\ r = 1) => st.recs[r].kind \in {"shb", "foreign", "bad"}
             /\ st.recs[r] \in [kind : Kinds, len : Nat]
  <2>1. st.recs[r] \in [kind : Kinds, len : Nat]
    BY <1>4, <1>2, <1>3, ElementOfSeq, Zenon
  <2>2. /\ Hdr + st.recs[r].len <= MaxUnits
        /\ st.pcapng => st.recs[r].kind \notin {"file", "old", "pkt"}
        /\ st.recs[r].kind \in {"shb", "foreign"} => st.recs[r].len >= 2
    BY <1>4, PipeAssumption, Zenon
  <2>3. st.recs[r].kind \in {"file", "old"} => st.recs[r].len >= 1
    BY <1>4, PipeAssumption, Zenon
  <2>4. /\ ~st.pcapng => (r = 1 => st.recs[r].kind \in {"file", "old"})
        /\ (st.pcapng /\ r = 1) => st.recs[r].kind \in {"shb", "foreign", "bad"}
    BY <1>4, PipeAssumption, Zenon
  <2> QED
    BY <2>1, <2>2, <2>3, <2>4, Zenon
<1>5. 1 \in DOMAIN st.recs
  BY <1>3
<1>6. \A r \in DOMAIN st.recs : r \in Nat \ {0} /\ \A s \in 1..r : s \in DOMAIN st.recs
  BY <1>3
<1>7. ASSUME NEW r \in DOMAIN st.recs
      PROVE  /\ st.recs[r].len \in Nat /\ st.recs[r].kind \in Kinds
             /\ Size(st, r) \in Nat /\ Size(st, r) >= Hdr /\ Size(st, r) <= MaxUnits
             /\ st.recs[r].kind \in {"shb", "foreign"} => Size(st, r) > Fixed
             /\ st.pcapng => st.recs[r].kind \notin {"file", "old", "pkt"}
  BY <1>4 DEF Size, Hdr, Fixed
<1>8. /\ ~st.pcapng => st.recs[1].len > 0
      /\ st.pcapng => st.recs[1].kind \in {"shb", "foreign", "bad"}
  BY <1>4, <1>5, <1>7
<1>9. Capacity \in Nat \ {0} /\ MaxUnits \in Nat /\ MaxUnits >= Fixed
  BY PipeAssumption
<1> QED
  BY <1>2, <1>5, <1>6, <1>7, <1>8, <1>9

(* A unit is added at the end of a chain.                                  *)
LEMMA ChainAppend ==
    ASSUME NEW st \in Streams, NEW u, NEW q \in Seq(Unit), NEW s \in Unit,
           Chain(st, u, q, s), Succ(st, s).rec \in DOMAIN st.recs
    PROVE  /\ Chain(st, u, Append(q, Succ(st, s)), Succ(st, s))
           /\ Succ(st, s) \in Unit
<1> DEFINE n == Succ(st, s)
           p == Append(q, n)
<1>1. n \in Unit /\ n.rec \in Nat /\ n.off \in Nat
  BY DEF Succ, Unit, U
<1>2. n.off \in 1..Size(st, n.rec)
  <2>1. n.rec \in DOMAIN st.recs => Size(st, n.rec) \in Nat /\ Size(st, n.rec) >= 2
    BY StreamFacts DEF Hdr
  <2>2. CASE s # None /\ s.off < Size(st, s.rec)
    BY <2>1, <2>2 DEF Succ, U, Unit
  <2>3. CASE ~(s # None /\ s.off < Size(st, s.rec))
    BY <2>1, <2>3 DEF Succ, U, Unit
  <2> QED
    BY <2>2, <2>3
<1> HIDE DEF n
<1>3. Len(p) = Len(q) + 1 /\ Len(q) \in Nat /\ p # <<>> /\ p[Len(p)] = n
      /\ \A i \in 1..Len(q) : p[i] = q[i]
  BY <1>1
<1>4. \A i \in 1..Len(p) : p[i].rec \in DOMAIN st.recs /\ p[i].off \in 1..Size(st, p[i].rec)
  BY <1>3, <1>2 DEF Chain, n
<1>5. p[1] = Succ(st, u)
  <2>1. CASE q = <<>>
    BY <2>1, <1>3 DEF Chain, n
  <2>2. CASE q # <<>>
    BY <2>2, <1>3 DEF Chain
  <2> QED
    BY <2>1, <2>2
<1>6. \A i \in 1..(Len(p) - 1) : p[i + 1] = Succ(st, p[i])
  <2>1. ASSUME NEW i \in 1..(Len(p) - 1) PROVE p[i + 1] = Succ(st, p[i])
    <3>1. CASE i = Len(q)
      BY <3>1, <1>3, <2>1 DEF Chain, n
    <3>2. CASE i # Len(q)
      BY <3>2, <1>3, <2>1 DEF Chain
    <3> QED
      BY <3>1, <3>2
  <2> QED
    BY <2>1
<1> QED
  BY <1>1, <1>3, <1>4, <1>5, <1>6 DEF Chain, n

(* The first n units of a chain, if they are all of a record r of which o  *)
(* came before, and what is left of it.                                    *)
LEMMA ChainTake ==
    ASSUME NEW st \in Streams, NEW u, NEW q \in Seq(Unit), NEW s, Chain(st, u, q, s),
           NEW r \in DOMAIN st.recs, NEW o \in Nat, NEW n \in Nat \ {0},
           \/ o > 0 /\ u = U(r, o)
           \/ o = 0 /\ Succ(st, u) = U(r, 1),
           n <= Len(q), o + n <= Size(st, r)
    PROVE  /\ \A i \in 1..n : q[i] = U(r, o + i)
           /\ Chain(st, U(r, o + n), SubSeq(q, n + 1, Len(q)), s)
           /\ SubSeq(q, n + 1, Len(q)) \in Seq(Unit)
           /\ Len(SubSeq(q, n + 1, Len(q))) = Len(q) - n
<1>1. Size(st, r) \in Nat /\ r \in Nat \ {0}
  BY StreamFacts
<1>2. q # <<>> /\ Len(q) \in Nat /\ q[1] = U(r, o + 1)
  <2>1. q # <<>> /\ Len(q) \in Nat /\ q[1] = Succ(st, u)
    BY DEF Chain
  <2>2. CASE o = 0
    BY <2>1, <2>2
  <2>3. CASE o > 0
    <3>1. u # None /\ u.rec = r /\ u.off = o
      BY <2>3, <1>1 DEF U, None
    <3> QED
      BY <2>1, <2>3, <3>1, <1>1 DEF Succ
  <2> QED
    BY <2>2, <2>3
<1>3. \A i \in 1..n : q[i] = U(r, o + i)
  <2> DEFINE S == {i \in Nat : i + 1 <= n => q[i + 1] = U(r, o + (i + 1))}
  <2>1. 0 \in S
    BY <1>2
  <2>2. ASSUME NEW i \in Nat, i \in S PROVE i + 1 \in S
    <3> SUFFICES ASSUME (i + 1) + 1 <= n PROVE q[(i + 1) + 1] = U(r, o + ((i + 1) + 1))
      OBVIOUS
    <3>1. q[i + 1] = U(r, o + (i + 1)) /\ i + 1 \in 1..(Len(q) - 1)
      BY <2>2, <1>2
    <3>2. q[(i + 1) + 1] = Succ(st, q[i + 1])
      BY <3>1 DEF Chain
    <3>3. q[i + 1].rec = r /\ q[i + 1].off = o + (i + 1) /\ q[i + 1] # None
      BY <3>1 DEF U, None
    <3>4. o + (i + 1) < Size(st, r)
      BY <1>1
    <3>5. Succ(st, q[i + 1]) = U(r, (o + (i + 1)) + 1)
      BY <3>3, <3>4 DEF Succ
    <3> QED
      BY <3>2, <3>5
  <2> HIDE DEF S
  <2>3. \A i \in Nat : i \in S
    BY <2>1, <2>2, SetInduction
  <2>4. ASSUME NEW i \in 1..n PROVE q[i] = U(r, o + i)
    <3>1. i - 1 \in Nat /\ (i - 1) + 1 = i
      OBVIOUS
    <3>2. i - 1 \in S
      BY <2>3, <3>1
    <3> QED
      BY <3>1, <3>2 DEF S
  <2> QED
    BY <2>4
<1> DEFINE p == SubSeq(q, n + 1, Len(q))
<1>4. p \in Seq(Unit) /\ Len(p) = Len(q) - n /\ \A i \in 1..Len(p) : p[i] = q[n + i]
  BY <1>2
<1>5. q[n] = U(r, o + n) /\ n \in 1..Len(q)
  BY <1>3, <1>2
<1> HIDE DEF p
<1>6. \A i \in 1..Len(p) : p[i].rec \in DOMAIN st.recs /\ p[i].off \in 1..Size(st, p[i].rec)
  <2>1. ASSUME NEW i \in 1..Len(p)
        PROVE  p[i].rec \in DOMAIN st.recs /\ p[i].off \in 1..Size(st, p[i].rec)
    <3>1. n + i \in 1..Len(q) /\ p[i] = q[n + i]
      BY <1>4, <1>2
    <3> QED
      BY <3>1 DEF Chain
  <2> QED
    BY <2>1
<1>7. p = <<>> => s = U(r, o + n)
  BY <1>4, <1>5, <1>2 DEF Chain
<1>8. p # <<>> => p[1] = Succ(st, U(r, o + n)) /\ p[Len(p)] = s
  <2> SUFFICES ASSUME p # <<>> PROVE p[1] = Succ(st, U(r, o + n)) /\ p[Len(p)] = s
    OBVIOUS
  <2>1. Len(p) \in Nat /\ Len(p) > 0
    BY <1>4, <1>2
  <2>2. p[1] = q[n + 1] /\ p[Len(p)] = q[Len(q)] /\ n \in 1..(Len(q) - 1)
    BY <2>1, <1>4, <1>2
  <2> QED
    BY <2>2, <1>5, <1>2 DEF Chain
<1>9. \A i \in 1..(Len(p) - 1) : p[i + 1] = Succ(st, p[i])
  <2>1. ASSUME NEW i \in 1..(Len(p) - 1) PROVE p[i + 1] = Succ(st, p[i])
    <3>1. n + i \in 1..(Len(q) - 1) /\ p[i] = q[n + i] /\ p[i + 1] = q[(n + i) + 1]
      BY <1>4, <1>2, SMTT(30)
    <3> QED
      BY <3>1 DEF Chain
  <2> QED
    BY <2>1
<1>10. Chain(st, U(r, o + n), p, s)
  BY <1>6, <1>7, <1>8, <1>9 DEF Chain
<1> QED
  BY <1>3, <1>4, <1>10 DEF p

(***************************************************************************)
(* Lemmas about what the reader reads.                                     *)
(***************************************************************************)
(* Where the reader is, as numbers.                                        *)
LEMMA PlaceFacts ==
    ASSUME TypeOK
    PROVE  /\ Cur \in Nat \ {0} /\ Taken \in Nat
           /\ Len(pipe) \in Nat /\ Len(delivered) \in Nat
           /\ stream \in Streams /\ Recs = DOMAIN stream.recs
           /\ \A r : Units(r) = Size(stream, r)
<1>1. Len(pipe) \in Nat /\ Len(delivered) \in Nat
  BY DEF TypeOK
<1>2. Cur \in Nat \ {0}
  BY <1>1 DEF Cur, Nth
<1>3. MaxUnits \in Nat
  BY PipeAssumption
<1>4. toRead \in Nat /\ bytesRead \in Nat /\ got \in Nat
  BY <1>3 DEF TypeOK
<1>5. Taken \in Nat
  BY <1>4 DEF Taken, Hdr
<1> QED
  BY <1>1, <1>2, <1>5 DEF TypeOK, Recs, Units, Size

(* The units that come next are those of the record it is in, and what is  *)
(* left in the pipe is behind them.                                        *)
LEMMA NextUnits ==
    ASSUME TypeOK, PlaceInv, NEW n \in Nat \ {0}, n <= Len(pipe),
           Cur \in Recs => Taken + n <= Size(stream, Cur)
    PROVE  /\ Cur \in Recs
           /\ \A i \in 1..n : pipe[i] = U(Cur, Taken + i)
           /\ Chain(stream, U(Cur, Taken + n), SubSeq(pipe, n + 1, Len(pipe)), sent)
           /\ SubSeq(pipe, n + 1, Len(pipe)) \in Seq(Unit)
           /\ Len(SubSeq(pipe, n + 1, Len(pipe))) = Len(pipe) - n
<1>1. /\ Cur \in Nat \ {0} /\ Taken \in Nat /\ Len(pipe) \in Nat
      /\ stream \in Streams /\ Recs = DOMAIN stream.recs
  BY PlaceFacts
<1>2. pipe \in Seq(Unit) /\ Chain(stream, LastRead, pipe, sent)
  BY DEF TypeOK, PlaceInv
<1>3. CASE Taken = 0
  <2>1. Succ(stream, LastRead) = U(Cur, 1)
    <3>1. CASE Cur = 1
      BY <3>1, <1>3 DEF LastRead, Succ, U, None
    <3>2. CASE Cur # 1
      <4>1. LastRead = U(Cur - 1, Size(stream, Cur - 1))
        BY <3>2, <1>3 DEF LastRead
      <4>2. Cur - 1 \in DOMAIN stream.recs
        BY <3>2, <1>1 DEF PlaceInv
      <4>3. Size(stream, Cur - 1) \in Nat
        BY <4>2, <1>1, StreamFacts
      <4>4. LastRead.rec = Cur - 1 /\ LastRead.off = Size(stream, Cur - 1)
        BY <4>1 DEF U
      <4> QED
        BY <4>3, <4>4, <1>1 DEF Succ
    <3> QED
      BY <3>1, <3>2
  <2>2. pipe # <<>> /\ pipe[1] = Succ(stream, LastRead) /\ pipe[1].rec \in DOMAIN stream.recs
    BY <1>2, <1>1 DEF Chain
  <2>3. Cur \in DOMAIN stream.recs
    BY <2>1, <2>2 DEF U
  <2>4. 0 + n <= Size(stream, Cur)
    BY <1>3, <1>1, <2>3
  <2> QED
    BY <2>1, <2>3, <2>4, <1>3, <1>1, <1>2, ChainTake
<1>4. CASE Taken # 0
  <2>1. LastRead = U(Cur, Taken) /\ Cur \in DOMAIN stream.recs
    BY <1>4, <1>1 DEF LastRead, PlaceInv
  <2>2. Taken > 0 /\ Taken + n <= Size(stream, Cur)
    BY <1>4, <1>1, <2>1
  <2> QED
    BY <2>1, <2>2, <1>1, <1>2, ChainTake
<1> QED
  BY <1>3, <1>4

(* If the pipe is at its end, the record the reader is in has not been     *)
(* written in full.                                                        *)
LEMMA NotComplete ==
    ASSUME TypeOK, PlaceInv, pipe = <<>>, Cur \in Recs => Taken < Size(stream, Cur)
    PROVE  ~Complete
<1>1. /\ Cur \in Nat \ {0} /\ Taken \in Nat
      /\ stream \in Streams /\ Recs = DOMAIN stream.recs
  BY PlaceFacts
<1>2. sent = LastRead
  BY DEF PlaceInv, Chain
<1> SUFFICES ASSUME Complete PROVE FALSE
  OBVIOUS
<1>3. /\ Cur \in Recs /\ (sent.rec > Cur \/ sent = U(Cur, Size(stream, Cur)))
      /\ Size(stream, Cur) \in Nat /\ Size(stream, Cur) >= Hdr
  BY <1>1, StreamFacts DEF Complete
<1>4. CASE Taken # 0
  BY <1>4, <1>1, <1>2, <1>3 DEF LastRead, U
<1>5. CASE Taken = 0
  <2>1. sent.rec < Cur /\ sent.rec \in Int
    BY <1>5, <1>1, <1>2 DEF LastRead, U, None
  <2> QED
    BY <2>1, <1>1, <1>3 DEF U
<1> QED
  BY <1>4, <1>5

(* A header that was read whole tells of its record.                       *)
LEMMA HeaderTells ==
    ASSUME NEW r \in Recs, NEW h, \A i \in 1..Hdr : h[i] = U(r, i)
    PROVE  /\ RecOf(h) = r
           /\ KindOf(h) = stream.recs[r].kind
           /\ LenOf(h) = stream.recs[r].len
<1>1. h[1] = U(r, 1) /\ h[2] = U(r, 2)
  BY DEF Hdr
<1>2. [h[1] EXCEPT !.off = 2] = U(r, 2)
  BY <1>1 DEF U
<1>3. RecOf(h) = r
  BY <1>1, <1>2 DEF RecOf, U
<1> QED
  BY <1>3 DEF KindOf, LenOf

(* What is stored in a buffer.                                             *)
LEMMA StoredUnits ==
    ASSUME NEW m \in Nat, NEW b \in [1..m -> Unit], NEW o \in Nat, NEW n \in Nat,
           o + n <= m, n <= Len(pipe), pipe \in Seq(Unit)
    PROVE  /\ Stored(b, o, n) \in [1..m -> Unit]
           /\ \A i \in 1..o : Stored(b, o, n)[i] = b[i]
           /\ \A i \in 1..n : Stored(b, o, n)[o + i] = pipe[i]
<1>1. DOMAIN b = 1..m
  OBVIOUS
<1>2. \A i \in 1..n : pipe[i] \in Unit
  <2>1. ASSUME NEW i \in 1..n PROVE i \in 1..Len(pipe)
    OBVIOUS
  <2> QED
    BY <2>1, ElementOfSeq
<1>3. \A i \in 1..m : i \in (o + 1)..(o + n) => i - o \in 1..n
  OBVIOUS
<1> QED
  BY <1>1, <1>2, <1>3 DEF Stored

(* The first n units of a buffer.                                          *)
LEMMA FirstUnits ==
    ASSUME NEW b \in [1..MaxUnits -> Unit], MaxUnits \in Nat, NEW n \in 0..MaxUnits
    PROVE  /\ SubSeq(b, 1, n) = [i \in 1..n |-> b[i]]
           /\ SubSeq(b, 1, n) \in Seq(Unit)
<1>1. SubSeq(b, 1, n) = [i \in 1..n |-> b[i]]
  <2>1. b \in Seq(Unit) /\ Len(b) = MaxUnits
    OBVIOUS
  <2> QED
    BY <2>1
<1>2. \A i \in 1..n : b[i] \in Unit
  OBVIOUS
<1>3. [i \in 1..n |-> b[i]] \in Seq(Unit)
  BY <1>2
<1> QED
  BY <1>1, <1>3

(***************************************************************************)
(* The steps of the writer, of the signal handler and of the loop.         *)
(***************************************************************************)
(* Steps that leave what was read alone leave the reader at its place.     *)
LEMMA PlaceKept ==
    ASSUME TypeOK, PlaceInv, UNCHANGED <<stream, cont, state, buffers, counts, delivered>>,
           at' = at \/ (Idle /\ Idle'), Chain(stream, LastRead, pipe', sent')
    PROVE  PlaceInv'
<1>1. /\ stream' = stream /\ cont' = cont /\ state' = state /\ hdr' = hdr /\ buf' = buf
      /\ toRead' = toRead /\ bytesRead' = bytesRead /\ got' = got /\ delivered' = delivered
  BY DEF buffers, counts
<1>2. /\ at' \in {"magic", "header"} <=> at \in {"magic", "header"}
      /\ at' = "magic" <=> at = "magic"
      /\ at' = "header" <=> at = "header"
      /\ at' = "read" <=> at = "read"
      /\ at' = "reading" <=> at = "reading"
      /\ Idle' <=> Idle
  BY DEF Idle
<1>3. Cur' = Cur /\ InOpen' = InOpen /\ Recs' = Recs
  BY <1>1, <1>2 DEF Cur, Nth, InOpen, Recs
<1>4. Taken' = Taken
  BY <1>1, <1>2, <1>3 DEF Taken
<1>5. LastRead' = LastRead
  BY <1>1, <1>3, <1>4 DEF LastRead
<1>6. ~stream.pcapng /\ at \notin {"magic", "header"} => PcapPlace'
  <2> SUFFICES ASSUME ~stream.pcapng, at \notin {"magic", "header"} PROVE PcapPlace'
    OBVIOUS
  <2>1. PcapPlace
    BY DEF PlaceInv
  <2> QED
    BY <2>1, <1>1, <1>3 DEF PcapPlace, Header
<1>7. stream.pcapng /\ at # "magic" => PcapngPlace'
  <2> SUFFICES ASSUME stream.pcapng, at # "magic" PROVE PcapngPlace'
    OBVIOUS
  <2>1. PcapngPlace
    BY DEF PlaceInv
  <2> QED
    BY <2>1, <1>1, <1>2, <1>3, <1>4 DEF PcapngPlace, Header, Kind
<1> QED
  BY <1>1, <1>2, <1>3, <1>4, <1>5, <1>6, <1>7 DEF PlaceInv

(* Write adds the unit that follows.                                       *)
LEMMA WriteStep ==
    ASSUME PipeInv, Write
    PROVE  PipeInv'
<1>1. /\ sent' = Succ(stream, sent) /\ pipe' = Append(pipe, Succ(stream, sent)) /\ ~closed
      /\ Succ(stream, sent).rec \in DOMAIN stream.recs /\ Len(pipe) < Capacity
      /\ UNCHANGED <<stream, closed, go, at, cont, state, hdr, buf, toRead, bytesRead, got,
                     err, ret, delivered>>
  <2>1. sent \in Unit
    BY DEF PipeInv, TypeOK
  <2>2. [sent EXCEPT !.off = @ + 1] = U(sent.rec, sent.off + 1)
    BY <2>1 DEF Unit, U
  <2>3. NextUnit = Succ(stream, sent)
    BY <2>2 DEF NextUnit, Succ, Units, Size, U
  <2> QED
    BY <2>3 DEF Write, Recs, buffers, counts, result
<1>2. TypeOK /\ stream \in Streams /\ Recs = DOMAIN stream.recs /\ Len(pipe) \in Nat
  BY PlaceFacts DEF PipeInv
<1>3. pipe \in Seq(Unit) /\ sent \in Unit
  BY <1>2 DEF TypeOK
<1>4. Succ(stream, sent) \in Unit
  BY <1>3, <1>2 DEF Succ, U, Unit
<1>5. TypeOK'
  <2>1. pipe' \in Seq(Unit) /\ Len(pipe') <= Capacity
    <3>1. Capacity \in Nat
      BY PipeAssumption
    <3> QED
      BY <3>1, <1>1, <1>2, <1>3, <1>4
  <2> QED
    BY <2>1, <1>1, <1>2, <1>4 DEF TypeOK
<1>6. ErrInv'
  BY <1>1 DEF PipeInv, ErrInv, Cur, Nth, Kind, Recs
<1>7. DeliveredWhole'
  BY <1>1 DEF PipeInv, DeliveredWhole, Nth, DataOf, Units
<1>8. ASSUME err' = "PIPOK" PROVE PlaceInv'
  <2>1. PlaceInv
    BY <1>8, <1>1 DEF PipeInv
  <2>2. Chain(stream, LastRead, pipe, sent)
    BY <2>1 DEF PlaceInv
  <2>3. Chain(stream, LastRead, pipe', sent')
    BY <2>2, <1>1, <1>2, <1>3, ChainAppend
  <2> QED
    BY <2>1, <2>3, <1>1, <1>2, PlaceKept DEF buffers, counts
<1> QED
  BY <1>5, <1>6, <1>7, <1>8 DEF PipeInv

(* Close, Stop, and the loop until it dispatches, leave the pipe alone.    *)
LEMMA QuietStep ==
    ASSUME PipeInv, Close \/ Stop \/ Loop \/ Select \/ SelectError \/ UNCHANGED vars
    PROVE  PipeInv'
<1>1. /\ UNCHANGED <<stream, sent, pipe, cont, state, hdr, buf, toRead, bytesRead, got,
                     err, ret, delivered>>
      /\ closed' = closed \/ closed' = TRUE
      /\ at' = at \/ (Idle /\ Idle' /\ (err # "PIPOK" => at' \in {"loop", "done"}))
  <2> QED
    BY DEF PipeInv, ErrInv, Close, Stop, Loop, Select, SelectError, vars, writer, buffers,
           counts, result, Idle
<1>2. go' \in BOOLEAN /\ closed' \in BOOLEAN
  BY DEF PipeInv, TypeOK, Close, Stop, Loop, Select, SelectError, vars, writer
<1>3. TypeOK'
  BY <1>1, <1>2 DEF PipeInv, TypeOK, Idle
<1>4. Cur' = Cur
  BY <1>1 DEF Cur, Nth, Idle
<1>5. ErrInv'
  BY <1>1, <1>4 DEF PipeInv, ErrInv, Complete, Kind, Recs
<1>6. DeliveredWhole'
  BY <1>1 DEF PipeInv, DeliveredWhole, Nth, DataOf, Units
<1>7. ASSUME err' = "PIPOK" PROVE PlaceInv'
  <2>1. PlaceInv /\ TypeOK
    BY <1>7, <1>1 DEF PipeInv
  <2>2. Chain(stream, LastRead, pipe', sent')
    BY <2>1, <1>1 DEF PlaceInv
  <2> QED
    BY <2>1, <2>2, <1>1, PlaceKept DEF buffers, counts
<1> QED
  BY <1>3, <1>5, <1>6, <1>7 DEF PipeInv

(***************************************************************************)
(* The steps that fail.                                                    *)
(***************************************************************************)
(* The reader fails only while nothing has failed before.                  *)
LEMMA NoErrorYet ==
    ASSUME PipeInv, at \notin {"loop", "done"}
    PROVE  err = "PIPOK" /\ TypeOK /\ PlaceInv /\ DeliveredWhole
BY DEF PipeInv, ErrInv

(* The end of the pipe and the errors of its calls.                        *)
LEMMA FailStep ==
    ASSUME PipeInv, OpenFail \/ ReadEof \/ ReadError \/ FillEof \/ FillError
    PROVE  PipeInv'
<1>1. /\ at \in {"magic", "header", "read", "reading"} /\ at' \in {"loop", "done"}
      /\ UNCHANGED <<stream, sent, closed, pipe, go, cont, state, hdr, buf, toRead, bytesRead,
                     got, delivered>>
      /\ ret' \in {ret, -1, 1} /\ err' \in {"PIPEOF", "PIPERR"}
  BY DEF OpenFail, OpenError, ReadEof, ReadError, ReadFails, FillEof, FillError, FillFails,
         Return, writer, buffers, counts
<1>2. err = "PIPOK" /\ TypeOK /\ PlaceInv /\ DeliveredWhole
  BY <1>1, NoErrorYet
<1>3. TypeOK'
  BY <1>1, <1>2 DEF TypeOK
<1>4. DeliveredWhole'
  BY <1>1, <1>2 DEF DeliveredWhole, Nth, DataOf, Units
<1>5. err' = "PIPEOF" => closed' /\ ~Complete'
  <2> SUFFICES ASSUME err' = "PIPEOF" PROVE closed' /\ ~Complete'
    OBVIOUS
  <2>1. /\ AtEnd \/ (at = "read" /\ bytesRead = toRead)
        /\ \/ at = "read"
           \/ at = "reading" /\ cont \notin {"openlen", "openshb"} /\ got < toRead - bytesRead
    BY DEF OpenFail, OpenError, ReadEof, ReadError, ReadFails, FillEof, FillError, FillFails
  <2>2. Cur' = Cur
    BY <1>1, <2>1 DEF Cur, Nth
  <2>3. stream \in Streams /\ Recs = DOMAIN stream.recs
    BY <1>2, PlaceFacts
  <2>4. \A r \in Recs : Size(stream, r) \in Nat /\ Size(stream, r) >= 2
                        /\ (stream.recs[r].kind \in {"shb", "foreign"} => Size(stream, r) > Fixed)
                        /\ Size(stream, r) = Hdr + stream.recs[r].len
    BY <2>3, StreamFacts DEF Hdr, Size
  <2>5. toRead \in Nat /\ bytesRead \in Nat /\ got \in Nat
    <3>1. MaxUnits \in Nat
      BY PipeAssumption
    <3> QED
      BY <3>1, <1>2 DEF TypeOK
  <2>6. AtEnd /\ (Cur \in Recs => Taken < Size(stream, Cur))
    <3>1. CASE at = "read"
      <4>1. PcapPlace /\ ~stream.pcapng /\ state \in {"READ_REC_HDR", "READ_DATA"}
        BY <3>1, <1>2 DEF PlaceInv
      <4>2. state = "READ_REC_HDR" => toRead = Hdr /\ bytesRead < Hdr /\ Taken = bytesRead
        BY <4>1, <3>1 DEF PcapPlace, Taken
      <4>3. state = "READ_DATA" => /\ toRead = stream.recs[Cur].len /\ bytesRead < toRead
                                   /\ Taken = Hdr + bytesRead
        BY <4>1, <3>1 DEF PcapPlace, Taken
      <4>4. AtEnd
        BY <4>1, <4>2, <4>3, <2>1, <2>5, <3>1
      <4>5. ASSUME Cur \in Recs PROVE Taken < Size(stream, Cur)
        BY <4>1, <4>2, <4>3, <4>5, <2>4, <2>5 DEF Hdr
      <4> QED
        BY <4>4, <4>5
    <3>2. CASE at = "reading"
      <4>1. PcapngPlace /\ stream.pcapng /\ state # "EXPECT_REC_HDR"
        BY <3>2, <2>1, <1>2 DEF PlaceInv, InOpen
      <4>2. Taken = bytesRead + got
        BY <4>1, <3>2 DEF Taken
      <4>3. cont \in {"rechdr", "shb", "data"}
        BY <3>2, <2>1, <1>2 DEF PlaceInv, InOpen
      <4>4. /\ cont = "rechdr" => toRead = Hdr \/ toRead = bytesRead
            /\ cont = "shb" => toRead = Fixed /\ Kind \in {"shb", "foreign"}
            /\ cont = "data" => toRead = Size(stream, Cur)
        BY <4>1, <3>2 DEF PcapngPlace
      <4>5. ASSUME Cur \in Recs PROVE Taken < Size(stream, Cur)
        <5>1. bytesRead + got < toRead
          BY <2>1, <2>5, <3>2
        <5>2. toRead <= Size(stream, Cur)
          BY <5>1, <4>3, <4>4, <4>5, <2>4, <2>5 DEF Kind, Hdr, Fixed
        <5> QED
          BY <5>1, <5>2, <4>2, <4>5, <2>4, <2>5
      <4> QED
        BY <4>5, <2>1, <3>2
    <3> QED
      BY <3>1, <3>2, <2>1
  <2>7. ~Complete
    BY <2>6, <1>2, NotComplete DEF AtEnd
  <2> QED
    BY <2>6, <2>7, <2>2, <1>1 DEF AtEnd, Complete, Recs
<1>6. ErrInv'
  BY <1>1, <1>5 DEF ErrInv
<1> QED
  BY <1>1, <1>3, <1>4, <1>6 DEF PipeInv

(***************************************************************************)
(* The steps of opening.                                                   *)
(***************************************************************************)
(* The first byte.                                                         *)
LEMMA OpenMagicStep ==
    ASSUME PipeInv, OpenMagic
    PROVE  PipeInv'
<1>1. /\ at = "magic" /\ Take(1, 1)
      /\ UNCHANGED <<stream, sent, closed, go, state, hdr, got, err, ret, delivered>>
  BY DEF OpenMagic, writer, result
<1>2. err = "PIPOK" /\ TypeOK /\ PlaceInv /\ DeliveredWhole
  BY <1>1, NoErrorYet
<1>3. state = "EXPECT_REC_HDR" /\ cont = "none" /\ delivered = <<>> /\ got = 0
  BY <1>1, <1>2 DEF PlaceInv
<1>4. /\ stream \in Streams /\ Recs = DOMAIN stream.recs /\ Len(pipe) \in Nat
      /\ MaxUnits \in Nat /\ MaxUnits >= 3 /\ 1 \in Recs
      /\ Size(stream, 1) \in Nat /\ Size(stream, 1) >= 2
      /\ stream.pcapng \in BOOLEAN /\ (~stream.pcapng => Size(stream, 1) > 2)
  BY <1>2, PlaceFacts, StreamFacts DEF Fixed, Hdr, Size
<1>5. 1 <= Len(pipe) /\ pipe' = SubSeq(pipe, 1 + 1, Len(pipe))
  BY <1>1 DEF Take
<1>6. Cur = 1 /\ Taken = 0
  BY <1>1 DEF Cur, Taken
<1>7. /\ pipe[1] = U(1, 1) /\ Chain(stream, U(1, 1), pipe', sent)
      /\ pipe' \in Seq(Unit) /\ Len(pipe') = Len(pipe) - 1
  <2>1. Cur \in Recs /\ Taken + 1 <= Size(stream, Cur)
    BY <1>4, <1>6
  <2>2. PICK n \in Nat \ {0} : n = 1
    OBVIOUS
  <2>3. /\ n <= Len(pipe) /\ Taken + n <= Size(stream, Cur)
        /\ pipe' = SubSeq(pipe, n + 1, Len(pipe))
    BY <2>1, <2>2, <1>5
  <2>4. /\ \A i \in 1..n : pipe[i] = U(Cur, Taken + i)
        /\ Chain(stream, U(Cur, Taken + n), pipe', sent)
        /\ pipe' \in Seq(Unit) /\ Len(pipe') = Len(pipe) - n
    BY <2>3, <1>2, NextUnits
  <2>5. 1 \in 1..n /\ Taken + n = 1 /\ Taken + 1 = 1
    BY <2>2, <1>6
  <2> QED
    BY <2>2, <2>4, <2>5, <1>6
<1>8. DeliveredWhole'
  BY <1>1, <1>2 DEF DeliveredWhole, Nth, DataOf, Units
<1>9. Len(pipe') <= Capacity
  BY <1>2, <1>4, <1>7, PipeAssumption DEF TypeOK
<1>10. CASE stream.pcapng
  <2>1. /\ at' = "reading" /\ cont' = "openlen" /\ buf' = Stored(buf, 0, 1)
        /\ bytesRead' = 1 /\ toRead' = Hdr
    BY <1>10, <1>1 DEF OpenMagic
  <2>2. buf' \in [1..MaxUnits -> Unit] /\ buf'[1] = pipe[1]
    <3>1. buf \in [1..MaxUnits -> Unit] /\ pipe \in Seq(Unit) /\ 0 + 1 <= MaxUnits
      BY <1>2, <1>4 DEF TypeOK
    <3>2. PICK n \in Nat : n = 1
      OBVIOUS
    <3>3. PICK o \in Nat : o = 0
      OBVIOUS
    <3>4. /\ Stored(buf, o, n) \in [1..MaxUnits -> Unit]
          /\ \A i \in 1..n : Stored(buf, o, n)[o + i] = pipe[i]
      BY <3>1, <3>2, <3>3, <1>4, <1>5, StoredUnits
    <3>5. 1 \in 1..n /\ o + 1 = 1
      BY <3>2, <3>3
    <3> QED
      BY <3>2, <3>3, <3>4, <3>5, <2>1
  <2>3. Cur' = 1 /\ Taken' = 1 /\ InOpen'
    BY <2>1, <1>1, <1>3, <1>10 DEF Cur, Nth, Taken, InOpen
  <2>4. LastRead' = U(1, 1)
    BY <2>3 DEF LastRead
  <2>5. TypeOK'
    BY <1>1, <1>2, <1>3, <1>4, <1>7, <1>9, <2>1, <2>2 DEF TypeOK, Hdr
  <2>6. PcapngPlace'
    BY <2>1, <2>2, <2>3, <1>7 DEF PcapngPlace, Idle
  <2>7. PlaceInv'
    BY <2>1, <2>3, <2>4, <2>6, <1>1, <1>3, <1>4, <1>7, <1>10 DEF PlaceInv, Recs, Hdr
  <2>8. ErrInv'
    BY <1>1, <1>2, <2>1 DEF PipeInv, ErrInv
  <2> QED
    BY <2>5, <2>7, <2>8, <1>8 DEF PipeInv
<1>11. CASE ~stream.pcapng
  <2>1. at' = "header" /\ cont' = cont /\ buf' = buf /\ bytesRead' = bytesRead /\ toRead' = toRead
    BY <1>11, <1>1 DEF OpenMagic
  <2>2. Cur' = 1 /\ Taken' = 1
    BY <2>1, <1>1, <1>3 DEF Cur, Taken
  <2>3. LastRead' = U(1, 1)
    BY <2>2 DEF LastRead
  <2>4. TypeOK'
    BY <1>1, <1>2, <1>7, <1>9, <2>1 DEF TypeOK
  <2>5. PlaceInv'
    BY <2>1, <2>2, <2>3, <1>1, <1>3, <1>4, <1>7, <1>11 DEF PlaceInv, Recs
  <2>6. ErrInv'
    BY <1>1, <1>2, <2>1 DEF PipeInv, ErrInv
  <2> QED
    BY <2>4, <2>5, <2>6, <1>8 DEF PipeInv
<1> QED
  BY <1>10, <1>11

(* The pcap file header, in as many reads as it takes.                     *)
LEMMA OpenHeaderStep ==
    ASSUME PipeInv, OpenHeader
    PROVE  PipeInv'
<1>1. /\ at = "header"
      /\ UNCHANGED <<stream, sent, closed, go, cont, state, hdr, buf, toRead, bytesRead, ret,
                     delivered>>
  BY DEF OpenHeader, writer, buffers
<1>2. err = "PIPOK" /\ TypeOK /\ PlaceInv /\ DeliveredWhole
  BY <1>1, NoErrorYet
<1>3. /\ ~stream.pcapng /\ state = "EXPECT_REC_HDR" /\ cont = "none" /\ delivered = <<>>
      /\ got < Size(stream, 1) - 1
  BY <1>1, <1>2 DEF PlaceInv
<1>4. /\ stream \in Streams /\ Recs = DOMAIN stream.recs /\ Len(pipe) \in Nat
      /\ MaxUnits \in Nat /\ 1 \in Recs /\ Size(stream, 1) \in Nat
      /\ Size(stream, 1) <= MaxUnits /\ Units(1) = Size(stream, 1)
  BY <1>2, PlaceFacts, StreamFacts
<1>5. got \in Nat
  BY <1>2, <1>4 DEF TypeOK
<1>6. PICK n \in 1..MaxUnits :
         /\ Take(Units(1) - 1 - got, n)
         /\ IF got + n < Units(1) - 1
              THEN got' = got + n /\ UNCHANGED <<at, err>>
              ELSE /\ got' = 0
                   /\ IF stream.recs[1].kind = "old"
                        THEN err' = "PIPERR" /\ at' = "done"
                        ELSE at' = "loop" /\ UNCHANGED err
  BY DEF OpenHeader
<1>7. /\ n \in Nat \ {0} /\ n <= Len(pipe) /\ pipe' = SubSeq(pipe, n + 1, Len(pipe))
      /\ got + n <= Size(stream, 1) - 1
  BY <1>4, <1>5, <1>6 DEF Take
<1>8. Cur = 1 /\ Taken = 1 + got
  BY <1>1 DEF Cur, Taken
<1>9. /\ Chain(stream, U(1, 1 + got + n), pipe', sent)
      /\ pipe' \in Seq(Unit) /\ Len(pipe') = Len(pipe) - n
  <2>1. Taken + n <= Size(stream, Cur)
    BY <1>4, <1>5, <1>7, <1>8
  <2> QED
    BY <2>1, <1>2, <1>7, <1>8, NextUnits
<1>10. DeliveredWhole'
  BY <1>1, <1>2 DEF DeliveredWhole, Nth, DataOf, Units
<1>11. Len(pipe') <= Capacity
  BY <1>2, <1>4, <1>7, <1>9, PipeAssumption DEF TypeOK
<1>12. CASE got + n < Units(1) - 1
  <2>1. got' = got + n /\ at' = at /\ err' = err
    BY <1>6, <1>12
  <2>2. got' \in 0..MaxUnits
    BY <2>1, <1>4, <1>5, <1>12
  <2>3. TypeOK'
    BY <2>1, <2>2, <1>1, <1>2, <1>9, <1>11 DEF TypeOK
  <2>4. Cur' = 1 /\ Taken' = 1 + got + n /\ Taken' # 0
    BY <2>1, <1>1, <1>5, <1>7 DEF Cur, Taken
  <2>5. LastRead' = U(1, 1 + got + n)
    BY <2>4 DEF LastRead
  <2>6. PlaceInv'
    BY <2>1, <2>4, <2>5, <1>1, <1>3, <1>4, <1>5, <1>9, <1>12 DEF PlaceInv, Recs
  <2>7. ErrInv'
    BY <2>1, <1>1, <1>2 DEF PipeInv, ErrInv
  <2> QED
    BY <2>3, <2>6, <2>7, <1>10 DEF PipeInv
<1>13. CASE ~(got + n < Units(1) - 1)
  <2>1. /\ got' = 0
        /\ \/ err' = "PIPERR" /\ at' = "done"
           \/ at' = "loop" /\ err' = err
    BY <1>6, <1>13
  <2>2. TypeOK'
    BY <2>1, <1>1, <1>2, <1>4, <1>9, <1>11 DEF TypeOK
  <2>3. Cur' = 2 /\ Taken' = 0
    BY <2>1, <1>1, <1>3 DEF Cur, Nth, Taken, InOpen
  <2>4. LastRead' = U(1, Size(stream, 1)) /\ 1 + got + n = Size(stream, 1)
    <3>1. 1 + got + n = Size(stream, 1)
      <4>1. PICK s \in Nat : s = Size(stream, 1)
        BY <1>4
      <4>2. ~(got + n < s - 1) /\ got + n <= s - 1
        BY <4>1, <1>4, <1>7, <1>13
      <4>3. 1 + got + n = s
        BY <4>2, <1>5, <1>7
      <4> QED
        BY <4>1, <4>3
    <3>2. Cur' - 1 = 1 /\ Cur' # 1
      BY <2>3
    <3> QED
      BY <3>1, <3>2, <2>3, <1>1 DEF LastRead
  <2>5. PcapPlace'
    BY <2>1, <1>1, <1>3 DEF PcapPlace, InOpen
  <2>6. PlaceInv'
    BY <2>1, <2>3, <2>4, <2>5, <1>1, <1>3, <1>4, <1>9 DEF PlaceInv, Recs
  <2>7. ErrInv'
    BY <2>1, <1>1, <1>2 DEF PipeInv, ErrInv
  <2> QED
    BY <2>2, <2>6, <2>7, <1>10 DEF PipeInv
<1> QED
  BY <1>12, <1>13

(* The length of the first block: its SHB is read on, if it is one.        *)
LEMMA OpenLengthStep ==
    ASSUME PipeInv, OpenLength
    PROVE  PipeInv'
<1>1. /\ at = "reading" /\ cont = "openlen" /\ got = toRead - bytesRead
      /\ bytesRead' = toRead /\ got' = 0 /\ hdr' = SubSeq(buf, 1, Hdr)
      /\ UNCHANGED <<stream, sent, closed, pipe, go, buf, state, ret, delivered>>
      /\ \/ /\ KindOf(hdr') = "bad" /\ err' = "PIPERR" /\ at' = "done"
            /\ cont' = cont /\ toRead' = toRead
         \/ /\ KindOf(hdr') # "bad" /\ toRead' = Fixed /\ cont' = "openshb"
            /\ at' = at /\ err' = err
  BY DEF OpenLength, Filled, OpenError, ExpectShb, writer, result
<1>2. err = "PIPOK" /\ TypeOK /\ PlaceInv /\ DeliveredWhole
  BY <1>1, NoErrorYet
<1>3. /\ stream.pcapng /\ state = "EXPECT_REC_HDR" /\ delivered = <<>>
      /\ toRead = Hdr /\ bytesRead = 1 /\ PcapngPlace
  BY <1>1, <1>2 DEF PlaceInv, PcapngPlace, InOpen
<1>4. /\ stream \in Streams /\ Recs = DOMAIN stream.recs
      /\ MaxUnits \in Nat /\ MaxUnits >= 3 /\ 1 \in Recs
      /\ stream.recs[1].kind \in {"shb", "foreign", "bad"}
  BY <1>2, <1>3, PlaceFacts, StreamFacts DEF Fixed
<1>5. Cur = 1 /\ Taken = Hdr /\ Cur' = 1 /\ got = 1
  BY <1>1, <1>3 DEF Cur, Nth, Taken, InOpen, Hdr
<1>6. hdr' \in [1..Hdr -> Unit] /\ \A i \in 1..Hdr : hdr'[i] = U(1, i)
  <2>1. buf \in [1..MaxUnits -> Unit] /\ Hdr \in 0..MaxUnits
    BY <1>2, <1>4 DEF TypeOK, Hdr
  <2>2. SubSeq(buf, 1, Hdr) = [i \in 1..Hdr |-> buf[i]]
    BY <2>1, <1>4, FirstUnits
  <2>3. \A i \in 1..Hdr : buf[i] = U(1, i)
    BY <1>3, <1>5 DEF PcapngPlace
  <2>4. \A i \in 1..Hdr : buf[i] \in Unit
    BY <2>1, <1>4 DEF Hdr
  <2> QED
    BY <2>2, <2>3, <2>4, <1>1
<1>7. KindOf(hdr') = stream.recs[1].kind
  BY <1>4, <1>6, HeaderTells
<1>8. TypeOK'
  BY <1>1, <1>2, <1>3, <1>4, <1>6 DEF TypeOK, Hdr, Fixed
<1>9. DeliveredWhole'
  BY <1>1, <1>2 DEF DeliveredWhole, Nth, DataOf, Units
<1>10. ErrInv'
  BY <1>1, <1>2 DEF PipeInv, ErrInv
<1>11. ASSUME err' = "PIPOK" PROVE PlaceInv'
  <2>1. /\ toRead' = Fixed /\ cont' = "openshb" /\ at' = at
        /\ stream.recs[1].kind \in {"shb", "foreign"}
    BY <1>11, <1>1, <1>4, <1>7
  <2>2. Taken' = Hdr
    BY <2>1, <1>1, <1>3 DEF Taken, InOpen, Hdr
  <2>3. LastRead' = LastRead
    BY <2>2, <1>5 DEF LastRead, Hdr
  <2>4. PcapngPlace'
    BY <2>1, <2>2, <1>1, <1>3, <1>5, <1>6 DEF PcapngPlace, Idle, Header, Kind, InOpen
  <2> QED
    BY <2>1, <2>2, <2>3, <2>4, <1>1, <1>2, <1>3, <1>5 DEF PlaceInv, Recs, InOpen, Hdr, Fixed
<1> QED
  BY <1>8, <1>9, <1>10, <1>11 DEF PipeInv

(* The fixed part of the first SHB.                                        *)
LEMMA OpenShbStep ==
    ASSUME PipeInv, OpenShb
    PROVE  PipeInv'
<1>1. /\ at = "reading" /\ cont = "openshb" /\ got = toRead - bytesRead
      /\ bytesRead' = toRead /\ got' = 0
      /\ UNCHANGED <<stream, sent, closed, pipe, go, buf, cont, hdr, toRead, ret, delivered>>
      /\ \/ KindOf(hdr) = "foreign" /\ err' = "PIPERR" /\ at' = "done" /\ state' = state
         \/ KindOf(hdr) # "foreign" /\ err' = err /\ at' = "loop" /\ state' = "EXPECT_DATA"
  BY DEF OpenShb, Filled, OpenError, writer, result
<1>2. err = "PIPOK" /\ TypeOK /\ PlaceInv /\ DeliveredWhole
  BY <1>1, NoErrorYet
<1>3. /\ stream.pcapng /\ state = "EXPECT_REC_HDR" /\ delivered = <<>>
      /\ toRead = Fixed /\ bytesRead = Hdr /\ PcapngPlace /\ Header(Hdr)
  BY <1>1, <1>2 DEF PlaceInv, PcapngPlace, InOpen
<1>4. Cur = 1 /\ Taken = Fixed /\ Cur' = 1 /\ got = 1
  BY <1>1, <1>3 DEF Cur, Nth, Taken, InOpen, Hdr, Fixed
<1>5. TypeOK'
  <2>1. MaxUnits \in Nat
    BY PipeAssumption
  <2> QED
    BY <2>1, <1>1, <1>2, <1>3 DEF TypeOK, Fixed
<1>6. DeliveredWhole'
  BY <1>1, <1>2 DEF DeliveredWhole, Nth, DataOf, Units
<1>7. ErrInv'
  BY <1>1, <1>2 DEF PipeInv, ErrInv
<1>8. ASSUME err' = "PIPOK" PROVE PlaceInv'
  <2>1. at' = "loop" /\ state' = "EXPECT_DATA"
    BY <1>8, <1>1
  <2>2. Taken' = Fixed
    BY <2>1, <1>1, <1>3 DEF Taken, InOpen, Fixed
  <2>3. LastRead' = LastRead
    BY <2>2, <1>4 DEF LastRead, Fixed
  <2>4. PcapngPlace'
    BY <2>1, <2>2, <1>1, <1>3, <1>4 DEF PcapngPlace, Idle, Header, Kind, InOpen
  <2> QED
    BY <2>1, <2>2, <2>3, <2>4, <1>1, <1>2, <1>3, <1>4 DEF PlaceInv, Recs, InOpen, Fixed
<1> QED
  BY <1>5, <1>6, <1>7, <1>8 DEF PipeInv

(***************************************************************************)
(* The steps of a dispatch.                                                *)
(***************************************************************************)
(* What the first switch of a dispatch prepares.                           *)
LEMMA DispatchStep ==
    ASSUME PipeInv, Dispatch
    PROVE  PipeInv'
<1>1. /\ at = "dispatch" /\ at' = IF stream.pcapng THEN "reading" ELSE "read"
      /\ Begin /\ got' = 0
      /\ UNCHANGED <<stream, sent, closed, pipe, go, hdr, buf, err, ret, delivered>>
  BY DEF Dispatch, writer, buffers, result
<1>2. err = "PIPOK" /\ TypeOK /\ PlaceInv /\ DeliveredWhole
  BY <1>1, NoErrorYet
<1>3. /\ stream \in Streams /\ Recs = DOMAIN stream.recs
      /\ MaxUnits \in Nat /\ MaxUnits >= 3 /\ stream.pcapng \in BOOLEAN
  BY <1>2, PlaceFacts, StreamFacts DEF Fixed
<1>4. toRead \in Nat /\ bytesRead \in Nat /\ got \in Nat /\ toRead <= MaxUnits /\ bytesRead <= toRead
  BY <1>2, <1>3 DEF TypeOK
<1>5. Cur' = Cur
  BY <1>1 DEF Cur, Nth
<1>6. /\ ~stream.pcapng => PcapPlace
      /\ stream.pcapng => PcapngPlace
  BY <1>1, <1>2 DEF PlaceInv
<1>7. DeliveredWhole'
  BY <1>1, <1>2 DEF DeliveredWhole, Nth, DataOf, Units
<1>8. ErrInv'
  BY <1>1, <1>2 DEF PipeInv, ErrInv
<1>9. Taken = IF state = "EXPECT_REC_HDR" /\ ~InOpen THEN 0
              ELSE IF stream.pcapng THEN bytesRead + got
              ELSE IF state = "READ_REC_HDR" THEN bytesRead
              ELSE IF state = "EXPECT_DATA" THEN Hdr ELSE Hdr + bytesRead
  BY <1>1 DEF Taken
<1>10. ASSUME Taken' = Taken
       PROVE  /\ Cur' = 1 \/ Cur' - 1 \in Recs'
              /\ Taken' # 0 => Cur' \in Recs' /\ Taken' <= Size(stream', Cur')
              /\ Chain(stream', LastRead', pipe', sent')
  <2>1. LastRead' = LastRead
    BY <1>1, <1>5, <1>10 DEF LastRead
  <2> QED
    BY <2>1, <1>1, <1>2, <1>5, <1>10 DEF PlaceInv, Recs
<1>11. CASE state = "EXPECT_REC_HDR"
  <2>1. state' = "READ_REC_HDR" /\ toRead' = Hdr /\ bytesRead' = 0 /\ cont' = "rechdr"
    BY <1>1, <1>11 DEF Begin
  <2>2. ~InOpen /\ Taken = 0
    BY <1>1, <1>6, <1>9, <1>11 DEF PcapPlace, PcapngPlace, Idle, InOpen
  <2>3. Taken' = 0 /\ ~InOpen'
    BY <2>1, <1>1 DEF Taken, InOpen
  <2>4. TypeOK'
    BY <2>1, <1>1, <1>2, <1>3 DEF TypeOK, Hdr
  <2>5. CASE ~stream.pcapng
    <3>1. PcapPlace'
      BY <2>1, <2>3 DEF PcapPlace, Header, Hdr
    <3>2. PlaceInv'
      BY <3>1, <2>1, <2>2, <2>3, <2>5, <1>1, <1>10 DEF PlaceInv
    <3> QED
      BY <3>2, <2>4, <1>7, <1>8 DEF PipeInv
  <2>6. CASE stream.pcapng
    <3>1. PcapngPlace'
      BY <2>1, <2>3, <2>6, <1>1 DEF PcapngPlace, Idle
    <3>2. PlaceInv'
      BY <3>1, <2>1, <2>2, <2>3, <2>6, <1>1, <1>10 DEF PlaceInv, Hdr
    <3> QED
      BY <3>2, <2>4, <1>7, <1>8 DEF PipeInv
  <2> QED
    BY <2>5, <2>6
<1>12. CASE state = "EXPECT_DATA"
  <2>1. /\ state' = "READ_DATA" /\ toRead' = (IF stream.pcapng THEN Hdr ELSE 0) + LenOf(hdr)
        /\ bytesRead' = (IF stream.pcapng THEN bytesRead ELSE 0)
        /\ cont' = "data"
    BY <1>1, <1>12 DEF Begin
  <2>2. Header(Hdr)
    BY <1>1, <1>6, <1>12, <1>3 DEF PcapPlace, PcapngPlace, Idle
  <2>3. Taken = IF stream.pcapng THEN bytesRead + got ELSE Hdr
    BY <1>9, <1>12
  <2>4. Taken' = IF stream.pcapng THEN bytesRead ELSE Hdr
    BY <2>1, <1>1, <1>3, <1>4 DEF Taken, Hdr
  <2>5. stream.pcapng => bytesRead = toRead /\ got = 0 /\ toRead \in {Hdr, Fixed}
    BY <1>1, <1>6, <1>12 DEF PcapngPlace, Idle
  <2>6. Taken' = Taken /\ Taken # 0
    BY <2>3, <2>4, <2>5, <1>4 DEF Hdr, Fixed
  <2>7. Cur \in Recs /\ Taken <= Size(stream, Cur)
    BY <2>6, <1>2 DEF PlaceInv
  <2>8. LenOf(hdr) = stream.recs[Cur].len
    BY <2>2, <2>7, HeaderTells DEF Header
  <2>9. /\ Size(stream, Cur) \in Nat /\ Size(stream, Cur) <= MaxUnits
        /\ stream.recs[Cur].len \in Nat /\ Size(stream, Cur) = Hdr + stream.recs[Cur].len
    BY <2>7, <1>3, StreamFacts DEF Size
  <2>10. Header(Hdr)'
    BY <2>2, <1>1, <1>5 DEF Header
  <2>11. CASE ~stream.pcapng
    <3>1. toRead' = stream.recs[Cur].len /\ bytesRead' = 0 /\ stream.recs[Cur].len > 0
      BY <2>1, <2>8, <2>9, <2>11, <1>6, <1>12 DEF PcapPlace
    <3>2. TypeOK'
      <4>1. toRead' \in 0..MaxUnits /\ bytesRead' \in 0..toRead'
        BY <3>1, <2>9, <1>3 DEF Hdr
      <4> QED
        BY <4>1, <2>1, <1>1, <1>2, <1>3 DEF TypeOK
    <3>3. PcapPlace'
      <4>1. bytesRead' < toRead' /\ \A i \in 1..bytesRead' : FALSE
        BY <3>1, <2>9
      <4>2. toRead' = stream'.recs[Cur'].len /\ stream'.recs[Cur'].len > 0
        BY <3>1, <1>1, <1>5
      <4> QED
        BY <4>1, <4>2, <2>1, <2>10 DEF PcapPlace, InOpen
    <3>4. PlaceInv'
      BY <3>3, <2>1, <2>6, <2>11, <1>1, <1>10 DEF PlaceInv
    <3> QED
      BY <3>2, <3>4, <1>7, <1>8 DEF PipeInv
  <2>12. CASE stream.pcapng
    <3>1. /\ toRead' = Size(stream, Cur) /\ bytesRead' = bytesRead
          /\ bytesRead <= Size(stream, Cur)
      BY <2>1, <2>3, <2>5, <2>7, <2>8, <2>9, <2>12, <1>4
    <3>2. TypeOK'
      BY <3>1, <2>1, <2>9, <1>1, <1>2, <1>3, <1>4 DEF TypeOK
    <3>3. PcapngPlace'
      <4>1. \A i \in 1..Taken : buf[i] = U(Cur, i)
        BY <2>12, <1>6 DEF PcapngPlace
      <4> QED
        BY <4>1, <3>1, <2>1, <2>5, <2>6, <2>10, <2>12, <1>1, <1>5 DEF PcapngPlace, Idle
    <3>4. PlaceInv'
      BY <3>1, <3>3, <2>1, <2>6, <2>9, <2>12, <1>1, <1>4, <1>10 DEF PlaceInv
    <3> QED
      BY <3>2, <3>4, <1>7, <1>8 DEF PipeInv
  <2> QED
    BY <2>11, <2>12
<1>13. CASE state \in {"READ_REC_HDR", "READ_DATA"}
  <2>1. /\ cont' = (IF state = "READ_DATA" THEN "data" ELSE "rechdr")
        /\ UNCHANGED <<state, toRead, bytesRead>>
    BY <1>1, <1>13 DEF Begin
  <2>2. TypeOK'
    BY <2>1, <1>1, <1>2, <1>3, <1>13 DEF TypeOK
  <2>3. CASE ~stream.pcapng
    <3>1. Taken' = Taken
      BY <2>1, <2>3, <1>1, <1>9, <1>13 DEF Taken, InOpen
    <3>2. PcapPlace'
      BY <2>1, <2>3, <1>1, <1>5, <1>6, <1>13 DEF PcapPlace, InOpen, Header
    <3>3. PlaceInv'
      BY <3>1, <3>2, <2>1, <2>3, <1>1, <1>10, <1>13 DEF PlaceInv
    <3> QED
      BY <3>3, <2>2, <1>7, <1>8 DEF PipeInv
  <2>4. CASE stream.pcapng
    <3>1. /\ state = "READ_REC_HDR" /\ got = 0 /\ bytesRead = Fixed /\ toRead = Fixed
          /\ Kind = "foreign" /\ \A i \in 1..Taken : buf[i] = U(Cur, i)
      BY <2>4, <1>1, <1>6, <1>13 DEF PcapngPlace, Idle
    <3>2. Taken' = Taken /\ cont' = "rechdr"
      BY <3>1, <2>1, <2>4, <1>1, <1>9 DEF Taken
    <3>3. Kind' = "foreign"
      BY <3>1, <1>1, <1>5 DEF Kind
    <3>4. PcapngPlace'
      BY <3>1, <3>2, <3>3, <2>1, <2>4, <1>1, <1>5 DEF PcapngPlace, Idle
    <3>5. PlaceInv'
      BY <3>1, <3>2, <3>4, <2>1, <2>4, <1>1, <1>10 DEF PlaceInv, Fixed
    <3> QED
      BY <3>5, <2>2, <1>7, <1>8 DEF PipeInv
  <2> QED
    BY <2>3, <2>4
<1> QED
  BY <1>2, <1>11, <1>12, <1>13 DEF TypeOK

(***************************************************************************)
(* pcap_pipe_dispatch.                                                     *)
(***************************************************************************)
(* A read of n units puts them behind what has been read of the header or  *)
(* of the data, and what is left in the pipe is behind them.               *)
LEMMA ReadUnits ==
    ASSUME PipeInv, NEW n \in 1..MaxUnits, Read(n)
    PROVE  /\ at = "read" /\ ~stream.pcapng /\ PcapPlace /\ n \in Nat \ {0}
           /\ err = "PIPOK" /\ TypeOK /\ PlaceInv /\ DeliveredWhole
           /\ UNCHANGED <<stream, sent, closed, go, cont, toRead, got>>
           /\ bytesRead' = bytesRead + n /\ bytesRead' <= toRead /\ bytesRead' \in Nat
           /\ \/ state = "READ_REC_HDR" /\ cont = "rechdr"
              \/ state = "READ_DATA" /\ cont = "data"
           /\ Cur \in Recs /\ Cur \in Nat \ {0}
           /\ Size(stream, Cur) \in Nat /\ Size(stream, Cur) = Hdr + stream.recs[Cur].len
           /\ stream.recs[Cur].len \in Nat
           /\ pipe' \in Seq(Unit) /\ Len(pipe') <= Capacity
           /\ hdr' \in [1..Hdr -> Unit] /\ buf' \in [1..MaxUnits -> Unit]
           /\ cont = "rechdr" =>
                 /\ buf' = buf /\ toRead = Hdr
                 /\ \A i \in 1..bytesRead' : hdr'[i] = U(Cur, i)
                 /\ Chain(stream, U(Cur, bytesRead'), pipe', sent)
           /\ cont = "data" =>
                 /\ hdr' = hdr /\ toRead = stream.recs[Cur].len
                 /\ \A i \in 1..bytesRead' : buf'[i] = U(Cur, Hdr + i)
                 /\ Chain(stream, U(Cur, Hdr + bytesRead'), pipe', sent)
<1>1. /\ at = "read" /\ Take(toRead - bytesRead, n) /\ bytesRead' = bytesRead + n
      /\ UNCHANGED <<stream, sent, closed, go, cont, toRead, got>>
      /\ cont = "rechdr" => hdr' = Stored(hdr, bytesRead, n) /\ buf' = buf
      /\ cont # "rechdr" => buf' = Stored(buf, bytesRead, n) /\ hdr' = hdr
  BY DEF Read, writer
<1>2. err = "PIPOK" /\ TypeOK /\ PlaceInv /\ DeliveredWhole
  BY <1>1, NoErrorYet
<1>3. /\ ~stream.pcapng /\ PcapPlace
      /\ \/ state = "READ_REC_HDR" /\ cont = "rechdr"
         \/ state = "READ_DATA" /\ cont = "data"
  BY <1>1, <1>2 DEF PlaceInv
<1>4. /\ stream \in Streams /\ Recs = DOMAIN stream.recs /\ Len(pipe) \in Nat
      /\ MaxUnits \in Nat /\ MaxUnits >= 3 /\ Cur \in Nat \ {0}
      /\ \A r \in Recs : /\ Size(stream, r) \in Nat /\ Size(stream, r) = Hdr + stream.recs[r].len
                         /\ stream.recs[r].len \in Nat
  BY <1>2, PlaceFacts, StreamFacts DEF Fixed, Size
<1>5. toRead \in Nat /\ bytesRead \in Nat /\ toRead <= MaxUnits /\ bytesRead <= toRead
  BY <1>2, <1>4 DEF TypeOK
<1>6. /\ n \in Nat \ {0} /\ n <= Len(pipe) /\ pipe' = SubSeq(pipe, n + 1, Len(pipe))
      /\ bytesRead + n <= toRead
  BY <1>1, <1>4, <1>5 DEF Take
<1>7. Taken = IF cont = "rechdr" THEN bytesRead ELSE Hdr + bytesRead
  BY <1>1, <1>3 DEF Taken, PcapPlace
<1>8. cont = "rechdr" => toRead = Hdr /\ \A i \in 1..bytesRead : hdr[i] = U(Cur, i)
  BY <1>3 DEF PcapPlace, Header
<1>9. cont = "data" => /\ toRead = stream.recs[Cur].len
                       /\ \A i \in 1..bytesRead : buf[i] = U(Cur, Hdr + i)
  BY <1>3 DEF PcapPlace
<1>10. /\ Cur \in Recs
       /\ \A i \in 1..n : pipe[i] = U(Cur, Taken + i)
       /\ Chain(stream, U(Cur, Taken + n), pipe', sent)
       /\ pipe' \in Seq(Unit) /\ Len(pipe') = Len(pipe) - n
  <2>1. ASSUME Cur \in Recs PROVE Taken + n <= Size(stream, Cur)
    BY <2>1, <1>3, <1>4, <1>5, <1>6, <1>7, <1>8, <1>9, SMTT(30) DEF Hdr
  <2> QED
    BY <2>1, <1>2, <1>6, NextUnits
<1>11. Len(pipe') <= Capacity
  BY <1>2, <1>4, <1>6, <1>10, PipeAssumption DEF TypeOK
<1>12. hdr \in [1..Hdr -> Unit] /\ buf \in [1..MaxUnits -> Unit] /\ pipe \in Seq(Unit)
  BY <1>2 DEF TypeOK
<1>13. \A i \in 1..(bytesRead + n) : i \in 1..bytesRead \/ i - bytesRead \in 1..n
  BY <1>5, <1>6
<1>14. CASE cont = "rechdr"
  <2>1. /\ hdr' \in [1..Hdr -> Unit]
        /\ \A i \in 1..bytesRead : hdr'[i] = hdr[i]
        /\ \A i \in 1..n : hdr'[bytesRead + i] = pipe[i]
    <3>1. Hdr \in Nat /\ bytesRead + n <= Hdr
      BY <1>6, <1>8, <1>14 DEF Hdr
    <3>2. /\ Stored(hdr, bytesRead, n) \in [1..Hdr -> Unit]
          /\ \A i \in 1..bytesRead : Stored(hdr, bytesRead, n)[i] = hdr[i]
          /\ \A i \in 1..n : Stored(hdr, bytesRead, n)[bytesRead + i] = pipe[i]
      BY <3>1, <1>5, <1>6, <1>12, StoredUnits
    <3> QED
      BY <3>2, <1>1, <1>14
  <2>2. ASSUME NEW i \in 1..(bytesRead + n) PROVE hdr'[i] = U(Cur, i)
    <3>1. CASE i \in 1..bytesRead
      BY <3>1, <2>1, <1>8, <1>14
    <3>2. CASE i - bytesRead \in 1..n
      <4>1. PICK j \in 1..n : j = i - bytesRead
        BY <3>2
      <4>2. bytesRead + j = i
        BY <4>1, <1>5
      <4>3. hdr'[i] = pipe[j] /\ pipe[j] = U(Cur, bytesRead + j)
        BY <4>2, <2>1, <1>7, <1>10, <1>14
      <4> QED
        BY <4>2, <4>3
    <3> QED
      BY <3>1, <3>2, <2>2, <1>13
  <2>3. Chain(stream, U(Cur, bytesRead + n), pipe', sent)
    BY <1>7, <1>10, <1>14
  <2>4. bytesRead' = bytesRead + n /\ bytesRead' \in Nat /\ bytesRead' <= toRead
    BY <1>1, <1>5, <1>6
  <2>5. buf' \in [1..MaxUnits -> Unit] /\ buf' = buf
    BY <1>1, <1>12, <1>14
  <2> QED
    BY <2>1, <2>2, <2>3, <2>4, <2>5, <1>1, <1>2, <1>3, <1>4, <1>6, <1>8, <1>10, <1>11, <1>14
<1>15. CASE cont = "data"
  <2>1. /\ buf' \in [1..MaxUnits -> Unit]
        /\ \A i \in 1..bytesRead : buf'[i] = buf[i]
        /\ \A i \in 1..n : buf'[bytesRead + i] = pipe[i]
    <3>1. /\ bytesRead + n <= MaxUnits /\ MaxUnits \in Nat
          /\ bytesRead \in Nat /\ n \in Nat /\ n <= Len(pipe)
      BY <1>4, <1>5, <1>6
    <3>2. /\ Stored(buf, bytesRead, n) \in [1..MaxUnits -> Unit]
          /\ \A i \in 1..bytesRead : Stored(buf, bytesRead, n)[i] = buf[i]
          /\ \A i \in 1..n : Stored(buf, bytesRead, n)[bytesRead + i] = pipe[i]
      BY <3>1, <1>12, StoredUnits
    <3> QED
      BY <3>2, <1>1, <1>15
  <2>2. ASSUME NEW i \in 1..(bytesRead + n) PROVE buf'[i] = U(Cur, Hdr + i)
    <3>1. CASE i \in 1..bytesRead
      BY <3>1, <2>1, <1>9, <1>15
    <3>2. CASE i - bytesRead \in 1..n
      <4>1. PICK j \in 1..n : j = i - bytesRead
        BY <3>2
      <4>2. bytesRead + j = i /\ (Hdr + bytesRead) + j = Hdr + i
        BY <4>1, <1>5 DEF Hdr
      <4>3. buf'[i] = pipe[j] /\ pipe[j] = U(Cur, (Hdr + bytesRead) + j)
        BY <4>2, <2>1, <1>7, <1>10, <1>15
      <4> QED
        BY <4>2, <4>3
    <3> QED
      BY <3>1, <3>2, <2>2, <1>13
  <2>3. Chain(stream, U(Cur, Hdr + (bytesRead + n)), pipe', sent)
    <3>1. (Hdr + bytesRead) + n = Hdr + (bytesRead + n)
      BY <1>5, <1>6 DEF Hdr
    <3> QED
      BY <3>1, <1>7, <1>10, <1>15
  <2>4. bytesRead' = bytesRead + n /\ bytesRead' \in Nat /\ bytesRead' <= toRead
    BY <1>1, <1>5, <1>6
  <2>5. hdr' \in [1..Hdr -> Unit] /\ hdr' = hdr
    BY <1>1, <1>12, <1>15
  <2> QED
    BY <2>1, <2>2, <2>3, <2>4, <2>5, <1>1, <1>2, <1>3, <1>4, <1>6, <1>9, <1>10, <1>11, <1>15
<1> QED
  BY <1>3, <1>14, <1>15

(* A part of a header, or of the data.                                     *)
LEMMA ReadPartStep ==
    ASSUME PipeInv, ReadPart
    PROVE  PipeInv'
<1>1. PICK n \in 1..MaxUnits : Read(n) /\ bytesRead + n < toRead /\ Return(0)
                               /\ UNCHANGED <<state, err, delivered>>
  BY DEF ReadPart
<1>2. ret' = 0 /\ at' = "loop" /\ state' = state /\ err' = err /\ delivered' = delivered
  BY <1>1 DEF Return
<1>3. /\ at = "read" /\ ~stream.pcapng /\ PcapPlace /\ n \in Nat \ {0}
      /\ err = "PIPOK" /\ TypeOK /\ PlaceInv /\ DeliveredWhole
      /\ UNCHANGED <<stream, sent, closed, go, cont, toRead, got>>
      /\ bytesRead' = bytesRead + n /\ bytesRead' \in Nat
      /\ \/ state = "READ_REC_HDR" /\ cont = "rechdr"
         \/ state = "READ_DATA" /\ cont = "data"
      /\ Cur \in Recs /\ Cur \in Nat \ {0}
      /\ Size(stream, Cur) \in Nat /\ Size(stream, Cur) = Hdr + stream.recs[Cur].len
      /\ pipe' \in Seq(Unit) /\ Len(pipe') <= Capacity
      /\ hdr' \in [1..Hdr -> Unit] /\ buf' \in [1..MaxUnits -> Unit]
  BY <1>1, ReadUnits
<1>4. /\ cont = "rechdr" =>
            /\ toRead = Hdr
            /\ \A i \in 1..bytesRead' : hdr'[i] = U(Cur, i)
            /\ Chain(stream, U(Cur, bytesRead'), pipe', sent)
      /\ cont = "data" =>
            /\ hdr' = hdr /\ toRead = stream.recs[Cur].len
            /\ \A i \in 1..bytesRead' : buf'[i] = U(Cur, Hdr + i)
            /\ Chain(stream, U(Cur, Hdr + bytesRead'), pipe', sent)
  BY <1>1, ReadUnits
<1>5. bytesRead' < toRead /\ bytesRead' # 0 /\ bytesRead \in Nat
  <2>1. MaxUnits \in Nat
    BY PipeAssumption
  <2>2. toRead \in Nat /\ bytesRead \in Nat
    BY <2>1, <1>3 DEF TypeOK
  <2> QED
    BY <2>2, <1>1, <1>3
<1>6. TypeOK'
  <2>1. bytesRead' \in 0..toRead'
    <3>1. toRead \in Nat
      BY <1>3, PipeAssumption DEF TypeOK
    <3> QED
      BY <3>1, <1>3, <1>5
  <2> QED
    BY <2>1, <1>2, <1>3 DEF TypeOK
<1>7. DeliveredWhole'
  BY <1>2, <1>3 DEF DeliveredWhole, Nth, DataOf, Units
<1>8. ErrInv'
  BY <1>2, <1>3 DEF ErrInv
<1>9. Cur' = Cur /\ Recs' = Recs
  BY <1>2, <1>3 DEF Cur, Nth, Recs
<1>10. PlaceInv'
  <2>1. CASE cont = "rechdr"
    <3>1. state = "READ_REC_HDR"
      BY <2>1, <1>3
    <3>2. Taken' = bytesRead'
      BY <3>1, <1>2, <1>3 DEF Taken
    <3>3. LastRead' = U(Cur, bytesRead')
      BY <3>2, <1>5, <1>9 DEF LastRead
    <3>4. PcapPlace'
      BY <2>1, <3>1, <1>2, <1>3, <1>4, <1>5, <1>9 DEF PcapPlace, InOpen, Header
    <3>5. Taken' <= Size(stream, Cur)
      <4>1. stream.recs[Cur].len \in Nat
        BY <1>1, ReadUnits
      <4> QED
        BY <4>1, <3>2, <2>1, <1>3, <1>4, <1>5 DEF Hdr
    <3> QED
      BY <3>2, <3>3, <3>4, <3>5, <2>1, <1>2, <1>3, <1>4, <1>9 DEF PlaceInv
  <2>2. CASE cont = "data"
    <3>1. state = "READ_DATA"
      BY <2>2, <1>3
    <3>2. Taken' = Hdr + bytesRead' /\ Taken' # 0
      BY <3>1, <1>2, <1>3, <1>5 DEF Taken, Hdr
    <3>3. LastRead' = U(Cur, Hdr + bytesRead')
      BY <3>2, <1>9 DEF LastRead
    <3>4. PcapPlace'
      <4>1. Header(Hdr) /\ stream.recs[Cur].len > 0
        BY <3>1, <1>3 DEF PcapPlace
      <4> QED
        BY <4>1, <2>2, <3>1, <1>2, <1>3, <1>4, <1>5, <1>9 DEF PcapPlace, InOpen, Header
    <3>5. Taken' <= Size(stream, Cur)
      <4>1. stream.recs[Cur].len \in Nat
        BY <1>1, ReadUnits
      <4> QED
        BY <4>1, <3>2, <2>2, <1>3, <1>4, <1>5, SMTT(30) DEF Hdr
    <3> QED
      BY <3>2, <3>3, <3>4, <3>5, <2>2, <1>2, <1>3, <1>4, <1>9 DEF PlaceInv
  <2> QED
    BY <2>1, <2>2, <1>3
<1> QED
  BY <1>3, <1>6, <1>7, <1>8, <1>10 DEF PipeInv

(* One more record has been delivered: the reader is at the beginning of   *)
(* the next one, and what is left in the pipe is behind the one delivered. *)
LEMMA NextRecord ==
    ASSUME TypeOK, DeliveredWhole, NEW d, stream' = stream, Cur \in Recs,
           at \notin {"magic", "header"}, at' = "loop", state' = "EXPECT_REC_HDR",
           d = [rec |-> Cur, data |-> DataOf(Cur)], delivered' = Append(delivered, d),
           cont' \in {"rechdr", "data"}, stream.pcapng => cont' = "data",
           Chain(stream, U(Cur, Size(stream, Cur)), pipe', sent')
    PROVE  DeliveredWhole' /\ PlaceInv'
<1>1. /\ Cur = Nth(Len(delivered) + 1) /\ Cur \in Nat \ {0} /\ Len(delivered) \in Nat
      /\ delivered \in Seq([rec : Nat, data : Seq(Unit)])
  BY PlaceFacts DEF Cur, TypeOK
<1>2. /\ Len(delivered') = Len(delivered) + 1
      /\ DOMAIN delivered' = 1..(Len(delivered) + 1)
      /\ \A k \in 1..Len(delivered) : delivered'[k] = delivered[k]
      /\ delivered'[Len(delivered) + 1] = d
      /\ DOMAIN delivered = 1..Len(delivered)
  BY <1>1
<1>3. DeliveredWhole'
  <2>1. ASSUME NEW k \in DOMAIN delivered'
        PROVE  delivered'[k] = [rec |-> Nth(k), data |-> DataOf(Nth(k))]
    <3>1. CASE k = Len(delivered) + 1
      BY <3>1, <1>1, <1>2
    <3>2. CASE k # Len(delivered) + 1
      <4>1. k \in 1..Len(delivered)
        BY <3>2, <2>1, <1>1, <1>2
      <4> QED
        BY <4>1, <1>2 DEF DeliveredWhole
    <3> QED
      BY <3>1, <3>2
  <2> DEFINE N(st, k) == IF st.pcapng THEN k ELSE k + 1
             D(st, r) == IF st.pcapng THEN [i \in 1..(Hdr + st.recs[r].len) |-> U(r, i)]
                         ELSE [i \in 1..st.recs[r].len |-> U(r, Hdr + i)]
             W(st, e) == \A k \in DOMAIN e :
                            e[k] = [rec |-> N(st, k), data |-> D(st, N(st, k))]
  <2>2. W(stream, delivered')
    BY <2>1 DEF Nth, DataOf, Units, U
  <2> HIDE DEF W
  <2>3. W(stream', delivered')
    BY <2>2
  <2> QED
    BY <2>3 DEF W, DeliveredWhole, Nth, DataOf, Units, U
<1>4. Cur' = Cur + 1
  BY <1>1, <1>2 DEF Cur, Nth
<1>5. Taken' = 0 /\ ~InOpen'
  BY DEF Taken, InOpen
<1>6. LastRead' = U(Cur, Size(stream, Cur))
  <2>1. Cur' # 1 /\ Cur' - 1 = Cur
    BY <1>1, <1>4
  <2> QED
    BY <2>1, <1>5 DEF LastRead
<1>7. Cur' - 1 = Cur /\ Recs' = Recs
  BY <1>1, <1>4 DEF Recs
<1>8. ~stream.pcapng => PcapPlace'
  BY <1>5 DEF PcapPlace
<1>9. stream.pcapng => PcapngPlace'
  BY <1>5 DEF PcapngPlace, Idle
<1>10. PlaceInv'
  BY <1>5, <1>6, <1>7, <1>8, <1>9 DEF PlaceInv
<1> QED
  BY <1>3, <1>10

(* The header of a packet is complete.                                     *)
LEMMA ReadHeaderStep ==
    ASSUME PipeInv, ReadHeader
    PROVE  PipeInv'
<1>1. PICK n \in 1..MaxUnits :
         /\ cont = "rechdr" /\ Read(n) /\ bytesRead + n = toRead
         /\ \/ /\ KindOf(hdr') = "bad"
               /\ err' = "PIPERR" /\ Return(-1)
               /\ UNCHANGED <<state, delivered>>
            \/ /\ KindOf(hdr') # "bad" /\ LenOf(hdr') > 0
               /\ state' = "EXPECT_DATA" /\ Return(0)
               /\ UNCHANGED <<err, delivered>>
            \/ /\ KindOf(hdr') # "bad" /\ LenOf(hdr') = 0
               /\ Deliver(hdr', buf, 0)
               /\ state' = "EXPECT_REC_HDR" /\ Return(1)
               /\ UNCHANGED err
  BY DEF ReadHeader
<1>2. /\ at = "read" /\ ~stream.pcapng /\ n \in Nat \ {0}
      /\ err = "PIPOK" /\ TypeOK /\ PlaceInv /\ DeliveredWhole
      /\ UNCHANGED <<stream, sent, closed, go, cont, toRead, got>>
      /\ bytesRead' = bytesRead + n /\ bytesRead' \in Nat
      /\ Cur \in Recs /\ Cur \in Nat \ {0}
      /\ Size(stream, Cur) \in Nat /\ Size(stream, Cur) = Hdr + stream.recs[Cur].len
      /\ stream.recs[Cur].len \in Nat
      /\ pipe' \in Seq(Unit) /\ Len(pipe') <= Capacity
      /\ hdr' \in [1..Hdr -> Unit] /\ buf' \in [1..MaxUnits -> Unit]
  BY <1>1, ReadUnits
<1>3. /\ buf' = buf /\ toRead = Hdr
      /\ \A i \in 1..bytesRead' : hdr'[i] = U(Cur, i)
      /\ Chain(stream, U(Cur, bytesRead'), pipe', sent)
  BY <1>1, ReadUnits
<1>4. bytesRead' = Hdr
  BY <1>1, <1>2, <1>3
<1>5. \A i \in 1..Hdr : hdr'[i] = U(Cur, i)
  BY <1>3, <1>4
<1>6. /\ RecOf(hdr') = Cur /\ KindOf(hdr') = stream.recs[Cur].kind
      /\ LenOf(hdr') = stream.recs[Cur].len
  BY <1>2, <1>5, HeaderTells
<1>7. at' = "loop"
  BY <1>1 DEF Return
<1>8. /\ stream' \in Streams /\ sent' \in Unit /\ closed' \in BOOLEAN
      /\ pipe' \in Seq(Unit) /\ Len(pipe') <= Capacity /\ go' \in BOOLEAN
      /\ cont' \in {"none", "openlen", "openshb", "rechdr", "shb", "data"}
      /\ toRead' \in 0..MaxUnits /\ bytesRead' \in 0..toRead' /\ got' \in 0..MaxUnits
  <2>1. bytesRead' \in 0..toRead'
    BY <1>2, <1>3, <1>4 DEF Hdr
  <2> QED
    BY <2>1, <1>2 DEF TypeOK
<1>9. CASE /\ KindOf(hdr') = "bad"
           /\ err' = "PIPERR" /\ Return(-1)
           /\ UNCHANGED <<state, delivered>>
  <2>1. TypeOK'
    BY <1>2, <1>7, <1>8, <1>9 DEF TypeOK, Return
  <2>2. DeliveredWhole'
    BY <1>2, <1>9 DEF DeliveredWhole, Nth, DataOf, Units
  <2>3. ErrInv'
    BY <1>7, <1>9 DEF ErrInv
  <2> QED
    BY <2>1, <2>2, <2>3, <1>9 DEF PipeInv
<1>10. CASE /\ KindOf(hdr') # "bad" /\ LenOf(hdr') > 0
            /\ state' = "EXPECT_DATA" /\ Return(0)
            /\ UNCHANGED <<err, delivered>>
  <2>1. TypeOK'
    BY <1>2, <1>7, <1>8, <1>10 DEF TypeOK, Return
  <2>2. DeliveredWhole'
    BY <1>2, <1>10 DEF DeliveredWhole, Nth, DataOf, Units
  <2>3. ErrInv'
    BY <1>2, <1>10 DEF ErrInv, Return
  <2>4. Cur' = Cur /\ Recs' = Recs
    BY <1>2, <1>7, <1>10 DEF Cur, Nth, Recs
  <2>5. Taken' = Hdr /\ Taken' # 0
    BY <1>2, <1>7, <1>10 DEF Taken, Hdr
  <2>6. LastRead' = U(Cur, Hdr)
    BY <2>4, <2>5 DEF LastRead
  <2>7. PcapPlace'
    BY <2>4, <1>1, <1>2, <1>5, <1>6, <1>10 DEF PcapPlace, InOpen, Header
  <2>8. Taken' <= Size(stream, Cur)
    BY <2>5, <1>2 DEF Hdr
  <2>9. PlaceInv'
    BY <2>4, <2>5, <2>6, <2>7, <2>8, <1>2, <1>3, <1>4, <1>7 DEF PlaceInv
  <2> QED
    BY <2>1, <2>2, <2>3, <2>9 DEF PipeInv
<1>11. CASE /\ KindOf(hdr') # "bad" /\ LenOf(hdr') = 0
            /\ Deliver(hdr', buf, 0)
            /\ state' = "EXPECT_REC_HDR" /\ Return(1)
            /\ UNCHANGED err
  <2>1. SubSeq(buf, 1, 0) = <<>> /\ DataOf(Cur) = <<>>
    <3>1. buf \in [1..MaxUnits -> Unit] /\ MaxUnits \in Nat
      BY <1>2, PipeAssumption DEF TypeOK
    <3>2. SubSeq(buf, 1, 0) = <<>>
      BY <3>1
    <3>3. stream.recs[Cur].len = 0
      BY <1>6, <1>11
    <3> QED
      BY <3>2, <3>3, <1>2 DEF DataOf
  <2>2. PICK d : d = [rec |-> Cur, data |-> DataOf(Cur)]
    OBVIOUS
  <2>3. delivered' = Append(delivered, d)
    BY <2>1, <2>2, <1>6, <1>11 DEF Deliver
  <2>4. d \in [rec : Nat, data : Seq(Unit)]
    BY <2>1, <2>2, <1>2
  <2>5. Size(stream, Cur) = Hdr
    BY <1>2, <1>6, <1>11 DEF Hdr
  <2>6. DeliveredWhole' /\ PlaceInv'
    BY <2>2, <2>3, <2>5, <1>1, <1>2, <1>3, <1>4, <1>7, <1>11, NextRecord
  <2>7. TypeOK'
    BY <2>3, <2>4, <1>2, <1>7, <1>8, <1>11 DEF TypeOK, Return
  <2>8. ErrInv'
    BY <1>2, <1>11 DEF ErrInv, Return
  <2> QED
    BY <2>6, <2>7, <2>8 DEF PipeInv
<1> QED
  BY <1>1, <1>9, <1>10, <1>11

(* The data of a packet is complete.                                       *)
LEMMA ReadDataStep ==
    ASSUME PipeInv, ReadData
    PROVE  PipeInv'
<1>1. PICK n \in 1..MaxUnits :
         /\ cont = "data" /\ Read(n) /\ bytesRead + n = toRead
         /\ Deliver(hdr, buf', toRead)
         /\ state' = "EXPECT_REC_HDR" /\ Return(1)
         /\ UNCHANGED err
  BY DEF ReadData
<1>2. /\ at = "read" /\ ~stream.pcapng /\ n \in Nat \ {0} /\ PcapPlace
      /\ err = "PIPOK" /\ TypeOK /\ PlaceInv /\ DeliveredWhole
      /\ UNCHANGED <<stream, sent, closed, go, cont, toRead, got>>
      /\ bytesRead' = bytesRead + n /\ bytesRead' \in Nat
      /\ Cur \in Recs /\ Cur \in Nat \ {0}
      /\ Size(stream, Cur) \in Nat /\ Size(stream, Cur) = Hdr + stream.recs[Cur].len
      /\ pipe' \in Seq(Unit) /\ Len(pipe') <= Capacity
      /\ hdr' \in [1..Hdr -> Unit] /\ buf' \in [1..MaxUnits -> Unit]
  BY <1>1, ReadUnits
<1>3. /\ hdr' = hdr /\ toRead = stream.recs[Cur].len /\ state = "READ_DATA"
      /\ \A i \in 1..bytesRead' : buf'[i] = U(Cur, Hdr + i)
      /\ Chain(stream, U(Cur, Hdr + bytesRead'), pipe', sent)
  BY <1>1, ReadUnits
<1>4. bytesRead' = toRead
  BY <1>1, <1>2
<1>5. RecOf(hdr) = Cur
  <2>1. \A i \in 1..Hdr : hdr[i] = U(Cur, i)
    BY <1>2, <1>3 DEF PcapPlace, Header
  <2> QED
    BY <2>1, <1>2, HeaderTells
<1>6. toRead \in 0..MaxUnits /\ MaxUnits \in Nat
  BY <1>2, PipeAssumption DEF TypeOK
<1>7. SubSeq(buf', 1, toRead) = DataOf(Cur) /\ SubSeq(buf', 1, toRead) \in Seq(Unit)
  <2>1. PICK b \in [1..MaxUnits -> Unit] : b = buf'
    BY <1>2
  <2>2. SubSeq(b, 1, toRead) = [i \in 1..toRead |-> b[i]] /\ SubSeq(b, 1, toRead) \in Seq(Unit)
    BY <1>6, FirstUnits
  <2>3. \A i \in 1..toRead : b[i] = U(Cur, Hdr + i)
    BY <2>1, <1>3, <1>4
  <2>4. DataOf(Cur) = [i \in 1..toRead |-> U(Cur, Hdr + i)]
    BY <1>2, <1>3 DEF DataOf, U
  <2> QED
    BY <2>1, <2>2, <2>3, <2>4
<1>8. PICK d : d = [rec |-> Cur, data |-> DataOf(Cur)]
  OBVIOUS
<1>9. delivered' = Append(delivered, d) /\ d \in [rec : Nat, data : Seq(Unit)]
  BY <1>1, <1>2, <1>5, <1>7, <1>8 DEF Deliver
<1>10. at' = "loop" /\ state' = "EXPECT_REC_HDR" /\ ret' = 1 /\ err' = err
  BY <1>1 DEF Return
<1>11. DeliveredWhole' /\ PlaceInv'
  <2>1. Chain(stream, U(Cur, Size(stream, Cur)), pipe', sent')
    BY <1>2, <1>3, <1>4
  <2> QED
    BY <2>1, <1>1, <1>2, <1>8, <1>9, <1>10, NextRecord
<1>12. TypeOK'
  <2>1. bytesRead' \in 0..toRead'
    BY <1>2, <1>4, <1>6
  <2> QED
    BY <2>1, <1>2, <1>9, <1>10 DEF TypeOK
<1>13. ErrInv'
  BY <1>2, <1>10 DEF ErrInv
<1> QED
  BY <1>11, <1>12, <1>13 DEF PipeInv

(***************************************************************************)
(* cap_pipe_read_data_bytes and pcapng_pipe_dispatch.                      *)
(***************************************************************************)
(* Where a reader of blocks is, as numbers.                                *)
LEMMA BlockFacts ==
    ASSUME PipeInv, at = "reading"
    PROVE  /\ err = "PIPOK" /\ TypeOK /\ PlaceInv /\ DeliveredWhole /\ PcapngPlace
           /\ stream.pcapng /\ Taken = bytesRead + got /\ got <= toRead - bytesRead
           /\ toRead \in Nat /\ bytesRead \in Nat /\ got \in Nat
           /\ toRead <= MaxUnits /\ bytesRead <= toRead /\ MaxUnits \in Nat /\ MaxUnits >= Fixed
           /\ Cur \in Nat \ {0} /\ Len(pipe) \in Nat
           /\ stream \in Streams /\ Recs = DOMAIN stream.recs
           /\ Cur \in Recs => /\ Size(stream, Cur) \in Nat /\ Size(stream, Cur) >= Hdr
                              /\ Size(stream, Cur) = Hdr + stream.recs[Cur].len
                              /\ Kind \in {"shb", "foreign"} => Size(stream, Cur) > Fixed
                              /\ Kind \in Kinds \ {"file", "old", "pkt"}
           /\ \A i \in 1..(bytesRead + got) : buf[i] = U(Cur, i)
<1>1. err = "PIPOK" /\ TypeOK /\ PlaceInv /\ DeliveredWhole
  BY NoErrorYet
<1>2. /\ stream.pcapng /\ PcapngPlace /\ got <= toRead - bytesRead
      /\ state # "EXPECT_REC_HDR" \/ InOpen
  BY <1>1 DEF PlaceInv
<1>3. Taken = bytesRead + got
  BY <1>2 DEF Taken
<1>4. /\ stream \in Streams /\ Recs = DOMAIN stream.recs /\ Len(pipe) \in Nat
      /\ MaxUnits \in Nat /\ MaxUnits >= Fixed /\ Cur \in Nat \ {0}
  BY <1>1, PlaceFacts, StreamFacts
<1>5. /\ toRead \in Nat /\ bytesRead \in Nat /\ got \in Nat
      /\ toRead <= MaxUnits /\ bytesRead <= toRead
  BY <1>1, <1>4 DEF TypeOK
<1>6. ASSUME Cur \in Recs
      PROVE  /\ Size(stream, Cur) \in Nat /\ Size(stream, Cur) >= Hdr
             /\ Size(stream, Cur) = Hdr + stream.recs[Cur].len
             /\ Kind \in {"shb", "foreign"} => Size(stream, Cur) > Fixed
             /\ Kind \in Kinds \ {"file", "old", "pkt"}
  BY <1>2, <1>4, <1>6, StreamFacts DEF Kind, Size
<1>7. \A i \in 1..(bytesRead + got) : buf[i] = U(Cur, i)
  BY <1>2, <1>3 DEF PcapngPlace
<1> QED
  BY <1>1, <1>2, <1>3, <1>4, <1>5, <1>6, <1>7

(* A piece of what is awaited.                                             *)
LEMMA FillStep ==
    ASSUME PipeInv, Fill
    PROVE  PipeInv'
<1>1. at = "reading" /\ UNCHANGED <<stream, sent, closed, go, at, cont, state, hdr, toRead,
                                     bytesRead, err, ret, delivered>>
  BY DEF Fill, writer, result
<1>2. PICK n \in 1..MaxUnits : /\ Take(toRead - bytesRead - got, n)
                               /\ buf' = Stored(buf, bytesRead + got, n)
                               /\ got' = got + n
  BY DEF Fill
<1>3. /\ err = "PIPOK" /\ TypeOK /\ PlaceInv /\ DeliveredWhole /\ PcapngPlace
      /\ stream.pcapng /\ Taken = bytesRead + got /\ got <= toRead - bytesRead
      /\ toRead \in Nat /\ bytesRead \in Nat /\ got \in Nat
      /\ toRead <= MaxUnits /\ bytesRead <= toRead /\ MaxUnits \in Nat
      /\ Cur \in Nat \ {0} /\ Len(pipe) \in Nat
      /\ Cur \in Recs => /\ Size(stream, Cur) \in Nat /\ Size(stream, Cur) >= Hdr
                         /\ Kind \in {"shb", "foreign"} => Size(stream, Cur) > Fixed
      /\ \A i \in 1..(bytesRead + got) : buf[i] = U(Cur, i)
  BY <1>1, BlockFacts
<1>4. /\ n \in Nat \ {0} /\ n <= Len(pipe) /\ pipe' = SubSeq(pipe, n + 1, Len(pipe))
      /\ bytesRead + got + n <= toRead
  BY <1>2, <1>3 DEF Take
<1>5. /\ cont = "openlen" => toRead = Hdr
      /\ cont = "openshb" => toRead = Fixed /\ Kind \in {"shb", "foreign"}
      /\ cont = "rechdr" => toRead = Hdr
      /\ cont = "shb" => toRead = Fixed /\ Kind \in {"shb", "foreign"}
      /\ cont = "data" => toRead = Units(Cur)
      /\ cont \in {"openlen", "openshb", "rechdr", "shb", "data"}
  <2>1. toRead # bytesRead
    BY <1>3, <1>4
  <2>2. cont \in {"openlen", "openshb", "rechdr", "shb", "data"}
    BY <1>1, <1>3 DEF PlaceInv, InOpen
  <2> QED
    BY <2>1, <2>2, <1>1, <1>3 DEF PcapngPlace, Units, Size
<1>6. ASSUME Cur \in Recs PROVE Taken + n <= Size(stream, Cur)
  <2>1. toRead <= Size(stream, Cur)
    BY <1>3, <1>5, <1>6 DEF Hdr, Fixed, Units, Size
  <2> QED
    BY <2>1, <1>3, <1>4, <1>6
<1>7. /\ Cur \in Recs
      /\ \A i \in 1..n : pipe[i] = U(Cur, Taken + i)
      /\ Chain(stream, U(Cur, Taken + n), pipe', sent)
      /\ pipe' \in Seq(Unit) /\ Len(pipe') = Len(pipe) - n
  BY <1>3, <1>4, <1>6, NextUnits
<1>8. PICK o \in Nat : o = bytesRead + got
  BY <1>3
<1>9. /\ buf' \in [1..MaxUnits -> Unit]
      /\ \A i \in 1..o : buf'[i] = buf[i]
      /\ \A i \in 1..n : buf'[o + i] = pipe[i]
  <2>1. /\ buf \in [1..MaxUnits -> Unit] /\ pipe \in Seq(Unit) /\ MaxUnits \in Nat
        /\ n \in Nat /\ n <= Len(pipe) /\ o + n <= MaxUnits
    BY <1>3, <1>4, <1>8 DEF TypeOK
  <2>2. /\ Stored(buf, o, n) \in [1..MaxUnits -> Unit]
        /\ \A i \in 1..o : Stored(buf, o, n)[i] = buf[i]
        /\ \A i \in 1..n : Stored(buf, o, n)[o + i] = pipe[i]
    BY <2>1, StoredUnits
  <2> QED
    BY <2>2, <1>2, <1>8
<1>10. ASSUME NEW i \in 1..(o + n) PROVE buf'[i] = U(Cur, i)
  <2>1. CASE i \in 1..o
    BY <2>1, <1>3, <1>8, <1>9
  <2>2. CASE i \notin 1..o
    <3>1. PICK j \in 1..n : o + j = i
      <4>1. i - o \in 1..n /\ o + (i - o) = i
        BY <2>2, <1>4
      <4> QED
        BY <4>1
    <3>2. buf'[i] = pipe[j] /\ pipe[j] = U(Cur, o + j)
      BY <3>1, <1>3, <1>7, <1>8, <1>9
    <3> QED
      BY <3>1, <3>2
  <2> QED
    BY <2>1, <2>2
<1>11. Cur' = Cur /\ Recs' = Recs /\ InOpen' = InOpen /\ Kind' = Kind
  BY <1>1 DEF Cur, Nth, Recs, InOpen, Kind
<1>12. Taken' = o + n /\ Taken' # 0
  <2>1. Taken' = bytesRead + (got + n)
    BY <1>1, <1>2, <1>3 DEF Taken, PlaceInv, InOpen
  <2> QED
    BY <2>1, <1>3, <1>4, <1>8
<1>13. LastRead' = U(Cur, o + n)
  BY <1>11, <1>12 DEF LastRead
<1>14. TypeOK'
  <2>1. Len(pipe') <= Capacity
    BY <1>3, <1>4, <1>7, PipeAssumption DEF TypeOK
  <2>2. got' \in 0..MaxUnits
    BY <1>2, <1>3, <1>4
  <2> QED
    BY <2>1, <2>2, <1>1, <1>3, <1>7, <1>9 DEF TypeOK
<1>15. DeliveredWhole'
  BY <1>1, <1>3 DEF DeliveredWhole, Nth, DataOf, Units
<1>16. ErrInv'
  BY <1>1, <1>3 DEF PipeInv, ErrInv
<1>17. PcapngPlace'
  <2>1. \A i \in 1..Taken' : buf'[i] = U(Cur', i)
    BY <1>10, <1>11, <1>12
  <2>2. Header(Hdr) => Header(Hdr)'
    BY <1>1, <1>11 DEF Header
  <2> QED
    BY <2>1, <2>2, <1>1, <1>3, <1>11 DEF PcapngPlace, Idle
<1>18. PlaceInv'
  <2>1. Taken' <= Size(stream, Cur) /\ got' <= toRead - bytesRead
    <3>1. Taken + n = o + n
      BY <1>3, <1>8
    <3>2. Taken' <= Size(stream, Cur)
      BY <3>1, <1>6, <1>7, <1>12
    <3>3. got' <= toRead - bytesRead
      BY <1>2, <1>3, <1>4
    <3> QED
      BY <3>2, <3>3
  <2>2. Chain(stream, LastRead', pipe', sent)
    BY <1>3, <1>7, <1>8, <1>13
  <2> QED
    BY <2>1, <2>2, <1>1, <1>3, <1>7, <1>11, <1>17 DEF PlaceInv
<1> QED
  BY <1>14, <1>15, <1>16, <1>18 DEF PipeInv

(* The header of a block is complete: the SHB is read on; a block that is  *)
(* malformed ends the capture; the data of another one comes next.         *)
LEMMA BlockHeaderStep ==
    ASSUME PipeInv, BlockHeader
    PROVE  PipeInv'
<1>1. /\ at = "reading" /\ cont = "rechdr" /\ got = toRead - bytesRead
      /\ bytesRead' = toRead /\ got' = 0 /\ hdr' = SubSeq(buf, 1, Hdr)
      /\ UNCHANGED <<stream, sent, closed, pipe, go, buf, delivered>>
  BY DEF BlockHeader, Filled, ExpectShb, writer, result
<1>2. \/ /\ KindOf(hdr') \in {"shb", "foreign"}
         /\ toRead' = Fixed /\ cont' = "shb" /\ UNCHANGED <<at, state, err, ret>>
      \/ /\ KindOf(hdr') = "bad" /\ err' = "PIPERR" /\ ret' = -1 /\ at' = "loop"
         /\ UNCHANGED <<cont, state, toRead>>
      \/ /\ KindOf(hdr') = "short" /\ err' = "PIPEOF" /\ ret' = -1 /\ at' = "loop"
         /\ UNCHANGED <<cont, state, toRead>>
      \/ /\ KindOf(hdr') \notin {"shb", "foreign", "bad", "short"}
         /\ state' = "EXPECT_DATA" /\ ret' = 0 /\ at' = "loop"
         /\ UNCHANGED <<cont, toRead, err>>
  BY DEF BlockHeader, ExpectShb, Return, result
<1>3. /\ err = "PIPOK" /\ TypeOK /\ PlaceInv /\ DeliveredWhole /\ PcapngPlace
      /\ stream.pcapng /\ Taken = bytesRead + got
      /\ toRead \in Nat /\ bytesRead \in Nat /\ got \in Nat
      /\ toRead <= MaxUnits /\ MaxUnits \in Nat /\ MaxUnits >= Fixed
      /\ Cur \in Nat \ {0}
      /\ Cur \in Recs => /\ Size(stream, Cur) \in Nat /\ Size(stream, Cur) >= Hdr
                         /\ Kind \in {"shb", "foreign"} => Size(stream, Cur) > Fixed
      /\ \A i \in 1..(bytesRead + got) : buf[i] = U(Cur, i)
  BY <1>1, BlockFacts
<1>4. /\ state = "READ_REC_HDR"
      /\ \/ toRead = Hdr /\ bytesRead = 0
         \/ toRead = Fixed /\ bytesRead = Fixed /\ Kind = "foreign"
  BY <1>1, <1>3 DEF PlaceInv, PcapngPlace, InOpen
<1>5. Taken = toRead /\ Taken # 0 /\ Taken >= Hdr
  BY <1>1, <1>3, <1>4 DEF Hdr, Fixed
<1>6. Cur \in Recs /\ Taken <= Size(stream, Cur)
  BY <1>3, <1>5 DEF PlaceInv
<1>7. \A i \in 1..Hdr : buf[i] = U(Cur, i)
  BY <1>1, <1>3, <1>5 DEF Hdr
<1>8. hdr' \in [1..Hdr -> Unit] /\ \A i \in 1..Hdr : hdr'[i] = U(Cur, i)
  <2>1. buf \in [1..MaxUnits -> Unit] /\ Hdr \in 0..MaxUnits
    BY <1>3 DEF TypeOK, Hdr, Fixed
  <2>2. SubSeq(buf, 1, Hdr) = [i \in 1..Hdr |-> buf[i]]
    BY <2>1, <1>3, FirstUnits
  <2>3. \A i \in 1..Hdr : buf[i] \in Unit
    BY <2>1, <1>3 DEF Hdr, Fixed
  <2> QED
    BY <2>2, <2>3, <1>1, <1>7
<1>9. KindOf(hdr') = Kind
  BY <1>6, <1>8, HeaderTells DEF Kind
<1>10. DeliveredWhole'
  BY <1>1, <1>3 DEF DeliveredWhole, Nth, DataOf, Units
<1>11. Cur' = Cur /\ Recs' = Recs /\ Kind' = Kind
  BY <1>1, <1>2 DEF Cur, Nth, Recs, Kind
<1>12. Header(Hdr)'
  BY <1>8, <1>11 DEF Header
<1>13. TypeOK'
  <2>1. /\ stream' \in Streams /\ sent' \in Unit /\ closed' \in BOOLEAN
        /\ pipe' \in Seq(Unit) /\ Len(pipe') <= Capacity /\ go' \in BOOLEAN
        /\ buf' \in [1..MaxUnits -> Unit] /\ got' \in 0..MaxUnits
        /\ delivered' \in Seq([rec : Nat, data : Seq(Unit)])
    BY <1>1, <1>3 DEF TypeOK
  <2>2. toRead' \in 0..MaxUnits /\ bytesRead' \in 0..toRead'
    BY <1>1, <1>2, <1>3, <1>4 DEF Hdr, Fixed
  <2>3. /\ at' \in {"reading", "loop"} /\ cont' \in {"rechdr", "shb"}
        /\ state' \in {"READ_REC_HDR", "EXPECT_DATA"}
        /\ err' \in {"PIPOK", "PIPEOF", "PIPERR"} /\ ret' \in {-1, 0, 1}
    BY <1>1, <1>2, <1>3, <1>4 DEF TypeOK
  <2> QED
    BY <2>1, <2>2, <2>3, <1>8 DEF TypeOK
<1>14. ErrInv'
  <2>1. err' # "PIPOK" => at' \in {"loop", "done"}
    BY <1>2, <1>3
  <2>2. ret' = -1 => err' # "PIPOK"
    BY <1>2, <1>3 DEF PipeInv, ErrInv
  <2>3. err' = "PIPEOF" => Kind = "short"
    BY <1>2, <1>3, <1>9
  <2> QED
    BY <2>1, <2>2, <2>3, <1>6, <1>11 DEF ErrInv
<1>15. ASSUME err' = "PIPOK", Taken' = Taken, PcapngPlace',
              \/ at' = "loop"
              \/ at' = "reading" /\ cont' = "shb" /\ state' = "READ_REC_HDR" /\ got' <= toRead' - bytesRead'
       PROVE  PlaceInv'
  <2>1. LastRead' = LastRead
    BY <1>1, <1>11, <1>15 DEF LastRead
  <2> QED
    BY <2>1, <1>1, <1>3, <1>11, <1>15 DEF PlaceInv, InOpen
<1>16. CASE Kind \in {"shb", "foreign"}
  <2>1. toRead' = Fixed /\ cont' = "shb" /\ at' = at /\ state' = state /\ err' = err
    BY <1>2, <1>9, <1>16
  <2>2. Taken' = toRead
    BY <2>1, <1>1, <1>3, <1>4 DEF Taken
  <2>3. got' <= toRead' - bytesRead' /\ bytesRead' \in {Hdr, Fixed}
    BY <2>1, <1>1, <1>4 DEF Hdr, Fixed
  <2>4. \A i \in 1..Taken' : buf'[i] = U(Cur', i)
    BY <2>2, <1>1, <1>3, <1>5, <1>11
  <2>5. PcapngPlace'
    BY <2>1, <2>3, <2>4, <1>1, <1>11, <1>12, <1>16 DEF PcapngPlace, Idle
  <2> QED
    BY <2>1, <2>2, <2>3, <2>5, <1>1, <1>3, <1>4, <1>5, <1>10, <1>13, <1>14, <1>15 DEF PipeInv
<1>17. CASE Kind \in {"bad", "short"}
  BY <1>2, <1>9, <1>10, <1>13, <1>14, <1>17 DEF PipeInv
<1>18. CASE Kind \notin {"shb", "foreign", "bad", "short"}
  <2>1. /\ toRead' = toRead /\ cont' = cont /\ at' = "loop" /\ state' = "EXPECT_DATA"
        /\ err' = err
    BY <1>2, <1>9, <1>18
  <2>2. toRead = Hdr
    BY <1>4, <1>18
  <2>3. Taken' = toRead
    BY <2>1, <1>1, <1>3 DEF Taken
  <2>4. \A i \in 1..Taken' : buf'[i] = U(Cur', i)
    BY <2>3, <1>1, <1>3, <1>5, <1>11
  <2>5. PcapngPlace'
    BY <2>1, <2>2, <2>4, <1>1, <1>11, <1>12 DEF PcapngPlace, Idle
  <2> QED
    BY <2>1, <2>3, <2>5, <1>3, <1>5, <1>10, <1>13, <1>14, <1>15 DEF PipeInv
<1> QED
  BY <1>16, <1>17, <1>18

(* The fixed part of an SHB is there: its data comes next, unless the      *)
(* section is in the other byte order.                                     *)
LEMMA BlockShbStep ==
    ASSUME PipeInv, BlockShb
    PROVE  PipeInv'
<1>1. /\ at = "reading" /\ cont = "shb" /\ got = toRead - bytesRead
      /\ bytesRead' = toRead /\ got' = 0 /\ at' = "loop" /\ ret' = 1
      /\ state' = IF KindOf(hdr) = "foreign" THEN state ELSE "EXPECT_DATA"
      /\ UNCHANGED <<stream, sent, closed, pipe, go, buf, cont, hdr, toRead, err, delivered>>
  BY DEF BlockShb, Filled, Return, writer
<1>2. /\ err = "PIPOK" /\ TypeOK /\ PlaceInv /\ DeliveredWhole /\ PcapngPlace
      /\ stream.pcapng /\ Taken = bytesRead + got
      /\ toRead \in Nat /\ bytesRead \in Nat /\ got \in Nat /\ toRead <= MaxUnits
      /\ MaxUnits \in Nat
      /\ \A i \in 1..(bytesRead + got) : buf[i] = U(Cur, i)
  BY <1>1, BlockFacts
<1>3. /\ state = "READ_REC_HDR" /\ toRead = Fixed /\ Header(Hdr)
  BY <1>1, <1>2 DEF PlaceInv, PcapngPlace, InOpen
<1>4. Taken = Fixed /\ Taken # 0
  BY <1>1, <1>2, <1>3 DEF Fixed
<1>5. Cur \in Recs
  BY <1>2, <1>4 DEF PlaceInv
<1>6. KindOf(hdr) = Kind
  BY <1>3, <1>5, HeaderTells DEF Header, Kind
<1>7. Cur' = Cur /\ Recs' = Recs /\ Kind' = Kind
  BY <1>1 DEF Cur, Nth, Recs, Kind
<1>8. Header(Hdr)'
  BY <1>1, <1>3, <1>7 DEF Header
<1>9. TypeOK'
  <2>1. bytesRead' \in 0..toRead' /\ got' \in 0..MaxUnits
    BY <1>1, <1>2
  <2> QED
    BY <2>1, <1>1, <1>2 DEF TypeOK
<1>10. DeliveredWhole'
  BY <1>1, <1>2 DEF DeliveredWhole, Nth, DataOf, Units
<1>11. ErrInv'
  BY <1>1, <1>2 DEF ErrInv
<1>12. Taken' = Fixed
  BY <1>1, <1>2, <1>3 DEF Taken, Fixed
<1>13. LastRead' = LastRead
  BY <1>1, <1>4, <1>7, <1>12 DEF LastRead
<1>14. PcapngPlace'
  <2>1. \A i \in 1..Taken' : buf'[i] = U(Cur', i)
    BY <1>1, <1>2, <1>4, <1>7, <1>12
  <2> QED
    BY <2>1, <1>1, <1>3, <1>6, <1>7, <1>8 DEF PcapngPlace, Idle
<1>15. PlaceInv'
  BY <1>1, <1>2, <1>4, <1>7, <1>12, <1>13, <1>14 DEF PlaceInv
<1> QED
  BY <1>9, <1>10, <1>11, <1>15 DEF PipeInv

(* A block is complete.                                                    *)
LEMMA BlockDataStep ==
    ASSUME PipeInv, BlockData
    PROVE  PipeInv'
<1>1. /\ at = "reading" /\ cont = "data" /\ got = toRead - bytesRead
      /\ bytesRead' = toRead /\ got' = 0 /\ at' = "loop" /\ ret' = 1
      /\ Deliver(hdr, buf, toRead) /\ state' = "EXPECT_REC_HDR"
      /\ UNCHANGED <<stream, sent, closed, pipe, go, buf, cont, hdr, toRead, err>>
  BY DEF BlockData, Filled, Return, writer
<1>2. /\ err = "PIPOK" /\ TypeOK /\ PlaceInv /\ DeliveredWhole /\ PcapngPlace
      /\ stream.pcapng /\ Taken = bytesRead + got
      /\ toRead \in Nat /\ bytesRead \in Nat /\ got \in Nat /\ toRead <= MaxUnits
      /\ MaxUnits \in Nat /\ Cur \in Nat \ {0}
      /\ Cur \in Recs => /\ Size(stream, Cur) \in Nat /\ Size(stream, Cur) >= Hdr
      /\ \A i \in 1..(bytesRead + got) : buf[i] = U(Cur, i)
  BY <1>1, BlockFacts
<1>3. /\ toRead = Size(stream, Cur) /\ Header(Hdr) /\ state = "READ_DATA"
      /\ bytesRead \in {Hdr, Fixed}
  BY <1>1, <1>2 DEF PlaceInv, PcapngPlace, InOpen
<1>4. Taken = toRead /\ Taken # 0
  BY <1>1, <1>2, <1>3 DEF Hdr, Fixed
<1>5. Cur \in Recs /\ Size(stream, Cur) \in Nat /\ Size(stream, Cur) >= Hdr
  BY <1>2, <1>4 DEF PlaceInv
<1>6. Chain(stream, U(Cur, Size(stream, Cur)), pipe, sent)
  <2>1. LastRead = U(Cur, Size(stream, Cur))
    BY <1>3, <1>4 DEF LastRead
  <2> QED
    BY <2>1, <1>2 DEF PlaceInv
<1>7. RecOf(hdr) = Cur
  BY <1>3, <1>5, HeaderTells DEF Header
<1>8. SubSeq(buf, 1, toRead) = DataOf(Cur) /\ SubSeq(buf, 1, toRead) \in Seq(Unit)
  <2>1. buf \in [1..MaxUnits -> Unit] /\ toRead \in 0..MaxUnits
    BY <1>2 DEF TypeOK
  <2>2. SubSeq(buf, 1, toRead) = [i \in 1..toRead |-> buf[i]] /\ SubSeq(buf, 1, toRead) \in Seq(Unit)
    BY <2>1, <1>2, FirstUnits
  <2>3. bytesRead + got = toRead
    BY <1>1, <1>2
  <2>4. \A i \in 1..toRead : buf[i] = U(Cur, i)
    BY <2>3, <1>2
  <2>5. DataOf(Cur) = [i \in 1..toRead |-> U(Cur, i)]
    BY <1>2, <1>3 DEF DataOf, Units, Size, U
  <2> QED
    BY <2>2, <2>4, <2>5
<1>9. PICK d : d = [rec |-> Cur, data |-> DataOf(Cur)]
  OBVIOUS
<1>10. delivered' = Append(delivered, d) /\ d \in [rec : Nat, data : Seq(Unit)]
  BY <1>1, <1>2, <1>7, <1>8, <1>9 DEF Deliver
<1>11. DeliveredWhole' /\ PlaceInv'
  BY <1>1, <1>2, <1>5, <1>6, <1>9, <1>10, NextRecord
<1>12. TypeOK'
  <2>1. bytesRead' \in 0..toRead' /\ got' \in 0..MaxUnits
    BY <1>1, <1>2
  <2> QED
    BY <2>1, <1>1, <1>2, <1>10 DEF TypeOK
<1>13. ErrInv'
  BY <1>1, <1>2 DEF ErrInv
<1> QED
  BY <1>11, <1>12, <1>13 DEF PipeInv

(***************************************************************************)
(* The invariant, and what follows from it.                                *)
(***************************************************************************)
(* A reader that has read nothing is at the beginning.                     *)
LEMMA InitPipe ==
    Init => PipeInv
<1> SUFFICES ASSUME Init PROVE PipeInv
  OBVIOUS
<1>1. /\ stream \in Streams /\ sent = None /\ closed = FALSE /\ pipe = <<>> /\ go = TRUE
      /\ at = "magic" /\ cont = "none" /\ state = "EXPECT_REC_HDR"
      /\ toRead = 0 /\ bytesRead = 0 /\ got = 0 /\ err = "PIPOK" /\ ret = 0 /\ delivered = <<>>
  BY DEF Init
<1>2. MaxUnits \in Nat /\ Capacity \in Nat
  BY PipeAssumption
<1>3. hdr \in [1..Hdr -> Unit] /\ buf \in [1..MaxUnits -> Unit] /\ None \in Unit
  BY DEF Init, Unit, None
<1>4. TypeOK
  <2>1. /\ pipe \in Seq(Unit) /\ Len(pipe) <= Capacity
        /\ delivered \in Seq([rec : Nat, data : Seq(Unit)])
    BY <1>1, <1>2
  <2>2. toRead \in 0..MaxUnits /\ bytesRead \in 0..toRead /\ got \in 0..MaxUnits
    BY <1>1, <1>2
  <2>3. stream \in Streams /\ sent \in Unit /\ closed \in BOOLEAN /\ go \in BOOLEAN
    BY <1>1, <1>3
  <2> QED
    BY <2>1, <2>2, <2>3, <1>1, <1>3 DEF TypeOK
<1>5. ErrInv /\ DeliveredWhole
  BY <1>1 DEF ErrInv, DeliveredWhole
<1>6. Cur = 1 /\ Taken = 0
  BY <1>1 DEF Cur, Taken
<1>7. LastRead = None
  BY <1>6 DEF LastRead
<1>8. Chain(stream, None, pipe, sent)
  BY <1>1 DEF Chain
<1>9. PlaceInv
  BY <1>1, <1>6, <1>7, <1>8 DEF PlaceInv
<1> QED
  BY <1>4, <1>5, <1>9 DEF PipeInv

(* Every step keeps the place.                                             *)
LEMMA PipeStep ==
    PipeInv /\ [Next]_vars => PipeInv'
<1> SUFFICES ASSUME PipeInv, [Next]_vars PROVE PipeInv'
  OBVIOUS
<1>1. CASE Write
  BY <1>1, WriteStep
<1>2. CASE Close \/ Stop \/ Loop \/ Select \/ SelectError \/ Ended \/ UNCHANGED vars
  BY <1>2, QuietStep DEF Ended
<1>3. CASE OpenFail \/ ReadEof \/ ReadError \/ FillEof \/ FillError
  BY <1>3, FailStep
<1>4. CASE OpenMagic
  BY <1>4, OpenMagicStep
<1>5. CASE OpenHeader
  BY <1>5, OpenHeaderStep
<1>6. CASE OpenLength
  BY <1>6, OpenLengthStep
<1>7. CASE OpenShb
  BY <1>7, OpenShbStep
<1>8. CASE Dispatch
  BY <1>8, DispatchStep
<1>9. CASE ReadPart
  BY <1>9, ReadPartStep
<1>10. CASE ReadHeader
  BY <1>10, ReadHeaderStep
<1>11. CASE ReadData
  BY <1>11, ReadDataStep
<1>12. CASE Fill
  BY <1>12, FillStep
<1>13. CASE BlockHeader
  BY <1>13, BlockHeaderStep
<1>14. CASE BlockShb
  BY <1>14, BlockShbStep
<1>15. CASE BlockData
  BY <1>15, BlockDataStep
<1> QED
  BY <1>1, <1>2, <1>3, <1>4, <1>5, <1>6, <1>7, <1>8, <1>9, <1>10, <1>11, <1>12, <1>13, <1>14,
     <1>15 DEF Next, Reader, Opening, Looping, Pcap, Pcapng, Fails

(* The invariant holds.                                                    *)
LEMMA PipeAlways == Spec => []PipeInv
BY InitPipe, PipeStep, PTL DEF Spec

(* However the pipe cuts what it delivers, no read goes beyond the buffer  *)
(* nor beyond what is expected (dumpcap.c, the offsets of cap_pipe_read).  *)
THEOREM TypeCorrect == Spec => []TypeOK
<1>1. PipeInv => TypeOK
  BY DEF PipeInv
<1> QED
  BY <1>1, PipeAlways, PTL

(* What the dispatch functions hand on are the records of the stream, in   *)
(* order, whole, each with its own header and data.                        *)
THEOREM RecordsWhole == Spec => []DeliveredWhole
<1>1. PipeInv => DeliveredWhole
  BY DEF PipeInv
<1> QED
  BY <1>1, PipeAlways, PTL

(* PIPEOF is never set before every record written in full was handed on,  *)
(* but at a block that is too short; and a dispatch that returns -1 has    *)
(* set cap_pipe_err (the assertion of capture_loop_dispatch).              *)
THEOREM EofIsTrue == Spec => []EofComplete
<1>1. ASSUME PipeInv PROVE EofComplete
  <2>1. err = "PIPEOF" => Cur = Nth(Len(delivered) + 1)
    BY <1>1 DEF PipeInv, ErrInv, Cur
  <2>2. \A r : Units(r) = Size(stream, r)
    BY DEF Units, Size
  <2>3. ErrInv
    BY <1>1 DEF PipeInv
  <2> QED
    BY <2>1, <2>2, <2>3 DEF ErrInv, EofComplete, Complete, Kind, U
<1> QED
  BY <1>1, PipeAlways, PTL

(* After the end or an error nothing more is read or handed on, and        *)
(* cap_pipe_err stays (pcap_read_handler).                                 *)
THEOREM EndStays == Spec => EndIsFinal
<1>1. ASSUME PipeInv, [Next]_vars
      PROVE  [err # "PIPOK" => UNCHANGED <<err, delivered, pipe>> \/ Write]_vars
  <2> SUFFICES ASSUME Next, err # "PIPOK", ~Write
               PROVE  UNCHANGED <<err, delivered, pipe>>
    BY <1>1
  <2>1. at \in {"loop", "done"}
    BY <1>1 DEF PipeInv, ErrInv
  <2>2. Close \/ Stop \/ Loop \/ Ended
    BY <2>1 DEF Next, Reader, Opening, Looping, Pcap, Pcapng, Fails, OpenMagic, OpenHeader,
       OpenFail, OpenLength, OpenShb, Select, SelectError, Dispatch, ReadPart, ReadHeader,
       ReadData, ReadEof, ReadError, ReadFails, Read, Fill, FillEof, FillError, FillFails,
       BlockHeader, BlockShb, BlockData, Filled
  <2> QED
    BY <2>2 DEF Close, Stop, Loop, Ended, vars, result
<1> QED
  BY <1>1, PipeAlways, PTL DEF Spec, EndIsFinal
=============================================================================
