--------------------------- MODULE ReassemblyProofs ---------------------------
(***************************************************************************)
(* What holds of the reassembly tables for every caller: any fragments, in *)
(* any order, as often as one likes, with any of the other functions.      *)
(***************************************************************************)
EXTENDS Reassembly, FragmentListProofs

Byte == (Nat \X Nat \X Versions) \cup {<<>>}
Data == Seq(Byte)
Length == 0..(Modulus - 1)

Item == [frame : Nat, off : Nat, len : Length, data : Data, flags : SUBSET ItemFlags]

FragmentHead ==
    [items : Seq(Item), gap : Nat, contig : Nat, frame : Nat, datalen : Nat, set : BOOLEAN, defrag : BOOLEAN,
     partial : BOOLEAN, data : Data, reasIn : Nat, flags : SUBSET ItemFlags, error : BOOLEAN, seq : BOOLEAN,
     len : Nat, ref : Nat, freed : BOOLEAN, torn : BOOLEAN]

CallOf ==
    [num : Nat, from : Nat, off : Nat, len : Length, tail : BOOLEAN, v : Versions, short : BOOLEAN, kept : Length,
     id : Nat, added : BOOLEAN, thrown : BOOLEAN, returned : BOOLEAN, toolong : BOOLEAN]

Elems(h)    == {h.items[i] : i \in DOMAIN h.items}
FramesIn(h) == {h.items[i].frame : i \in DOMAIN h.items}

Typed ==
    /\ setup \in Setups /\ num \in Nat /\ calls \in Seq(CallOf) /\ Len(calls) <= setup.calls
    /\ heads \in Seq(FragmentHead) /\ table \in 0..Len(heads) /\ done \in [Frames -> 0..Len(heads)]
    /\ given \in Seq(Data) /\ Len(given) = Len(heads)
    /\ num >= 1 /\ num + (IF table # 0 THEN 1 ELSE 0) <= 2 * Len(calls) + 1

ListOK(h) == Sorted(h) /\ GapExact(h)

\* Its fragments have their data.
Backed(h) == \A k \in DOMAIN h.items : h.items[k].len <= Len(h.items[k].data)

\* Its data are as long as it is.
Sized(h) == h.defrag /\ ~h.torn => h.set /\ (Len(h.data) = h.datalen \/ h.datalen = 0)

HeadFine(api, h, current, n) ==
    /\ h.seq = (api \in BySeq)
    /\ h.gap \in 0..Len(h.items)
    /\ ~h.torn => ListOK(h)
    /\ FramesIn(h) \cup {h.frame, h.reasIn} \subseteq 0..n
    /\ api = "fallback" => FramesIn(h) \cup {h.reasIn} \subseteq 0..(n - 1)
    /\ api \in Checks => ~h.partial
    /\ api \in Checks /\ current /\ h.defrag => h.error
    /\ api \notin BySeq => Sized(h)
    /\ api \in Checks \cap BySeq /\ current => ~h.defrag /\ ~h.torn /\ Backed(h)

HeadsOK == \A i \in DOMAIN heads : HeadFine(setup.api, heads[i], i = table, num)

TableOK ==
    /\ table # 0 => table = Len(heads) /\ ~heads[table].freed /\ \A f \in Frames : done[f] # table
    /\ setup.api \notin Checks => \A f \in Frames : done[f] = 0

CallsOK ==
    \A k \in DOMAIN calls :
        LET c == calls[k] IN
        /\ c.id \in 1..Len(heads)
        /\ c.returned /\ ~Seq_ => c.from <= heads[c.id].frame
        /\ c.returned /\ setup.api \in Checks => c.id # table

Inv == Typed /\ HeadsOK /\ TableOK /\ CallsOK /\ RefsExact /\ FramesFindTheirs

--------------------------------------------------------------------------------
(* The operators on one head.                                               *)

LEMMA ItemsAreFragments == \A f \in Item : Fragment(f)
  BY DEF Item, Fragment, Length

LEMMA ItemIs ==
    ASSUME NEW f \in Item
    PROVE  f.frame \in Nat /\ f.off \in Nat /\ f.len \in Nat /\ f.data \in Seq(Byte) /\ Len(f.data) \in Nat
<1>1. f.frame \in Nat /\ f.off \in Nat /\ f.len \in Length /\ f.data \in Seq(Byte)
  BY DEF Item, Data
<1> QED
  BY <1>1, LenProperties, ModulusAssumption DEF Length

(* What a list has of an insertion: the fragment and what it had.          *)
LEMMA InsertedElems ==
    ASSUME NEW items \in Seq(Item), NEW at \in 1..(Len(items) + 1), NEW f \in Item
    PROVE  LET its == Inserted(items, at, f) IN
           /\ its \in Seq(Item) /\ Len(its) = Len(items) + 1 /\ its # <<>>
           /\ {its[i] : i \in DOMAIN its} = {items[i] : i \in DOMAIN items} \cup {f}
<1> DEFINE its == Inserted(items, at, f)
           n   == Len(items)
<1>1. /\ its \in Seq(Item) /\ Len(its) = n + 1
      /\ \A i \in 1..(at - 1) : its[i] = items[i]
      /\ its[at] = f
      /\ \A i \in (at + 1)..(n + 1) : its[i] = items[i - 1]
  BY InsertedIs
<1>2. n \in Nat /\ DOMAIN items = 1..n /\ DOMAIN its = 1..(n + 1)
  BY <1>1, LenProperties
<1> HIDE DEF its, n
<1>3. \A i \in 1..(n + 1) : its[i] = f \/ \E j \in 1..n : its[i] = items[j]
  <2> TAKE i \in 1..(n + 1)
  <2>1. CASE i < at
    BY <2>1, <1>1, <1>2 DEF n
  <2>2. CASE i = at
    BY <2>2, <1>1
  <2>3. CASE i > at
    <3>1. i - 1 \in 1..n /\ its[i] = items[i - 1]
      BY <2>3, <1>1, <1>2
    <3> QED
      BY <3>1
  <2> QED
    BY <2>1, <2>2, <2>3, <1>2
<1>4. \A j \in 1..n : \E i \in 1..(n + 1) : its[i] = items[j]
  <2> TAKE j \in 1..n
  <2>1. CASE j < at
    BY <2>1, <1>1, <1>2
  <2>2. CASE j >= at
    <3>1. j + 1 \in (at + 1)..(n + 1) /\ j + 1 \in 1..(n + 1) /\ (j + 1) - 1 = j
      BY <2>2, <1>2
    <3> QED
      BY <3>1, <1>1
  <2> QED
    BY <2>1, <2>2, <1>2
<1>5. at \in 1..(n + 1)
  BY DEF n
<1>6. its # <<>>
  BY <1>1, <1>2
<1>7. {its[i] : i \in 1..(n + 1)} = {items[i] : i \in 1..n} \cup {f}
  BY <1>1, <1>3, <1>4, <1>5
<1> QED
  BY <1>1, <1>2, <1>6, <1>7 DEF its, n

(* LINK_FRAG touches nothing of a head but the list and its cache.         *)
Regapped(l, u) == [l EXCEPT !.gap = u.gap, !.contig = u.contig]
Relisted(h, l) == [h EXCEPT !.items = l.items, !.gap = l.gap, !.contig = l.contig]

LEMMA UpdateFirstGapIs ==
    ASSUME NEW l \in FragmentHead, NEW at, NEW multi, NEW u, u = UpdateFirstGap(l, at, multi)
    PROVE  u = Regapped(l, u)
  BY DEF UpdateFirstGap, FragmentHead, Regapped

LEMMA HeadIsList ==
    ASSUME NEW l \in FragmentHead
    PROVE  List(l, Item)
  BY DEF FragmentHead, List

LEMMA LinkFragIs ==
    ASSUME NEW h \in FragmentHead, NEW f \in Item, ListOK(h)
    PROVE  LET l == LinkFrag(h, f) IN
           /\ l \in FragmentHead /\ ListOK(l)
           /\ l = Relisted(h, l)
           /\ Len(l.items) = Len(h.items) + 1 /\ l.items # <<>>
           /\ Elems(l) = Elems(h) \cup {f}
<1> DEFINE at  == Place(h, f)
           its == Inserted(h.items, at, f)
           gap == IF h.gap # 0 /\ at <= h.gap THEN h.gap + 1 ELSE h.gap
           m   == [h EXCEPT !.items = its, !.gap = gap]
           l   == LinkFrag(h, f)
<1>1. List(l, Item) /\ Sorted(l) /\ GapExact(l)
  BY HeadIsList, ItemsAreFragments, LinkFragKeeps DEF ListOK
<1>2. h.items \in Seq(Item) /\ h.gap \in 0..Len(h.items) /\ h.gap \in Nat
  BY DEF FragmentHead, ListOK, GapExact
<1>3. at \in 1..(Len(h.items) + 1)
  BY <1>2, ItemsAreFragments, PlaceIs DEF ListOK
<1>4. its \in Seq(Item) /\ Len(its) = Len(h.items) + 1 /\ its # <<>>
      /\ {its[i] : i \in DOMAIN its} = {h.items[i] : i \in DOMAIN h.items} \cup {f}
  <2> HIDE DEF at
  <2> QED
    BY <1>2, <1>3, InsertedElems
<1>5. l = UpdateFirstGap(m, at, FALSE)
  BY DEF LinkFrag
<1> HIDE DEF at, its
<1>6. m \in FragmentHead /\ m.items = its
  <2>1. gap \in Nat
    BY <1>2
  <2> HIDE DEF gap
  <2> QED
    BY <2>1, <1>4 DEF FragmentHead
<1>7. l = Regapped(m, l)
  <2> HIDE DEF m, l
  <2> QED
    BY <1>5, <1>6, UpdateFirstGapIs
<1>8. l.gap \in Nat /\ l.contig \in Nat
  BY <1>1 DEF GapExact
<1> HIDE DEF l
<1>9. l.items = its /\ l = [h EXCEPT !.items = its, !.gap = l.gap, !.contig = l.contig]
  BY <1>7, <1>6 DEF FragmentHead, Regapped
<1>10. l \in FragmentHead
  BY <1>4, <1>8, <1>9 DEF FragmentHead
<1> QED
  BY <1>1, <1>4, <1>9, <1>10 DEF ListOK, Elems, l, Relisted

LEMMA FunctionIsSeq ==
    ASSUME NEW S, NEW n \in Nat, NEW s \in [1..n -> S]
    PROVE  s \in Seq(S) /\ Len(s) = n
<1>1. s \in Seq(S)
  BY SeqDef
<1> QED
  BY <1>1, LenProperties

(* Lists of the same offsets and lengths are alike.                        *)
LEMMA SameList ==
    ASSUME NEW h \in FragmentHead, NEW g \in FragmentHead, ListOK(h),
           Len(g.items) = Len(h.items), g.gap = h.gap, g.contig = h.contig,
           \A i \in 1..Len(h.items) : g.items[i].off = h.items[i].off /\ g.items[i].len = h.items[i].len
    PROVE  ListOK(g)
<1>1. /\ DOMAIN h.items = 1..Len(h.items) /\ DOMAIN g.items = 1..Len(h.items) /\ Len(h.items) \in Nat
      /\ (g.items # <<>> <=> h.items # <<>>)
  BY LenProperties, EmptySeq DEF FragmentHead
<1>2. h.gap \in 0..Len(h.items)
  BY DEF ListOK, GapExact
<1>3. \A i \in 1..Len(h.items) : End(g.items[i]) = End(h.items[i])
  BY DEF End
<1>4. Sorted(g)
  BY <1>1 DEF ListOK, Sorted
<1>5. h.items # <<>> => g.items[1].off = h.items[1].off
  <2>1. h.items # <<>> => 1 \in 1..Len(h.items)
    BY <1>1, EmptySeq DEF FragmentHead
  <2> QED
    BY <2>1
<1>6. /\ \A i \in 1..h.gap : i \in 1..Len(h.items)
      /\ \A i \in (h.gap + 1)..Len(h.items) : i \in 1..Len(h.items)
  BY <1>1, <1>2
<1>7. GapExact(g)
  <2>1. GapExact(h)
    BY DEF ListOK
  <2>2. \A i \in 1..g.gap : g.items[i].off <= g.contig /\ End(g.items[i]) <= g.contig
    BY <2>1, <1>3, <1>6 DEF GapExact
  <2>3. \A i \in (g.gap + 1)..Len(g.items) : g.items[i].off > g.contig
    BY <2>1, <1>3, <1>6 DEF GapExact
  <2>4. \A p \in 0..(g.contig - 1) : \E i \in 1..g.gap : Covers(g.items[i], p)
    <3> TAKE p \in 0..(g.contig - 1)
    <3>1. PICK i \in 1..h.gap : Covers(h.items[i], p)
      BY <2>1 DEF GapExact
    <3> QED
      BY <3>1, <1>3, <1>6 DEF Covers
  <2> QED
    BY <2>1, <2>2, <2>3, <2>4, <1>1, <1>5 DEF GapExact
<1> QED
  BY <1>4, <1>7 DEF ListOK

LEMMA RemainingType ==
    ASSUME NEW data \in Data, NEW off \in Nat
    PROVE  /\ Remaining(data, off) \in Data
           /\ Len(Remaining(data, off)) = IF off <= Len(data) THEN Len(data) - off ELSE 0
           /\ \A k \in 1..(Len(data) - off) : Remaining(data, off)[k] = data[off + k]
<1>1. Len(data) \in Nat /\ \A i \in 1..Len(data) : data[i] \in Byte
  BY DEF Data
<1>2. off + 1 \in Int /\ Len(data) \in Int /\ \A i \in (off + 1)..Len(data) : data[i] \in Byte
  BY <1>1
<1>3. /\ Remaining(data, off) \in Seq(Byte)
      /\ Len(Remaining(data, off)) = IF off + 1 <= Len(data) THEN Len(data) - (off + 1) + 1 ELSE 0
      /\ \A i \in 1..(Len(data) - (off + 1) + 1) : Remaining(data, off)[i] = data[(off + 1) + i - 1]
  BY <1>2, SubSeqProperties DEF Remaining
<1>4. /\ \A k \in 1..(Len(data) - off) : k \in 1..(Len(data) - (off + 1) + 1) /\ (off + 1) + k - 1 = off + k
      /\ off + 1 <= Len(data) => Len(data) - (off + 1) + 1 = Len(data) - off
      /\ ~ (off + 1 <= Len(data)) /\ off <= Len(data) => Len(data) - off = 0
      /\ off + 1 <= Len(data) => off <= Len(data)
  BY <1>1
<1> QED
  BY <1>3, <1>4 DEF Data

LEMMA NoDataType == NoData \in Data /\ Len(NoData) = 1 /\ NoData[1] = <<>>
<1>1. <<>> \in Byte
  BY DEF Byte
<1> QED
  BY <1>1 DEF Data, NoData

(* fragment_reset_defragmentation: each fragment has data again.           *)
Rest(h, f) == IF f.data = NoData THEN Remaining(h.data, f.off) ELSE f.data

Undone_(h, g) ==
    [h EXCEPT !.items = g.items, !.flags = @ \ {"toolong", "tails"}, !.defrag = FALSE, !.partial = FALSE,
              !.set = FALSE, !.datalen = 0, !.reasIn = 0]

Restored(h, f) == [f EXCEPT !.data = Rest(h, f), !.flags = @ \ {"toolong", "tails"}]

LEMMA ResetDefragmentationIs ==
    ASSUME NEW h \in FragmentHead, ListOK(h), ~h.torn
    PROVE  LET g == ResetDefragmentation(h) IN
           \/ g = Tear(h)
           \/ /\ \A f \in Elems(h) : f.data = NoData => f.off <= Len(h.data)
              /\ g \in FragmentHead /\ ListOK(g) /\ Len(g.items) = Len(h.items)
              /\ g = Undone_(h, g)
              /\ \A i \in 1..Len(h.items) : g.items[i] = Restored(h, h.items[i])
<1> DEFINE g == ResetDefragmentation(h)
           its == [i \in DOMAIN h.items |->
                     Restored(h, h.items[i])]
           n == Len(h.items)
<1>1. CASE \E i \in DOMAIN h.items : h.items[i].data = NoData /\ h.items[i].off > Len(h.data)
  BY <1>1 DEF ResetDefragmentation
<1>2. CASE ~ \E i \in DOMAIN h.items : h.items[i].data = NoData /\ h.items[i].off > Len(h.data)
  <2>1. /\ n \in Nat /\ DOMAIN h.items = 1..n /\ h.data \in Data /\ Len(h.data) \in Nat
        /\ \A i \in 1..n : h.items[i] \in Item
    BY LenProperties DEF FragmentHead, Data
  <2>2. g = [h EXCEPT !.items = its, !.flags = @ \ {"toolong", "tails"}, !.defrag = FALSE, !.partial = FALSE,
                      !.set = FALSE, !.datalen = 0, !.reasIn = 0]
    <3> DEFINE new == [i \in DOMAIN h.items |->
                         Unflag([h.items[i] EXCEPT !.data = IF @ = NoData THEN Remaining(h.data, h.items[i].off) ELSE @])]
    <3>1. \A f \in Item : Unflag([f EXCEPT !.data = IF @ = NoData THEN Remaining(h.data, f.off) ELSE @])
                            = Restored(h, f)
      BY DEF Item, Unflag, Rest, Restored
    <3>2. new = its
      BY <2>1, <3>1
    <3>3. g = Undone([h EXCEPT !.items = new])
      BY <1>2 DEF ResetDefragmentation
    <3> HIDE DEF new, its, g
    <3> QED
      BY <3>2, <3>3 DEF Undone, Unflag, FragmentHead
  <2>3. ASSUME NEW f \in Item 
        PROVE  Restored(h, f) \in Item /\ Restored(h, f).off = f.off /\ Restored(h, f).len = f.len
    <3>1. Rest(h, f) \in Data
      BY <2>1, RemainingType DEF Rest, Item
    <3> QED
      BY <3>1 DEF Item, Restored
  <2>4. its \in [1..n -> Item]
    BY <2>1, <2>3
  <2>5. its \in Seq(Item) /\ Len(its) = n
    <3> HIDE DEF its, n
    <3> QED
      BY <2>1, <2>4, FunctionIsSeq
  <2>6. \A i \in 1..n : its[i] = Restored(h, h.items[i])
    BY <2>1
  <2> HIDE DEF its, g
  <2>7. g \in FragmentHead /\ g.items = its /\ g.gap = h.gap /\ g.contig = h.contig
    BY <2>2, <2>5 DEF FragmentHead
  <2>8. \A i \in 1..n : its[i].off = h.items[i].off /\ its[i].len = h.items[i].len
    BY <2>1, <2>3, <2>6
  <2>9. ListOK(g)
    BY <2>5, <2>7, <2>8, SameList
  <2>10. \A f \in Elems(h) : f.data = NoData => f.off <= Len(h.data)
    BY <1>2, <2>1 DEF Elems, Item
  <2>11. g = Undone_(h, g)
    BY <2>2, <2>7 DEF Undone_
  <2> QED
    BY <2>5, <2>6, <2>7, <2>9, <2>10, <2>11 DEF g
<1> QED
  BY <1>1, <1>2

(* The end of a fragment, unless it wraps.                                 *)
LEMMA EndIs ==
    ASSUME NEW f, Fragment(f)
    PROVE  /\ End(f) \in 0..(Modulus - 1) /\ f.off \in Nat /\ f.len \in Nat
           /\ ~Wraps(f) => End(f) = f.off + f.len
           /\ \A p \in Int : Covers(f, p) => ~Wraps(f) /\ f.off <= p /\ p < f.off + f.len
<1>1. /\ f.off \in Nat /\ f.len \in Nat /\ f.len < Modulus /\ Modulus \in Nat \ {0}
      /\ End(f) = (f.off + f.len) % Modulus /\ End(f) \in 0..(Modulus - 1)
  BY EndType, ModulusAssumption DEF Fragment, End, Plus
<1>2. ASSUME f.off <= End(f) PROVE End(f) = f.off + f.len
  <2> DEFINE n == f.off + f.len
  <2>1. n \in Nat /\ n < 2 * Modulus
    BY <1>1, <1>2
  <2>2. CASE n < Modulus
    <3>1. n % Modulus = n
      BY <2>1, <2>2, <1>1, Z3
    <3> QED
      BY <3>1, <1>1
  <2>3. CASE n >= Modulus
    <3>1. n % Modulus = n - Modulus
      BY <2>1, <2>3, <1>1, Z3
    <3> QED
      BY <3>1, <1>1, <1>2
  <2> QED
    BY <2>1, <2>2, <2>3, <1>1
<1>3. ~Wraps(f) <=> f.off <= End(f)
  BY <1>1 DEF Wraps
<1> QED
  BY <1>1, <1>2, <1>3 DEF Covers

(* What is used of a fragment is before the end of the data.               *)
LEMMA FitsIs ==
    ASSUME NEW h \in FragmentHead, NEW i \in Used(h)
    PROVE  LET f == h.items[i] IN
           /\ i \in 1..Len(h.items) /\ f \in Item /\ ~Wraps(f) /\ f.data # NoData /\ f.len > 0 /\ f.off < h.datalen
           /\ Fits(h, f) \in Nat /\ Fits(h, f) <= f.len /\ f.off + Fits(h, f) <= h.datalen
           /\ f.off + f.len <= h.datalen => Fits(h, f) = f.len
           /\ f.off + f.len > h.datalen => f.off + Fits(h, f) = h.datalen
<1> DEFINE f == h.items[i]
<1>1. i \in 1..Len(h.items) /\ f \in Item /\ h.datalen \in Nat
  BY LenProperties DEF Used, FragmentHead
<1>2. f.len > 0 /\ f.off < h.datalen /\ ~Wraps(f) /\ f.data # NoData
  BY DEF Used, Lost
<1>3. f.off \in Nat /\ f.len \in Nat /\ End(f) = f.off + f.len
  BY <1>1, <1>2, EndIs, ItemsAreFragments
<1> HIDE DEF f
<1>4. Fits(h, f) = IF f.off + f.len > h.datalen THEN h.datalen - f.off ELSE f.len
  BY <1>3 DEF Fits
<1>5. /\ Fits(h, f) \in Nat /\ Fits(h, f) <= f.len /\ f.off + Fits(h, f) <= h.datalen
      /\ f.off + f.len <= h.datalen => Fits(h, f) = f.len
      /\ f.off + f.len > h.datalen => f.off + Fits(h, f) = h.datalen
  BY <1>1, <1>2, <1>3, <1>4
<1> QED
  BY <1>1, <1>2, <1>5 DEF f

LEMMA MaxOf ==
    ASSUME NEW S \in SUBSET Nat, S # {}, NEW b \in Nat, \A x \in S : x <= b
    PROVE  Max(S) \in S /\ \A x \in S : x <= Max(S)
<1>1. \E m \in S : \A x \in S : x <= m
  BY GreatestOf
<1> QED
  BY <1>1 DEF Max

LEMMA MinOf ==
    ASSUME NEW S \in SUBSET Nat, S # {}
    PROVE  Min(S) \in S /\ \A x \in S : Min(S) <= x
<1>1. \E m \in S : \A x \in S : m <= x
  BY LeastOf
<1> QED
  BY <1>1 DEF Min

(* Where the loop of the assembly is before an item.                       *)
LEMMA FilledIs ==
    ASSUME NEW h \in FragmentHead, NEW i \in 1..Len(h.items)
    PROVE  /\ Filled(h, i) \in Nat /\ Filled(h, i) <= h.datalen
           /\ \A k \in Used(h) \cap 1..(i - 1) : h.items[k].off + Fits(h, h.items[k]) <= Filled(h, i)
           /\ \/ Filled(h, i) = 0
              \/ \E k \in Used(h) \cap 1..(i - 1) : Filled(h, i) = h.items[k].off + Fits(h, h.items[k])
<1> DEFINE E(k) == h.items[k].off + Fits(h, h.items[k])
           S    == {0} \cup {E(k) : k \in Used(h) \cap 1..(i - 1)}
<1>1. h.datalen \in Nat
  BY DEF FragmentHead
<1>2. \A k \in Used(h) : E(k) \in Nat /\ E(k) <= h.datalen
  <2> TAKE k \in Used(h)
  <2>1. h.items[k].off \in Nat /\ Fits(h, h.items[k]) \in Nat /\ E(k) <= h.datalen
    BY FitsIs DEF Item
  <2> QED
    BY <2>1
<1> HIDE DEF E
<1>3. S \in SUBSET Nat /\ S # {} /\ \A x \in S : x <= h.datalen
  BY <1>1, <1>2
<1>4. Filled(h, i) = Max(S)
  BY DEF Filled, E
<1>5. Max(S) \in S /\ \A x \in S : x <= Max(S)
  <2> HIDE DEF S
  <2> QED
    BY <1>1, <1>3, MaxOf
<1>6. Max(S) \in Nat /\ Max(S) <= h.datalen
  BY <1>3, <1>5
<1> QED
  BY <1>4, <1>5, <1>6 DEF E

(* The items that have a byte, and the first of them: nothing before it    *)
(* reaches the byte.                                                       *)
Having(h, p) == {i \in Used(h) : h.items[i].off < p /\ p <= h.items[i].off + Fits(h, h.items[i])}

LEMMA FirstHaving ==
    ASSUME NEW h \in FragmentHead, Sorted(h), \A i \in Used(h) : ~ReadsPast(h, i),
           NEW p \in 1..h.datalen, Having(h, p) # {}
    PROVE  LET i == Min(Having(h, p)) IN
           /\ i \in Used(h) /\ i \in 1..Len(h.items) /\ h.items[i] \in Item
           /\ h.items[i].off < p /\ p <= h.items[i].off + Fits(h, h.items[i])
           /\ Filled(h, i) < p
           /\ p - h.items[i].off \in 1..Len(h.items[i].data)
           /\ \A k \in Having(h, p) : i <= k
<1> DEFINE S == Having(h, p)
           i == Min(S)
           f == h.items[i]
<1>1. \A k \in Used(h) : /\ k \in 1..Len(h.items) /\ h.items[k] \in Item /\ Fits(h, h.items[k]) \in Nat
                         /\ h.items[k].off + Fits(h, h.items[k]) <= h.datalen
  BY FitsIs
<1>2. S \in SUBSET Nat /\ S # {}
  BY <1>1 DEF Having
<1>3. i \in S /\ \A k \in S : i <= k
  <2> HIDE DEF S
  <2> QED
    BY <1>2, MinOf
<1> HIDE DEF S, i
<1>4. i \in Used(h) /\ i \in 1..Len(h.items) /\ f \in Item /\ f.off < p /\ p <= f.off + Fits(h, f)
  BY <1>1, <1>3 DEF S, Having
<1>5. Filled(h, i) \in Nat /\ Filled(h, i) < p
  <2>1. Filled(h, i) \in Nat
    BY <1>4, FilledIs
  <2> SUFFICES ASSUME Filled(h, i) >= p PROVE FALSE
    BY <2>1
  <2>2. PICK k \in Used(h) \cap 1..(i - 1) : Filled(h, i) = h.items[k].off + Fits(h, h.items[k])
    BY <1>4, <2>1, FilledIs
  <2>3. k \in 1..Len(h.items) /\ k < i /\ h.items[k] \in Item
    BY <1>1, <1>4, <2>2
  <2>4. h.items[k].off <= f.off
    <3>1. DOMAIN h.items = 1..Len(h.items)
      BY LenProperties DEF FragmentHead
    <3> QED
      BY <2>3, <1>4, <3>1 DEF Sorted
  <2>5. h.items[k].off < p
    BY <2>3, <2>4, <1>4 DEF Item
  <2>6. k \in S
    BY <2>2, <2>5 DEF S, Having
  <2> QED
    BY <2>3, <2>6, <1>3, <1>4
<1>6. p - f.off \in 1..Len(f.data)
  <2>1. f.off \in Nat /\ Len(f.data) \in Nat /\ Fits(h, f) \in Nat
    BY <1>1, <1>4 DEF Item, Data
  <2>2. Fits(h, f) > Overlap(h, i)
    BY <1>4, <1>5, <2>1 DEF Overlap
  <2>3. ~ (Len(f.data) < Fits(h, f))
    BY <1>4, <2>2 DEF ReadsPast
  <2> HIDE DEF f
  <2> QED
    BY <1>4, <2>1, <2>3
<1> QED
  BY <1>3, <1>4, <1>5, <1>6 DEF S, i, f

LEMMA AssembledIs ==
    ASSUME NEW h \in FragmentHead, Sorted(h), \A i \in Used(h) : ~ReadsPast(h, i)
    PROVE  /\ Assembled(h) \in Data /\ Len(Assembled(h)) = h.datalen
           /\ \A p \in 1..h.datalen :
                 /\ Having(h, p) = {} => Assembled(h)[p] = <<>>
                 /\ Having(h, p) # {} =>
                       LET f == h.items[Min(Having(h, p))] IN Assembled(h)[p] = f.data[p - f.off]
<1> DEFINE Byte_(p) == LET f == h.items[Min(Having(h, p))] IN IF Having(h, p) = {} THEN <<>> ELSE f.data[p - f.off]
<1>1. Assembled(h) = [p \in 1..h.datalen |-> Byte_(p)]
  BY DEF Assembled, Having
<1>2. ASSUME NEW p \in 1..h.datalen PROVE Byte_(p) \in Byte
  <2>1. CASE Having(h, p) = {}
    BY <2>1 DEF Byte
  <2>2. CASE Having(h, p) # {}
    <3> DEFINE f == h.items[Min(Having(h, p))]
    <3>1. f \in Item /\ p - f.off \in 1..Len(f.data)
      BY <2>2, FirstHaving
    <3>2. f.data \in Seq(Byte)
      BY <3>1 DEF Item, Data
    <3> HIDE DEF f
    <3>3. f.data[p - f.off] \in Byte
      BY <3>1, <3>2
    <3> QED
      BY <2>2, <3>3 DEF f
  <2> QED
    BY <2>1, <2>2
<1> HIDE DEF Byte_
<1>3. Assembled(h) \in [1..h.datalen -> Byte]
  BY <1>1, <1>2
<1>4. Assembled(h) \in Data /\ Len(Assembled(h)) = h.datalen
  <2>1. h.datalen \in Nat
    BY DEF FragmentHead
  <2> QED
    BY <2>1, <1>3, FunctionIsSeq DEF Data
<1>5. \A p \in 1..h.datalen : Assembled(h)[p] = Byte_(p)
  BY <1>1
<1> QED
  BY <1>4, <1>5 DEF Byte_

MarksOf(h) == UNION {Marks(h, Assembled(h), i) : i \in DOMAIN h.items}
LostSome(h) == \E i \in DOMAIN h.items : h.items[i].len > 0 /\ h.items[i].off < h.datalen /\ Lost(h.items[i])

Remade(h, g, in) ==
    [h EXCEPT !.items = g.items, !.flags = @ \cup MarksOf(h), !.data = Assembled(h), !.error = h.error \/ LostSome(h),
              !.defrag = TRUE, !.reasIn = in]

(* fragment_defragment_and_free by offsets: unless it reads past the data  *)
(* of a fragment, the head is the same with the data put together.         *)
LEMMA AssembleIs ==
    ASSUME NEW h \in FragmentHead, ListOK(h), NEW in \in Nat
    PROVE  LET r == Assemble(h, in) IN
           \/ r = Throw(Tear(h))
           \/ /\ \A i \in Used(h) : ~ReadsPast(h, i)
              /\ r.h \in FragmentHead /\ ListOK(r.h) /\ Len(r.h.items) = Len(h.items)
              /\ r = IF h.error \/ LostSome(h) THEN Throw(r.h) ELSE Whole(r.h)
              /\ r.h = Remade(h, r.h, in)
              /\ \A i \in 1..Len(h.items) : r.h.items[i] = Flag(Spent(h.items[i]), Marks(h, Assembled(h), i))
<1> DEFINE r   == Assemble(h, in)
           n   == Len(h.items)
           its == [i \in DOMAIN h.items |-> Flag(Spent(h.items[i]), Marks(h, Assembled(h), i))]
           g   == [h EXCEPT !.items = its, !.flags = @ \cup MarksOf(h), !.data = Assembled(h),
                            !.error = h.error \/ LostSome(h), !.defrag = TRUE, !.reasIn = in]
<1>1. CASE \E i \in Used(h) : ReadsPast(h, i)
  BY <1>1 DEF Assemble
<1>2. CASE ~ \E i \in Used(h) : ReadsPast(h, i)
  <2>1. n \in Nat /\ DOMAIN h.items = 1..n /\ \A i \in 1..n : h.items[i] \in Item
    BY LenProperties DEF FragmentHead
  <2>2. \A i : Marks(h, Assembled(h), i) \subseteq ItemFlags
    BY DEF Marks, ItemFlags
  <2>3. MarksOf(h) \subseteq ItemFlags
    BY <2>2 DEF MarksOf
  <2>4. ASSUME NEW f \in Item, NEW fs \in SUBSET ItemFlags
        PROVE  Flag(Spent(f), fs) \in Item /\ Flag(Spent(f), fs).off = f.off /\ Flag(Spent(f), fs).len = f.len
    BY NoDataType DEF Item, Flag, Spent
  <2>5. its \in [1..n -> Item]
    BY <2>1, <2>2, <2>4
  <2>6. its \in Seq(Item) /\ Len(its) = n
    <3> HIDE DEF its, n
    <3> QED
      BY <2>1, <2>5, FunctionIsSeq
  <2>7. \A i \in 1..n : its[i] = Flag(Spent(h.items[i]), Marks(h, Assembled(h), i))
    BY <2>1
  <2>8. Assembled(h) \in Data
    BY <1>2, AssembledIs DEF ListOK
  <2>9. r = IF g.error THEN Throw(g) ELSE Whole(g)
    <3>1. [Flag(h, MarksOf(h)) EXCEPT !.items = its, !.data = Assembled(h), !.error = @ \/ LostSome(h),
                                      !.defrag = TRUE, !.reasIn = in] = g
      <4> HIDE DEF its
      <4> QED
        BY DEF Flag, FragmentHead
    <3> HIDE DEF g
    <3> QED
      BY <1>2, <3>1 DEF Assemble, MarksOf, LostSome
  <2> HIDE DEF its, r
  <2>10. g \in FragmentHead /\ g.items = its /\ g.gap = h.gap /\ g.contig = h.contig /\ g.error = (h.error \/ LostSome(h))
    BY <2>3, <2>6, <2>8 DEF FragmentHead, LostSome
  <2>11. ListOK(g)
    <3>1. \A i \in 1..n : its[i].off = h.items[i].off /\ its[i].len = h.items[i].len
      BY <2>1, <2>2, <2>4, <2>7
    <3> HIDE DEF g
    <3> QED
      BY <2>6, <2>10, <3>1, SameList
  <2>12. r.h = g
    BY <2>9 DEF Throw, Whole
  <2>13. r = IF h.error \/ LostSome(h) THEN Throw(g) ELSE Whole(g)
    BY <2>9, <2>10
  <2>14. g = Remade(h, g, in)
    BY <2>10 DEF Remade
  <2> HIDE DEF g
  <2> QED
    BY <1>2, <2>6, <2>7, <2>10, <2>11, <2>12, <2>13, <2>14, Zenon DEF r
<1> QED
  BY <1>1, <1>2, Zenon

(* What a step of the work may do to a head, for a fragment of a frame.    *)
Worked(h, frame, in, r) ==
    /\ r.h \in FragmentHead /\ r.h.gap \in 0..Len(r.h.items) /\ (~r.h.torn => ListOK(r.h))
    /\ r.done \in BOOLEAN /\ r.thrown \in BOOLEAN /\ (r.done => r.h.defrag /\ ~r.thrown /\ ~r.h.torn)
    /\ r.h.seq = h.seq /\ r.h.ref = h.ref /\ r.h.freed = h.freed
    /\ (~h.partial => ~r.h.partial) /\ (h.error => r.h.error)
    /\ FramesIn(r.h) \subseteq FramesIn(h) \cup {frame}
    /\ r.h.frame \in {h.frame, frame} /\ r.h.frame >= h.frame
    /\ r.h.reasIn \in {0, h.reasIn, in}
    /\ r.done => r.h.frame >= frame /\ frame \in FramesIn(r.h)
    /\ r.h.defrag => h.defrag \/ r.done \/ r.h.error
    /\ h.defrag /\ ~h.partial =>
          r.h.defrag /\ r.h.reasIn = h.reasIn /\ FramesIn(h) \subseteq FramesIn(r.h)

NewItem(c)   == [frame |-> c.from, off |-> c.off, len |-> c.len, data |-> NoData, flags |-> {}]
Tailed(h, c) == WithTail(Noted(h, c.from), c, NewItem(c), End(NewItem(c)))
Ready(h, c)  == IF h.defrag /\ Beyond(h, c) /\ h.partial THEN ResetDefragmentation(h) ELSE h

LEMMA FramesOfElems ==
    ASSUME NEW h
    PROVE  FramesIn(h) = {f.frame : f \in Elems(h)}
  BY DEF FramesIn, Elems

(* The length is known from a tail, the frames are noted.                  *)
TailOf(h, c, fs) ==
    [h EXCEPT !.frame = Larger(@, c.from), !.set = @ \/ c.tail, !.flags = @ \cup fs,
              !.datalen = IF c.tail /\ ~h.set THEN End(NewItem(c)) ELSE @]

LEMMA TailedIs ==
    ASSUME NEW h \in FragmentHead, ListOK(h), NEW c \in CallOf
    PROVE  LET t == Tailed(h, c) IN
           /\ NewItem(c) \in Item /\ t.h \in FragmentHead /\ ListOK(t.h)
           /\ \E fs \in SUBSET {"tails"} :
                 t.f = Flag(NewItem(c), fs) /\ t.h = TailOf(h, c, fs)
<1> DEFINE f == NewItem(c)
           t == Tailed(h, c)
           g(fs) == [h EXCEPT !.frame = Larger(@, c.from), !.set = @ \/ c.tail, !.flags = @ \cup fs,
                              !.datalen = IF c.tail /\ ~h.set THEN End(f) ELSE @]
<1>1. f \in Item /\ f.flags = {} /\ f = [f EXCEPT !.flags = {}]
  <2>1. {} \in SUBSET ItemFlags /\ c.from \in Nat /\ c.off \in Nat /\ c.len \in Length /\ NoData \in Data
    BY NoDataType DEF CallOf
  <2>2. f \in Item /\ f.flags = {}
    BY <2>1 DEF NewItem, Item
  <2> HIDE DEF f
  <2>3. f = [f EXCEPT !.flags = {}]
    BY <2>2 DEF Item
  <2> QED
    BY <2>2, <2>3
<1>2. End(f) \in Nat
  BY <1>1, EndIs, ItemsAreFragments
<1>3. t = WithTail(Noted(h, c.from), c, f, End(f))
  BY DEF Tailed
<1> HIDE DEF f, t
<1>4. c.tail \in BOOLEAN /\ c.from \in Nat
  BY DEF CallOf
<1>5. Larger(h.frame, c.from) \in Nat
  BY <1>4 DEF Larger, FragmentHead
<1>6. ASSUME NEW fs \in SUBSET {"tails"} PROVE g(fs) \in FragmentHead /\ ListOK(g(fs))
  <2>1. g(fs) \in FragmentHead /\ g(fs).items = h.items /\ g(fs).gap = h.gap /\ g(fs).contig = h.contig
    BY <1>2, <1>4, <1>5 DEF FragmentHead, ItemFlags
  <2> HIDE DEF g
  <2> QED
    BY <2>1, SameList
<1> DEFINE Goal == \E fs \in SUBSET {"tails"} : t.f = [f EXCEPT !.flags = fs] /\ t.h = g(fs)
<1>7. ASSUME NEW fs \in SUBSET {"tails"}, t.f = [f EXCEPT !.flags = fs], t.h = g(fs) PROVE Goal
  BY <1>7
<1> HIDE DEF Goal
<1>12. Goal
  <2>1. CASE ~c.tail
    <3>1. t.h = g({}) /\ t.f = [f EXCEPT !.flags = {}]
      BY <1>1, <1>3, <1>4, <2>1 DEF WithTail, Noted, FragmentHead
    <3> QED
      BY <3>1, <1>7
  <2>2. CASE c.tail /\ ~h.set
    <3>1. t.h = g({}) /\ t.f = [f EXCEPT !.flags = {}]
      BY <1>1, <1>3, <1>4, <2>2 DEF WithTail, Noted, FragmentHead
    <3> QED
      BY <3>1, <1>7
  <2>3. CASE c.tail /\ h.set /\ h.datalen # End(f)
    <3>1. t.h = g({"tails"}) /\ t.f = [f EXCEPT !.flags = {"tails"}]
      BY <1>1, <1>3, <1>4, <2>3 DEF WithTail, Noted, FragmentHead, Flag, Item
    <3> QED
      BY <3>1, <1>7
  <2>4. CASE c.tail /\ h.set /\ h.datalen = End(f)
    <3>1. t.h = g({}) /\ t.f = [f EXCEPT !.flags = {}]
      BY <1>1, <1>3, <1>4, <2>4 DEF WithTail, Noted, FragmentHead
    <3> QED
      BY <3>1, <1>7
  <2> QED
    BY <2>1, <2>2, <2>3, <2>4
<1>13. t.h \in FragmentHead /\ ListOK(t.h)
  BY <1>6, <1>12 DEF Goal
<1>14. \A fs \in SUBSET {"tails"} : [f EXCEPT !.flags = fs] = Flag(f, fs) /\ g(fs) = TailOf(h, c, fs)
  BY <1>1 DEF Flag, TailOf, Item, f
<1>15. \E fs \in SUBSET {"tails"} : t.f = Flag(f, fs) /\ t.h = TailOf(h, c, fs)
  BY <1>12, <1>14 DEF Goal
<1> QED
  BY <1>1, <1>13, <1>15 DEF f, t

(* The bytes of a fragment are data.                                       *)
LEMMA BytesType ==
    ASSUME NEW c \in CallOf, NEW off \in Nat
    PROVE  /\ Bytes(c, off) \in Data /\ Len(Bytes(c, off)) = c.len
           /\ \A k \in 1..c.len : Bytes(c, off)[k] = IF Seq_ THEN <<off, k, c.v>> ELSE <<off + k - 1, 0, c.v>>
<1>1. c.len \in Nat /\ c.v \in Versions
  BY ModulusAssumption DEF CallOf, Length
<1>2. \A k \in 1..c.len : k \in Nat /\ off + k - 1 \in Nat
  BY <1>1
<1>3. \A k \in 1..c.len : (IF Seq_ THEN <<off, k, c.v>> ELSE <<off + k - 1, 0, c.v>>) \in Byte
  BY <1>1, <1>2 DEF Byte
<1>4. Bytes(c, off) = [k \in 1..c.len |-> IF Seq_ THEN <<off, k, c.v>> ELSE <<off + k - 1, 0, c.v>>]
  BY DEF Bytes
<1>5. Bytes(c, off) \in [1..c.len -> Byte]
  BY <1>3, <1>4
<1> QED
  BY <1>1, <1>4, <1>5, FunctionIsSeq DEF Data

(* A fragment of a completed reassembly is listed, with the same marks as  *)
(* its head.                                                               *)
Marked(h, f, bytes) ==
    {"overlap"} \cup (IF End(f) > h.datalen \/ Wraps(f) THEN {"toolong"}
                      ELSE IF SubSeq(h.data, f.off + 1, f.off + f.len) # bytes THEN {"conflict"} ELSE {})

LEMMA AddOverlapIs ==
    ASSUME NEW h \in FragmentHead, NEW f \in Item, ListOK(h), NEW bytes,
           NEW r, r = AddOverlap(h, f, bytes),
           NEW fs, fs = Marked(h, f, bytes),
           NEW e, e = Flag(f, fs)
    PROVE  /\ r = Whole(r.h) /\ r.h \in FragmentHead /\ ListOK(r.h)
           /\ r.h = Relisted(Flag(h, fs), r.h)
           /\ fs \subseteq ItemFlags /\ e \in Item
           /\ Len(r.h.items) = Len(h.items) + 1
           /\ Elems(r.h) = Elems(h) \cup {e}
<1> DEFINE u == Flag(h, fs)
           l == LinkFrag(u, e)
<1>1. fs \subseteq ItemFlags
  BY DEF Marked, ItemFlags
<1>2. r = Whole(l)
  BY DEF AddOverlap, Marked
<1>3. r.h = l
  BY <1>2 DEF Whole
<1>4. u \in FragmentHead /\ u.items = h.items /\ u.gap = h.gap /\ u.contig = h.contig /\ e \in Item
  BY <1>1 DEF FragmentHead, Item, Flag
<1> HIDE DEF u
<1>5. ListOK(u) /\ Elems(u) = Elems(h)
  BY <1>4, SameList DEF Elems
<1>6. /\ l \in FragmentHead /\ ListOK(l)
      /\ l = Relisted(u, l)
      /\ Len(l.items) = Len(u.items) + 1 /\ l.items # <<>>
      /\ Elems(l) = Elems(u) \cup {e}
  BY <1>4, <1>5, LinkFragIs
<1> HIDE DEF l
<1> QED
  BY <1>1, <1>2, <1>3, <1>4, <1>5, <1>6 DEF u

(* A fragment of a reassembly in progress is listed with its bytes.        *)
WithData(f, bytes) == [f EXCEPT !.data = bytes]
Listed(h, f, bytes) == LinkFrag(h, WithData(f, bytes))

LEMMA ListedIs ==
    ASSUME NEW h \in FragmentHead, ListOK(h), NEW f \in Item, NEW bytes \in Data,
           NEW e, e = WithData(f, bytes),
           NEW l, l = Listed(h, f, bytes)
    PROVE  /\ e \in Item /\ l \in FragmentHead /\ ListOK(l)
           /\ l = Relisted(h, l)
           /\ Len(l.items) = Len(h.items) + 1 /\ Elems(l) = Elems(h) \cup {e}
<1>1. e \in Item
  BY DEF Item, WithData
<1>2. l = LinkFrag(h, e)
  BY DEF Listed
<1> QED
  BY <1>1, <1>2, LinkFragIs

(* What fragment_add_work does, step by step.                              *)
LEMMA AddWorkIs ==
    ASSUME NEW h \in FragmentHead, ListOK(h), ~h.torn, NEW c \in CallOf, NEW allow \in BOOLEAN
    PROVE  LET g == Ready(h, c)
               t == Tailed(g, c)
               b == Bytes(c, c.off)
               r == AddWork(h, c, allow)
           IN  \/ h.defrag /\ Beyond(h, c) /\ ~h.partial /\ ~allow /\ r = Throw(h)
               \/ h.partial /\ r = Throw(Tear(h))
               \/ /\ g \in FragmentHead /\ ListOK(g) /\ ~g.torn
                  /\ g.defrag => g = h /\ (~Beyond(h, c) \/ allow)
                  /\ g = h \/ (h.partial /\ h.defrag /\ g = ResetDefragmentation(h) /\ g # Tear(h))
                  /\ \/ g.defrag /\ r = AddOverlap(t.h, t.f, b)
                     \/ ~g.defrag /\ r = AddToList(t.h, t.f, b, c.num)
<1> DEFINE g == Ready(h, c)
           t == Tailed(g, c)
           b == Bytes(c, c.off)
           r == AddWork(h, c, allow)
           beyond == h.defrag /\ Beyond(h, c)
<1>1. CASE beyond /\ ~h.partial /\ ~allow
  BY <1>1 DEF AddWork
<1>2. CASE ~(beyond /\ ~h.partial /\ ~allow)
  <2>1. r = IF g.torn THEN Throw(g) ELSE IF t.h.defrag THEN AddOverlap(t.h, t.f, b) ELSE AddToList(t.h, t.f, b, c.num)
    BY <1>2 DEF AddWork, Ready, Tailed, NewItem
  <2>2. CASE g = Tear(h)
    <3>1. g.torn
      BY <2>2 DEF Tear, FragmentHead
    <3>2. h.partial
      <4>1. ~ (g = h)
        BY <3>1
      <4> QED
        BY <4>1 DEF Ready
    <3> QED
      BY <2>1, <2>2, <3>1, <3>2
  <2>3. CASE g # Tear(h)
    <3>1. /\ g \in FragmentHead /\ ListOK(g) /\ ~g.torn
          /\ \/ g = h /\ (~beyond \/ ~h.partial)
             \/ beyond /\ h.partial /\ g = ResetDefragmentation(h) /\ ~g.defrag
      <4>1. CASE beyond /\ h.partial
        <5>1. g = ResetDefragmentation(h)
          BY <4>1 DEF Ready
        <5>2. /\ g \in FragmentHead /\ ListOK(g)
              /\ g = Undone_(h, g)
          <6> HIDE DEF g
          <6> QED
            BY <5>1, <2>3, ResetDefragmentationIs
        <5>3. ~g.torn /\ ~g.defrag
          <6> HIDE DEF g
          <6> QED
            BY <5>2 DEF FragmentHead, Undone_
        <5> QED
          BY <4>1, <5>1, <5>2, <5>3
      <4>2. CASE ~(beyond /\ h.partial)
        BY <4>2 DEF Ready
      <4> QED
        BY <4>1, <4>2
    <3> HIDE DEF g
    <3>2. t.h.defrag = g.defrag
      <4>1. \E fs \in SUBSET {"tails"} : t.f = Flag(NewItem(c), fs) /\ t.h = TailOf(g, c, fs)
        BY <3>1, TailedIs
      <4> HIDE DEF t
      <4> QED
        BY <4>1, <3>1 DEF FragmentHead, TailOf
    <3>3. h.partial \in BOOLEAN /\ g.defrag \in BOOLEAN
      BY <3>1 DEF FragmentHead
    <3>4. g.defrag => g = h /\ (~Beyond(h, c) \/ allow)
      BY <3>1, <1>2, <2>3
    <3> HIDE DEF t, r
    <3>5. \/ g.defrag /\ r = AddOverlap(t.h, t.f, b)
          \/ ~g.defrag /\ r = AddToList(t.h, t.f, b, c.num)
      BY <2>1, <3>1, <3>2, <3>3
    <3>6. g = h \/ (h.partial /\ h.defrag /\ g = ResetDefragmentation(h) /\ g # Tear(h))
      BY <3>1, <2>3
    <3> QED
      BY <3>1, <3>4, <3>5, <3>6 DEF g, t, r
  <2> QED
    BY <2>2, <2>3
<1> QED
  BY <1>1, <1>2

(* The frames of a list with other data and flags.                         *)
LEMMA SameFrames ==
    ASSUME NEW h \in FragmentHead, NEW g \in FragmentHead, Len(g.items) = Len(h.items),
           \A i \in 1..Len(h.items) : g.items[i].frame = h.items[i].frame
    PROVE  FramesIn(g) = FramesIn(h)
<1>1. DOMAIN h.items = 1..Len(h.items) /\ DOMAIN g.items = 1..Len(h.items)
  BY LenProperties DEF FragmentHead
<1> QED
  BY <1>1 DEF FramesIn

LEMMA TornWorked ==
    ASSUME NEW h \in FragmentHead, ListOK(h), ~h.torn, NEW frame, NEW in
    PROVE  Worked(h, frame, in, Throw(h)) /\ Worked(h, frame, in, Throw(Tear(h)))
<1>1. h.gap \in 0..Len(h.items) /\ h.frame \in Nat
  BY DEF ListOK, GapExact, FragmentHead
<1>2. Worked(h, frame, in, Throw(h))
  BY <1>1 DEF Worked, Throw
<1>3. /\ Tear(h) \in FragmentHead /\ Tear(h).items = h.items /\ Tear(h).gap = h.gap /\ Tear(h).torn
      /\ Tear(h) = [h EXCEPT !.torn = TRUE]
  BY DEF Tear, FragmentHead
<1>4. FramesIn(Tear(h)) = FramesIn(h)
  BY <1>3 DEF FramesIn
<1>5. /\ Tear(h).seq = h.seq /\ Tear(h).ref = h.ref /\ Tear(h).freed = h.freed /\ Tear(h).partial = h.partial
      /\ Tear(h).error = h.error /\ Tear(h).frame = h.frame /\ Tear(h).reasIn = h.reasIn /\ Tear(h).defrag = h.defrag
  BY <1>3 DEF FragmentHead
<1> DEFINE r == Throw(Tear(h))
<1>6. r.h = Tear(h) /\ r.done = FALSE /\ r.thrown = TRUE
  BY DEF Throw
<1> HIDE DEF r
<1>7. Worked(h, frame, in, r)
  <2> DEFINE u == r.h
  <2>1. /\ u \in FragmentHead /\ u.items = h.items /\ u.gap = h.gap /\ u.torn
        /\ u.seq = h.seq /\ u.ref = h.ref /\ u.freed = h.freed /\ u.partial = h.partial
        /\ u.error = h.error /\ u.frame = h.frame /\ u.reasIn = h.reasIn /\ u.defrag = h.defrag
        /\ FramesIn(u) = FramesIn(h)
    BY <1>3, <1>4, <1>5, <1>6
  <2>2. u.gap \in 0..Len(u.items) /\ u.frame >= h.frame
    BY <1>1, <2>1
  <2> HIDE DEF u
  <2>3. r.h = u
    BY DEF u
  <2> QED
    BY <1>6, <2>1, <2>2, <2>3 DEF Worked
<1> QED
  BY <1>2, <1>7 DEF r

(* fragment_add_work keeps the list and its cache, whatever it is given.   *)
LEMMA AddWorked ==
    ASSUME NEW h \in FragmentHead, ListOK(h), ~h.torn, NEW c \in CallOf, NEW allow \in BOOLEAN
    PROVE  LET r == AddWork(h, c, allow) IN
           /\ Worked(h, c.from, c.num, r)
           /\ allow /\ h.defrag /\ ~h.partial => r.done
<1> DEFINE g == Ready(h, c)
           t == Tailed(g, c)
           b == Bytes(c, c.off)
           r == AddWork(h, c, allow)
<1>0. c.off \in Nat /\ c.from \in Nat /\ c.num \in Nat /\ h.gap \in 0..Len(h.items) /\ h.frame \in Nat
  BY DEF CallOf, ListOK, GapExact, FragmentHead
<1>1. CASE h.defrag /\ Beyond(h, c) /\ ~h.partial /\ ~allow /\ r = Throw(h)
  <2> HIDE DEF r
  <2> QED
    BY <1>1, TornWorked DEF r
<1>2. CASE h.partial /\ r = Throw(Tear(h))
  <2> HIDE DEF r
  <2> QED
    BY <1>2, TornWorked DEF r
<1>3. CASE /\ g \in FragmentHead /\ ListOK(g) /\ ~g.torn
           /\ g = h \/ (h.partial /\ h.defrag /\ g = ResetDefragmentation(h) /\ g # Tear(h))
           /\ \/ g.defrag /\ r = AddOverlap(t.h, t.f, b)
              \/ ~g.defrag /\ r = AddToList(t.h, t.f, b, c.num)
  <2>1. /\ FramesIn(g) = FramesIn(h) /\ g.seq = h.seq /\ g.ref = h.ref /\ g.freed = h.freed /\ g.error = h.error
        /\ g.frame = h.frame /\ g.reasIn \in {0, h.reasIn} /\ (~h.partial => g = h)
        /\ (~h.partial => ~g.partial) /\ (g.defrag => h.defrag)
    <3>1. CASE g = h
      BY <3>1
    <3>2. CASE h.partial /\ h.defrag /\ g = ResetDefragmentation(h) /\ g # Tear(h)
      <4> HIDE DEF g
      <4>1. /\ g \in FragmentHead /\ Len(g.items) = Len(h.items) /\ g = Undone_(h, g)
            /\ \A i \in 1..Len(h.items) : g.items[i] = Restored(h, h.items[i])
        BY <3>2, ResetDefragmentationIs
      <4>2. \A i \in 1..Len(h.items) : h.items[i] \in Item
        BY DEF FragmentHead
      <4>3. \A i \in 1..Len(h.items) : g.items[i].frame = h.items[i].frame
        BY <4>1, <4>2 DEF Item, Restored
      <4>4. FramesIn(g) = FramesIn(h)
        BY <4>1, <4>3, SameFrames
      <4> QED
        BY <3>2, <4>1, <4>4 DEF FragmentHead, Undone_
    <3> QED
      BY <3>1, <3>2, <1>3
  <2> HIDE DEF g
  <2> DEFINE k == t.h
             m == t.f
  <2>2. PICK fs \in SUBSET {"tails"} :
           m = Flag(NewItem(c), fs) /\ k = TailOf(g, c, fs)
    BY <1>3, TailedIs
  <2>3. NewItem(c) \in Item /\ k \in FragmentHead /\ ListOK(k)
    BY <1>3, TailedIs
  <2> HIDE DEF t, k, m
  <2>4. m \in Item /\ m.frame = c.from
    BY <2>2, <2>3 DEF Item, ItemFlags, NewItem, Flag
  <2>5. /\ FramesIn(k) = FramesIn(g) /\ k.seq = g.seq /\ k.ref = g.ref /\ k.freed = g.freed
        /\ k.error = g.error /\ k.frame = Larger(g.frame, c.from) /\ k.reasIn = g.reasIn
        /\ k.partial = g.partial /\ k.defrag = g.defrag /\ k.torn = g.torn
    BY <2>2, <1>3 DEF FragmentHead, FramesIn, TailOf
  <2>6. /\ k.frame \in {h.frame, c.from} /\ k.frame >= h.frame /\ k.frame >= c.from
    BY <2>1, <2>5, <1>0 DEF Larger
  <2>7. b \in Data
    BY <1>0, BytesType
  <2>8. ASSUME NEW l \in FragmentHead, NEW e \in Item, e.frame = c.from, Elems(l) = Elems(k) \cup {e}
        PROVE  FramesIn(l) = FramesIn(h) \cup {c.from}
    <3>1. FramesIn(l) = FramesIn(k) \cup {c.from}
      BY <2>8, FramesOfElems
    <3> QED
      BY <3>1, <2>1, <2>5
  <2> HIDE DEF b, r
  <2>9. CASE g.defrag /\ r = AddOverlap(k, m, b)
    <3> DEFINE ms == Marked(k, m, b)
               e  == Flag(m, ms)
    <3>0. e.frame = c.from
      BY <2>4 DEF Item, Flag
    <3> HIDE DEF ms
    <3>00. e = Flag(m, ms) /\ ms = Marked(k, m, b)
      BY DEF ms
    <3> HIDE DEF e
    <3>1. /\ r = Whole(r.h) /\ r.h \in FragmentHead /\ ListOK(r.h)
          /\ r.h = Relisted(Flag(k, ms), r.h)
          /\ ms \subseteq ItemFlags /\ e \in Item
          /\ Elems(r.h) = Elems(k) \cup {e}
      BY <2>3, <2>4, <2>9, <3>00, AddOverlapIs
    <3>2. e \in Item /\ e.frame = c.from
      BY <3>0, <3>1
    <3>3. FramesIn(r.h) = FramesIn(h) \cup {c.from}
      BY <3>1, <3>2, <2>8
    <3>4. /\ r.h.seq = h.seq /\ r.h.ref = h.ref /\ r.h.freed = h.freed /\ r.h.error = h.error
          /\ r.h.frame = k.frame /\ r.h.reasIn = g.reasIn /\ r.h.partial = g.partial /\ r.h.defrag /\ ~r.h.torn
      <4> DEFINE u == r.h
      <4>1. u = Relisted(Flag(k, ms), u)
        BY <3>1
      <4> HIDE DEF u
      <4>2. /\ u.seq = k.seq /\ u.ref = k.ref /\ u.freed = k.freed /\ u.error = k.error
            /\ u.frame = k.frame /\ u.reasIn = k.reasIn /\ u.partial = k.partial
            /\ u.defrag = k.defrag /\ u.torn = k.torn
        BY <4>1, <2>3 DEF FragmentHead, Relisted, Flag
      <4>3. u = r.h
        BY DEF u
      <4> QED
        BY <4>2, <4>3, <2>1, <2>5, <2>9, <1>3
    <3>5. r.done = TRUE /\ r.thrown = FALSE
      BY <3>1 DEF Whole
    <3>6. r.h.gap \in 0..Len(r.h.items)
      BY <3>1 DEF ListOK, GapExact
    <3> QED
      BY <3>1, <3>3, <3>4, <3>5, <3>6, <2>1, <2>6, <2>9 DEF Worked, r
  <2>10. CASE ~g.defrag /\ r = AddToList(k, m, b, c.num)
    <3> DEFINE l == Listed(k, m, b)
               e == WithData(m, b)
    <3>2. e.frame = c.from /\ e = WithData(m, b)
      BY <2>4 DEF Item, WithData
    <3>11. l = Listed(k, m, b)
      OBVIOUS
    <3> HIDE DEF e, l
    <3>1. /\ e \in Item /\ l \in FragmentHead /\ ListOK(l)
          /\ l = Relisted(k, l)
          /\ Len(l.items) = Len(k.items) + 1 /\ Elems(l) = Elems(k) \cup {e}
      <4>1. k \in FragmentHead /\ ListOK(k)
        BY <2>3
      <4>2. m \in Item /\ b \in Data
        BY <2>4, <2>7
      <4>3. e = WithData(m, b)
        BY <3>2
      <4> QED
        BY ONLY <4>1, <4>2, <4>3, <3>11, ListedIs
    <3>3. r = IF l.set /\ l.contig >= l.datalen THEN Assemble(l, c.num) ELSE Going(l)
      BY <2>10, <3>11 DEF AddToList, Listed, WithData
    <3>4. FramesIn(l) = FramesIn(h) \cup {c.from}
      BY <3>1, <3>2, <2>8
    <3>5. /\ l.seq = h.seq /\ l.ref = h.ref /\ l.freed = h.freed /\ l.error = h.error
          /\ l.frame = k.frame /\ l.reasIn = g.reasIn /\ l.partial = g.partial /\ ~l.defrag /\ ~l.torn
      <4>1. /\ l.seq = k.seq /\ l.ref = k.ref /\ l.freed = k.freed /\ l.error = k.error
            /\ l.frame = k.frame /\ l.reasIn = k.reasIn /\ l.partial = k.partial
            /\ l.defrag = k.defrag /\ l.torn = k.torn
        BY <3>1, <2>3 DEF FragmentHead, Relisted
      <4> QED
        BY <4>1, <2>1, <2>3, <2>5, <2>10, <1>3
    <3>6. l.gap \in 0..Len(l.items)
      BY <3>1 DEF ListOK, GapExact
    <3>7. ~(h.defrag /\ ~h.partial)
      BY <2>1, <2>10
    <3>8. CASE r = Going(l)
      <4>1. r.h = l /\ r.done = FALSE /\ r.thrown = FALSE
        BY <3>8 DEF Going
      <4> QED
        BY <4>1, <3>1, <3>4, <3>5, <3>6, <3>7, <2>1, <2>6 DEF Worked, r
    <3>9. CASE r = Assemble(l, c.num)
      <4>1. CASE r = Throw(Tear(l))
        <5>1. /\ Tear(l) \in FragmentHead /\ Tear(l).torn /\ FramesIn(Tear(l)) = FramesIn(l)
              /\ Tear(l).items = l.items /\ Tear(l).gap = l.gap
              /\ Tear(l).seq = l.seq /\ Tear(l).ref = l.ref /\ Tear(l).freed = l.freed /\ Tear(l).error = l.error
              /\ Tear(l).frame = l.frame /\ Tear(l).reasIn = l.reasIn /\ Tear(l).partial = l.partial
              /\ Tear(l).defrag = l.defrag
          BY <3>1 DEF Tear, FragmentHead, FramesIn
        <5>2. r.h = Tear(l) /\ r.done = FALSE /\ r.thrown = TRUE
          BY <4>1 DEF Throw
        <5> QED
          BY <5>1, <5>2, <3>4, <3>5, <3>6, <3>7, <2>1, <2>6 DEF Worked, r
      <4>2. CASE r # Throw(Tear(l))
        <5> DEFINE o == Assemble(l, c.num)
        <5>0. \/ o = Throw(Tear(l))
              \/ /\ \A i \in Used(l) : ~ReadsPast(l, i)
                 /\ o.h \in FragmentHead /\ ListOK(o.h) /\ Len(o.h.items) = Len(l.items)
                 /\ o = IF l.error \/ LostSome(l) THEN Throw(o.h) ELSE Whole(o.h)
                 /\ o.h = Remade(l, o.h, c.num)
                 /\ \A i \in 1..Len(l.items) : o.h.items[i] = Flag(Spent(l.items[i]), Marks(l, Assembled(l), i))
          BY <1>0, <3>1, AssembleIs, Zenon
        <5> HIDE DEF o
        <5>1. /\ r.h \in FragmentHead /\ ListOK(r.h) /\ Len(r.h.items) = Len(l.items)
              /\ r = IF l.error \/ LostSome(l) THEN Throw(r.h) ELSE Whole(r.h)
              /\ r.h = Remade(l, r.h, c.num)
              /\ \A i \in 1..Len(l.items) : r.h.items[i] = Flag(Spent(l.items[i]), Marks(l, Assembled(l), i))
          <6>1. r = o
            BY <3>9 DEF o
          <6> QED
            BY <5>0, <6>1, <4>2, Zenon
        <5>2. \A i \in 1..Len(l.items) : r.h.items[i].frame = l.items[i].frame
          <6>1. \A i \in 1..Len(l.items) : l.items[i] \in Item
            <7>1. l.items \in Seq(Item)
              BY <3>1 DEF FragmentHead
            <7> QED
              BY <7>1
          <6>2. ASSUME NEW f \in Item, NEW marks PROVE Flag(Spent(f), marks).frame = f.frame
            BY DEF Flag, Spent, Item
          <6> QED
            BY <5>1, <6>1, <6>2
        <5>3. FramesIn(r.h) = FramesIn(l)
          BY <5>1, <5>2, <3>1, SameFrames
        <5>4. /\ r.h.seq = l.seq /\ r.h.ref = l.ref /\ r.h.freed = l.freed /\ (l.error => r.h.error)
              /\ r.h.frame = l.frame /\ r.h.reasIn = c.num /\ r.h.partial = l.partial /\ r.h.defrag /\ ~r.h.torn
              /\ r.h.error = (l.error \/ LostSome(l)) /\ r.h.gap = l.gap
          BY <5>1, <3>1, <3>5 DEF FragmentHead, Remade
        <5>5. /\ r.done \in BOOLEAN /\ r.thrown \in BOOLEAN /\ (r.done => ~r.thrown)
              /\ r.done \/ r.h.error
          <6>1. CASE l.error \/ LostSome(l)
            <7>1. r = Throw(r.h)
              BY <5>1, <6>1
            <7>2. r.done = FALSE /\ r.thrown = TRUE
              BY <7>1 DEF Throw
            <7> QED
              BY <7>2, <5>4, <6>1
          <6>2. CASE ~(l.error \/ LostSome(l))
            <7>1. r = Whole(r.h)
              BY <5>1, <6>2
            <7>2. r.done = TRUE /\ r.thrown = FALSE
              BY <7>1 DEF Whole
            <7> QED
              BY <7>2
          <6> QED
            BY <6>1, <6>2
        <5> QED
          BY <5>1, <5>3, <5>4, <5>5, <3>4, <3>5, <3>6, <3>7, <2>1, <2>6 DEF Worked, r
      <4> QED
        BY <4>1, <4>2
    <3> QED
      BY <3>3, <3>8, <3>9
  <2> QED
    BY <1>3, <2>9, <2>10 DEF k, m
<1>4. \/ h.defrag /\ Beyond(h, c) /\ ~h.partial /\ ~allow /\ r = Throw(h)
      \/ h.partial /\ r = Throw(Tear(h))
      \/ /\ g \in FragmentHead /\ ListOK(g) /\ ~g.torn
         /\ g.defrag => g = h /\ (~Beyond(h, c) \/ allow)
         /\ g = h \/ (h.partial /\ h.defrag /\ g = ResetDefragmentation(h) /\ g # Tear(h))
         /\ \/ g.defrag /\ r = AddOverlap(t.h, t.f, b)
            \/ ~g.defrag /\ r = AddToList(t.h, t.f, b, c.num)
  BY AddWorkIs, Zenon
<1>5. Worked(h, c.from, c.num, r) /\ (allow /\ h.defrag /\ ~h.partial => r.done)
  BY <1>1, <1>2, <1>3, <1>4, Zenon
<1> QED
  BY <1>5
--------------------------------------------------------------------------------
(* Block numbers.                                                           *)

(* The function that sums up the lengths is there: its values are numbers, *)
(* one after the other.                                                    *)
Sums(u, items, S) ==
    /\ u \in [0..Len(items) -> Nat] /\ u[0] = 0
    /\ \A n \in 1..Len(items) : u[n] = u[n - 1] + (IF n \in S THEN items[n].len ELSE 0)

LEMMA UptoIs ==
    ASSUME NEW items \in Seq(Item), NEW S
    PROVE  Sums(Upto(items, S), items, S)
<1> DEFINE w(n) == IF n \in S THEN items[n].len ELSE 0
           N == Len(items)
           Step(f) == [n \in 0..N |-> IF n = 0 THEN 0 ELSE f[n - 1] + w(n)]
           upto == CHOOSE f : f = Step(f)
<1>1. N \in Nat /\ \A n \in 1..N : w(n) \in Nat
  <2>0. \A n \in 1..N : items[n] \in Item
    OBVIOUS
  <2>1. \A n \in 1..N : items[n].len \in Nat
    BY <2>0, ModulusAssumption DEF Item, Length
  <2> QED
    BY <2>1
<1>2. upto = Upto(items, S)
  BY DEF Upto
<1> HIDE DEF w, N
<1>3. \E f : f = Step(f)
  <2> DEFINE P(f, k) == f \in [0..k -> Nat] /\ f[0] = 0 /\ \A n \in 1..k : f[n] = f[n - 1] + w(n)
             T == {k \in Nat : k <= N => \E f : P(f, k)}
  <2>1. 0 \in T
    <3> DEFINE f == [n \in 0..0 |-> 0]
    <3>1. P(f, 0)
      OBVIOUS
    <3> QED
      BY <3>1
  <2>2. ASSUME NEW k \in Nat, k \in T PROVE k + 1 \in T
    <3> HIDE DEF P
    <3> SUFFICES ASSUME k + 1 <= N PROVE \E f : P(f, k + 1)
      OBVIOUS
    <3>0. PICK f : P(f, k)
      BY <2>2, <1>1
    <3>1. f \in [0..k -> Nat] /\ f[0] = 0 /\ \A n \in 1..k : f[n] = f[n - 1] + w(n)
      BY <3>0 DEF P
    <3> DEFINE g == [n \in 0..(k + 1) |-> IF n <= k THEN f[n] ELSE f[k] + w(k + 1)]
    <3>2. w(k + 1) \in Nat /\ f[k] \in Nat
      BY <3>1, <1>1
    <3>3. g \in [0..(k + 1) -> Nat] /\ g[0] = 0
      BY <3>1, <3>2
    <3>4. ASSUME NEW n \in 1..(k + 1) PROVE g[n] = g[n - 1] + w(n)
      <4>1. CASE n <= k
        BY <4>1, <3>1
      <4>2. CASE n = k + 1
        BY <4>2, <3>1
      <4> QED
        BY <4>1, <4>2
    <3> HIDE DEF g
    <3>5. P(g, k + 1)
      BY <3>3, <3>4 DEF P
    <3> QED
      BY <3>5
  <2> HIDE DEF T
  <2>3. N \in T
    BY <1>1, <2>1, <2>2, SetInduction
  <2> HIDE DEF P
  <2>4. PICK f : P(f, N)
    BY <1>1, <2>3 DEF T
  <2>5. f = Step(f)
    BY <2>4 DEF P
  <2> QED
    BY <2>5
<1>4. upto = Step(upto)
  BY <1>3
<1> HIDE DEF upto
<1> DEFINE T == {k \in Nat : k <= N => upto[k] \in Nat}
<1>5. 0 \in T
  BY <1>1, <1>4
<1>6. ASSUME NEW k \in Nat, k \in T PROVE k + 1 \in T
  <2> SUFFICES ASSUME k + 1 <= N PROVE upto[k + 1] \in Nat
    OBVIOUS
  <2>1. k + 1 \in 0..N /\ k + 1 # 0 /\ (k + 1) - 1 = k
    BY <1>1
  <2>2. upto[k + 1] = upto[k] + w(k + 1)
    BY <2>1, <1>4
  <2>3. w(k + 1) \in Nat /\ upto[k] \in Nat
    BY <1>6, <2>1, <1>1
  <2> QED
    BY <2>2, <2>3
<1> HIDE DEF T
<1>7. \A k \in Nat : k \in T
  BY <1>5, <1>6, SetInduction
<1>8. \A k \in 0..N : upto[k] \in Nat
  BY <1>7, <1>1 DEF T
<1>9. upto \in [0..N -> Nat] /\ upto[0] = 0 /\ \A n \in 1..N : upto[n] = upto[n - 1] + w(n)
  BY <1>1, <1>4, <1>8
<1> QED
  BY <1>2, <1>9 DEF Sums, w, N

(* The loop of fragment_add_seq_work over a reassembly that is undone.     *)
LEMMA SeqUndoIs ==
    ASSUME NEW h \in FragmentHead, ListOK(h), ~h.torn, NEW g, g = SeqUndo(h)
    PROVE  /\ g \in FragmentHead /\ ListOK(g) /\ Len(g.items) = Len(h.items)
           /\ g = Undone_(h, g)
           /\ FramesIn(g) = FramesIn(h)
<1> DEFINE without == {i \in DOMAIN h.items : h.items[i].data = NoData}
           own   == {i \in without : "overlap" \notin h.items[i].flags}
           at(i) == IF own \cap 1..i = {} THEN 0 ELSE Upto(h.items, own)[Max(own \cap 1..i) - 1]
           n     == Len(h.items)
           new(f, i) == Unflag([f EXCEPT !.data = IF @ = NoData THEN Remaining(h.data, at(i)) ELSE @])
           its   == [i \in DOMAIN h.items |-> new(h.items[i], i)]
<1>1. /\ n \in Nat /\ DOMAIN h.items = 1..n /\ h.data \in Data /\ h.items \in Seq(Item)
      /\ \A i \in 1..n : h.items[i] \in Item
  BY LenProperties DEF FragmentHead
<1>2. ASSUME NEW i \in 1..n PROVE at(i) \in Nat
  <2>1. CASE own \cap 1..i = {}
    BY <2>1
  <2>2. CASE own \cap 1..i # {}
    <3> DEFINE S == own \cap 1..i
    <3>1. S \in SUBSET Nat /\ S # {} /\ i \in Nat /\ \A x \in S : x <= i /\ x >= 1
      BY <2>2
    <3> HIDE DEF S
    <3>2. Max(S) \in S
      BY <3>1, MaxOf
    <3>3. Max(S) - 1 \in 0..n
      <4> DEFINE m == Max(S)
      <4>1. m \in Nat /\ m <= i /\ m >= 1
        BY <3>1, <3>2
      <4> HIDE DEF m
      <4> QED
        BY <1>1, <4>1 DEF m
    <3>4. Upto(h.items, own) \in [0..n -> Nat]
      <4> HIDE DEF own
      <4> QED
        BY <1>1, UptoIs DEF Sums
    <3> HIDE DEF own
    <3>5. Upto(h.items, own)[Max(S) - 1] \in Nat
      BY <3>3, <3>4
    <3> QED
      BY <2>2, <3>5 DEF S
  <2> QED
    BY <2>1, <2>2
<1>3. g = Undone([h EXCEPT !.items = its])
  BY DEF SeqUndo
<1> HIDE DEF at, without, own
<1>4. ASSUME NEW f \in Item, NEW i \in 1..n
      PROVE  new(f, i) \in Item /\ new(f, i).off = f.off /\ new(f, i).len = f.len /\ new(f, i).frame = f.frame
  <2>1. Remaining(h.data, at(i)) \in Data
    BY <1>1, <1>2, RemainingType
  <2> QED
    BY <2>1 DEF Item, Unflag
<1>5. its \in [1..n -> Item] /\ \A i \in 1..n : its[i] = new(h.items[i], i)
  BY <1>1, <1>4
<1> HIDE DEF new, its
<1>6. its \in Seq(Item) /\ Len(its) = n
  <2> HIDE DEF n
  <2> QED
    BY <1>1, <1>5, FunctionIsSeq
<1>7. g = [h EXCEPT !.items = its, !.flags = @ \ {"toolong", "tails"}, !.defrag = FALSE, !.partial = FALSE,
                    !.set = FALSE, !.datalen = 0, !.reasIn = 0]
  BY <1>3 DEF Undone, Unflag, FragmentHead
<1>8. g \in FragmentHead /\ g.items = its /\ g.gap = h.gap /\ g.contig = h.contig
  <2>1. its \in Seq(Item)
    BY <1>6
  <2> QED
    BY ONLY <2>1, <1>7, h \in FragmentHead DEF FragmentHead
<1>9. \A i \in 1..n : its[i].off = h.items[i].off /\ its[i].len = h.items[i].len /\ its[i].frame = h.items[i].frame
  BY <1>1, <1>4, <1>5
<1>10. ListOK(g)
  BY <1>6, <1>8, <1>9, SameList
<1>11. FramesIn(g) = FramesIn(h)
  BY <1>6, <1>8, <1>9, SameFrames
<1>12. g = Undone_(h, g)
  BY <1>7, <1>8 DEF Undone_
<1> QED
  BY <1>6, <1>8, <1>10, <1>11, <1>12

(* fragment_defragment_and_free by block numbers: unless it reads past the *)
(* data of a fragment, the head is the same with the data put together.    *)
SeqRemade(h, g, in) ==
    [h EXCEPT !.items = g.items, !.flags = g.flags, !.data = g.data, !.len = g.len, !.defrag = TRUE, !.reasIn = in]

LEMMA SeqAssembleIs ==
    ASSUME NEW h \in FragmentHead, ListOK(h), NEW in \in Nat, NEW r, r = SeqAssemble(h, in)
    PROVE  \/ r = Throw(Tear(h))
           \/ /\ r = Whole(r.h) /\ r.h \in FragmentHead /\ ListOK(r.h) /\ Len(r.h.items) = Len(h.items)
              /\ r.h = SeqRemade(h, r.h, in)
              /\ FramesIn(r.h) = FramesIn(h)
<1> DEFINE n == DOMAIN h.items
           marks(i) == (IF Repeats(h.items, i) /\ h.items[i].len > 0 THEN {"overlap"} ELSE {})
                          \cup (IF Differs(h.items, i) THEN {"conflict"} ELSE {})
           firsts == {i \in n : ~Repeats(h.items, i)}
           ends   == Upto(h.items, firsts)
           of(p)  == {k \in n : p <= ends[k]}
           byte(p) == LET i == Min(of(p)) IN h.items[i].data[p - ends[i - 1]]
           bytes  == [p \in 1..ends[Len(h.items)] |-> byte(p)]
           compared == {i \in n : Repeats(h.items, i) /\ h.items[i].len = h.items[i - 1].len}
           read   == firsts \cup compared \cup {i - 1 : i \in compared}
           past   == \E i \in read : h.items[i].len > Len(h.items[i].data)
           its    == [i \in n |-> Flag([h.items[i] EXCEPT !.data = NoData], marks(i))]
           flags  == UNION {marks(i) : i \in n}
           g      == [Flag(h, flags) EXCEPT !.items = its, !.data = bytes, !.len = Len(bytes), !.defrag = TRUE, !.reasIn = in]
           N      == Len(h.items)
<1>1. r = IF past THEN Throw(Tear(h)) ELSE Whole(g)
  BY DEF SeqAssemble
<1>2. /\ N \in Nat /\ n = 1..N /\ h.items \in Seq(Item) /\ \A i \in 1..N : h.items[i] \in Item
  BY LenProperties DEF FragmentHead
<1>3. CASE past
  <2> HIDE DEF past, g
  <2>1. r = Throw(Tear(h))
    BY <1>1, <1>3
  <2> QED
    BY <2>1
<1>4. CASE ~past
  <2>1. Sums(ends, h.items, firsts)
    <3> HIDE DEF firsts
    <3> QED
      BY <1>2, UptoIs
  <2>2. \A i \in firsts : h.items[i].len <= Len(h.items[i].data)
    <3>1. \A i \in firsts : i \in 1..N /\ ~ (h.items[i].len > Len(h.items[i].data))
      BY <1>2, <1>4
    <3>2. \A i \in 1..N : h.items[i].len \in Nat /\ Len(h.items[i].data) \in Nat
      BY <1>2, ItemIs
    <3> QED
      BY <3>1, <3>2
  <2>3. \A i : marks(i) \subseteq ItemFlags
    BY DEF ItemFlags
  <2> HIDE DEF marks, ends, read, past, compared
  <2>4. ends \in [0..N -> Nat] /\ ends[0] = 0
    BY <2>1, <1>2 DEF Sums
  <2>5. ASSUME NEW p \in 1..ends[N] PROVE byte(p) \in Byte
    <3>1. ends[N] \in Nat /\ N \in 0..N
      BY <1>2, <2>4
    <3>2. N # 0
      BY <3>1, <2>4
    <3>3. of(p) \in SUBSET Nat /\ of(p) # {}
      <4>1. N \in of(p)
        BY <1>2, <3>1, <3>2
      <4> QED
        BY <1>2, <4>1
    <3> DEFINE i == Min(of(p))
    <3>4. i \in of(p) /\ \A k \in of(p) : i <= k
      <4> HIDE DEF of
      <4> QED
        BY <3>3, MinOf
    <3>5. i \in 1..N /\ p <= ends[i]
      BY <3>4, <1>2
    <3> HIDE DEF i
    <3>6. i - 1 \in 0..N /\ ends[i - 1] \in Nat /\ ends[i] \in Nat /\ i - 1 < i
      BY <3>5, <1>2, <2>4
    <3>7. ends[i - 1] < p
      <4>1. CASE i = 1
        BY <4>1, <2>4
      <4>2. CASE i # 1
        <5>1. i - 1 \in n /\ i - 1 \notin of(p)
          BY <4>2, <3>4, <3>5, <3>6, <1>2
        <5> HIDE DEF n
        <5>2. ~ (p <= ends[i - 1])
          BY <5>1
        <5> QED
          BY <5>2, <3>6
      <4> QED
        BY <4>1, <4>2
    <3>8. ends[i] = ends[i - 1] + (IF i \in firsts THEN h.items[i].len ELSE 0)
      <4> HIDE DEF firsts
      <4> QED
        BY <2>1, <3>5 DEF Sums
    <3>9. i \in firsts
      <4> HIDE DEF firsts
      <4> QED
        BY <3>8, <3>7, <3>6, <3>5
    <3>10. h.items[i].len \in Nat /\ h.items[i].data \in Seq(Byte) /\ Len(h.items[i].data) \in Nat
      BY <1>2, <3>5, ItemIs
    <3>11. p - ends[i - 1] \in 1..Len(h.items[i].data)
      <4>1. h.items[i].len <= Len(h.items[i].data)
        BY <2>2, <3>9
      <4>2. ends[i] = ends[i - 1] + h.items[i].len
        BY <3>8, <3>9
      <4>3. ASSUME NEW a \in Nat, NEW b \in Nat, NEW x \in Nat, NEW y \in Nat, NEW z \in Nat,
                   a < p, p <= b, b = a + x, x <= y, p \in 1..z
            PROVE  p - a \in 1..y
        BY <4>3
      <4> HIDE DEF firsts, N
      <4> QED
        BY <4>1, <4>2, <4>3, <3>1, <3>5, <3>6, <3>7, <3>10
    <3>12. h.items[i].data[p - ends[i - 1]] \in Byte
      BY <3>10, <3>11
    <3> QED
      BY <3>12 DEF i
  <2> HIDE DEF byte, firsts
  <2>6. bytes \in Data /\ Len(bytes) \in Nat
    <3>1. ends[N] \in Nat
      BY <1>2, <2>4
    <3>2. bytes \in [1..ends[N] -> Byte]
      BY <2>5
    <3> HIDE DEF bytes
    <3> QED
      BY <3>1, <3>2, FunctionIsSeq DEF Data
  <2> HIDE DEF bytes
  <2>7. ASSUME NEW f \in Item, NEW fs \in SUBSET ItemFlags, NEW e, e = Flag([f EXCEPT !.data = NoData], fs)
        PROVE  e \in Item /\ e.off = f.off /\ e.len = f.len /\ e.frame = f.frame
    BY <2>7, NoDataType DEF Item, Flag
  <2>8. its \in [1..N -> Item]
    BY <1>2, <2>3, <2>7
  <2>9. \A i \in 1..N : its[i].off = h.items[i].off /\ its[i].len = h.items[i].len /\ its[i].frame = h.items[i].frame
    BY <1>2, <2>3, <2>7
  <2> HIDE DEF its
  <2>10. its \in Seq(Item) /\ Len(its) = N
    <3> HIDE DEF N
    <3> QED
      BY <1>2, <2>8, FunctionIsSeq
  <2>11. h.flags \cup flags \in SUBSET ItemFlags
    <3>1. h.flags \in SUBSET ItemFlags
      BY DEF FragmentHead
    <3> QED
      BY <3>1, <2>3
  <2> HIDE DEF flags
  <2>12. g = [h EXCEPT !.items = its, !.flags = @ \cup flags, !.data = bytes, !.len = Len(bytes), !.defrag = TRUE,
                       !.reasIn = in]
    BY DEF Flag, FragmentHead
  <2> HIDE DEF g
  <2>13. /\ g \in FragmentHead /\ g.items = its /\ g.gap = h.gap /\ g.contig = h.contig
         /\ g.flags = h.flags \cup flags /\ g.data = bytes /\ g.len = Len(bytes)
    <3>1. its \in Seq(Item)
      BY <2>10
    <3> QED
      BY ONLY <3>1, <2>6, <2>11, <2>12, in \in Nat, h \in FragmentHead DEF FragmentHead
  <2>14. ListOK(g)
    BY <2>9, <2>10, <2>13, SameList
  <2>15. FramesIn(g) = FramesIn(h)
    BY <2>9, <2>10, <2>13, SameFrames
  <2>16. g = SeqRemade(h, g, in)
    BY <2>12, <2>13 DEF SeqRemade
  <2>17. r = Whole(g) /\ r.h = g
    BY <1>1, <1>4 DEF Whole
  <2> QED
    BY <2>10, <2>13, <2>14, <2>15, <2>16, <2>17, Zenon
<1> QED
  BY <1>3, <1>4, Zenon

(* What a step leaves alone of a head.                                     *)
Kept(h, g) ==
    /\ g.seq = h.seq /\ g.ref = h.ref /\ g.freed = h.freed /\ g.error = h.error /\ g.partial = h.partial
    /\ g.reasIn = h.reasIn /\ g.defrag = h.defrag /\ g.torn = h.torn

LEMMA FlagIs ==
    ASSUME NEW h \in FragmentHead, ListOK(h), NEW fs \in SUBSET ItemFlags, NEW g, g = Flag(h, fs)
    PROVE  /\ g \in FragmentHead /\ ListOK(g) /\ Kept(h, g) /\ g.frame = h.frame /\ g.items = h.items
           /\ FramesIn(g) = FramesIn(h)
<1>1. g \in FragmentHead /\ g.items = h.items /\ g.gap = h.gap /\ g.contig = h.contig /\ g.frame = h.frame
  BY DEF Flag, FragmentHead
<1>2. ListOK(g)
  BY <1>1, SameList
<1>3. Kept(h, g)
  BY DEF Flag, FragmentHead, Kept
<1> QED
  BY <1>1, <1>2, <1>3 DEF FramesIn

LEMMA RelistedIs ==
    ASSUME NEW h \in FragmentHead, ListOK(h), NEW f \in Item, NEW g, g = LinkFrag(h, f)
    PROVE  /\ g \in FragmentHead /\ ListOK(g) /\ Kept(h, g) /\ g.frame = h.frame
           /\ FramesIn(g) = FramesIn(h) \cup {f.frame}
<1>1. g \in FragmentHead /\ ListOK(g) /\ g = Relisted(h, g) /\ Elems(g) = Elems(h) \cup {f}
  BY LinkFragIs
<1>2. FramesIn(g) = FramesIn(h) \cup {f.frame}
  BY <1>1, FramesOfElems
<1>3. Kept(h, g) /\ g.frame = h.frame
  BY <1>1 DEF Relisted, FragmentHead, Kept
<1> QED
  BY <1>1, <1>2, <1>3

LEMMA SeqTailedIs ==
    ASSUME NEW h \in FragmentHead, ListOK(h), NEW c, c.tail \in BOOLEAN, NEW frame \in Nat,
           NEW f \in Item, NEW end \in Nat, NEW t, t = WithTail(Noted(h, frame), c, f, end)
    PROVE  /\ t.h \in FragmentHead /\ ListOK(t.h) /\ Kept(h, t.h) /\ t.h.frame = Larger(h.frame, frame)
           /\ FramesIn(t.h) = FramesIn(h)
           /\ t.f \in Item /\ t.f.frame = f.frame
<1> DEFINE k == Noted(h, frame)
<1>1. /\ k \in FragmentHead /\ k.items = h.items /\ k.gap = h.gap /\ k.contig = h.contig /\ Kept(h, k)
      /\ k.frame = Larger(h.frame, frame)
  <2>1. Larger(h.frame, frame) \in Nat
    BY DEF Larger, FragmentHead
  <2> QED
    BY <2>1 DEF Noted, FragmentHead, Kept
<1>2. ListOK(k) /\ FramesIn(k) = FramesIn(h)
  BY <1>1, SameList DEF FramesIn
<1> HIDE DEF k
<1>3. CASE t = [h |-> k, f |-> f]
  BY <1>1, <1>2, <1>3
<1>4. CASE t = [h |-> [k EXCEPT !.set = TRUE, !.datalen = end], f |-> f]
  <2> DEFINE g == [k EXCEPT !.set = TRUE, !.datalen = end]
  <2>1. g \in FragmentHead /\ g.items = k.items /\ g.gap = k.gap /\ g.contig = k.contig /\ g.frame = k.frame
    BY <1>1 DEF FragmentHead
  <2>2. Kept(k, g)
    BY <1>1 DEF FragmentHead, Kept
  <2>3. t.h = g /\ t.f = f
    BY <1>4
  <2> HIDE DEF g
  <2>4. ListOK(g) /\ FramesIn(g) = FramesIn(k)
    BY <1>1, <1>2, <2>1, SameList DEF FramesIn
  <2> QED
    BY <1>1, <1>2, <2>1, <2>2, <2>3, <2>4 DEF Kept
<1>5. CASE t = [h |-> Flag(k, {"tails"}), f |-> Flag(f, {"tails"})]
  <2> DEFINE g == Flag(k, {"tails"})
  <2>1. {"tails"} \in SUBSET ItemFlags
    BY DEF ItemFlags
  <2>2. t.h = g /\ t.f = Flag(f, {"tails"})
    BY <1>5
  <2>3. Flag(f, {"tails"}) \in Item /\ Flag(f, {"tails"}).frame = f.frame
    BY <2>1 DEF Item, Flag
  <2>4. g \in FragmentHead /\ ListOK(g) /\ Kept(k, g) /\ g.frame = k.frame /\ FramesIn(g) = FramesIn(k)
    BY <1>1, <1>2, <2>1, FlagIs
  <2> QED
    BY <1>1, <1>2, <2>2, <2>3, <2>4 DEF Kept
<1> QED
  BY <1>3, <1>4, <1>5 DEF WithTail, k

LEMMA SeqOverlapIs ==
    ASSUME NEW h \in FragmentHead, ListOK(h), NEW f \in Item, NEW bytes,
           NEW r, r = SeqOverlap(h, f, bytes)
    PROVE  /\ r \in {Throw(r.h), Whole(r.h)}
           /\ r.h \in FragmentHead /\ ListOK(r.h) /\ Kept(h, r.h) /\ r.h.frame = h.frame
           /\ FramesIn(h) \subseteq FramesIn(r.h) /\ FramesIn(r.h) \subseteq FramesIn(h) \cup {f.frame}
           /\ r = Whole(r.h) => f.frame \in FramesIn(r.h)
<1>1. PICK fs \in SUBSET ItemFlags : r = Throw(Flag(h, fs)) \/ r = Whole(LinkFrag(Flag(h, fs), Flag(f, fs)))
  <2> DEFINE same == {i \in DOMAIN h.items : h.items[i].off = f.off}
             first == CHOOSE i \in same : \A j \in same : i <= j
             pos   == Upto(h.items, {i \in DOMAIN h.items : ~Repeats(h.items, i)})[first - 1]
             again == f.off <= h.datalen /\ same # {}
             alike == again /\ h.items[first].len = f.len
             flags == {"overlap"} \cup (IF f.off > h.datalen THEN {"toolong"} ELSE {})
             differs == ~alike \/ SubSeq(h.data, pos + 1, pos + f.len) # bytes
             clash == IF again /\ differs THEN {"conflict"} ELSE {}
  <2>1. r = IF alike /\ (pos + f.len > h.len \/ Len(bytes) < f.len) THEN Throw(Flag(h, flags))
            ELSE Whole(LinkFrag(Flag(h, flags \cup clash), Flag(f, flags \cup clash)))
    BY DEF SeqOverlap
  <2>2. flags \in SUBSET ItemFlags /\ flags \cup clash \in SUBSET ItemFlags
    <3> HIDE DEF differs, again
    <3> QED
      BY DEF ItemFlags
  <2> HIDE DEF flags, clash, alike, pos
  <2> QED
    BY ONLY <2>1, <2>2, Zenon
<1> DEFINE g == Flag(h, fs)
           e == Flag(f, fs)
           l == LinkFrag(g, e)
<1>2. g \in FragmentHead /\ ListOK(g) /\ Kept(h, g) /\ g.frame = h.frame /\ FramesIn(g) = FramesIn(h)
  BY FlagIs
<1>3. e \in Item /\ e.frame = f.frame
  BY DEF Item, Flag
<1> HIDE DEF g, e
<1>4. /\ l \in FragmentHead /\ ListOK(l) /\ Kept(g, l) /\ l.frame = g.frame
      /\ FramesIn(l) = FramesIn(g) \cup {e.frame}
  BY <1>2, <1>3, RelistedIs
<1> HIDE DEF l
<1>5. CASE r = Throw(g)
  <2>1. r.h = g /\ r.done = FALSE
    BY <1>5 DEF Throw
  <2>2. r # Whole(r.h)
    BY <2>1 DEF Whole
  <2> QED
    BY <1>2, <1>5, <2>1, <2>2
<1>6. CASE r = Whole(l)
  <2>1. r.h = l
    BY <1>6 DEF Whole
  <2> QED
    BY <1>2, <1>3, <1>4, <1>6, <2>1 DEF Kept
<1> QED
  BY <1>1, <1>5, <1>6 DEF g, e, l

(* fragment_add_seq_work keeps the list and its cache, whatever it is      *)
(* given.                                                                  *)
LEMMA SeqWorked ==
    ASSUME NEW h \in FragmentHead, ListOK(h), ~h.torn, NEW c \in CallOf, NEW number \in Nat,
           NEW r, r = SeqWork(h, c, number)
    PROVE  Worked(h, c.num, c.num, r)
<1> DEFINE q == IF h.defrag /\ number >= h.datalen /\ h.partial THEN SeqUndo(h) ELSE h
           f == [frame |-> c.num, off |-> number, len |-> c.len, data |-> NoData, flags |-> {}]
           t == WithTail(Noted(q, c.num), c, f, number)
           k == t.h
           m == t.f
           g == [t.f EXCEPT !.data = IF c.len = 0 THEN NoData ELSE Bytes(c, number)]
           n == FirstMissing(LinkFrag(t.h, g).items)
           long == IF n > t.h.datalen + 1 THEN {"toolong"} ELSE {}
           b == IF c.short THEN <<>> ELSE Bytes(c, number)
           l == LinkFrag(k, g)
           kl == Flag(k, long)
           gl == Flag(g, long)
           ll == LinkFrag(kl, gl)
<1>0. /\ c.num \in Nat /\ c.len \in Length /\ c.tail \in BOOLEAN /\ h.frame \in Nat /\ h.gap \in 0..Len(h.items)
      /\ h.partial \in BOOLEAN /\ h.defrag \in BOOLEAN
  BY DEF CallOf, FragmentHead, ListOK, GapExact
<1>1. \/ k.defrag /\ r = SeqOverlap(k, m, b)
      \/ ~k.defrag /\ r = Going(k)
      \/ ~k.defrag /\ r = Going(l)
      \/ ~k.defrag /\ r = SeqAssemble(ll, c.num)
  <2>1. r = IF k.defrag THEN SeqOverlap(k, m, b)
            ELSE IF c.len > 0 /\ c.short THEN Going(k)
            ELSE IF ~k.set \/ n <= k.datalen THEN Going(l)
            ELSE SeqAssemble(ll, c.num)
    BY DEF SeqWork
  <2> HIDE DEF k, m, b, l, ll, n
  <2> QED
    BY <2>1
<1>2. /\ q \in FragmentHead /\ ListOK(q) /\ ~q.torn
      /\ FramesIn(q) = FramesIn(h) /\ q.seq = h.seq /\ q.ref = h.ref /\ q.freed = h.freed /\ q.error = h.error
      /\ q.frame = h.frame /\ q.reasIn \in {0, h.reasIn} /\ (~h.partial => q = h)
      /\ (~h.partial => ~q.partial) /\ (q.defrag => h.defrag)
  <2>1. CASE q = h
    BY <2>1
  <2>2. CASE h.partial /\ q = SeqUndo(h)
    <3> HIDE DEF q
    <3>1. q \in FragmentHead /\ ListOK(q) /\ q = Undone_(h, q) /\ FramesIn(q) = FramesIn(h)
      BY <2>2, SeqUndoIs
    <3>2. /\ q.seq = h.seq /\ q.ref = h.ref /\ q.freed = h.freed /\ q.error = h.error
          /\ q.frame = h.frame /\ q.reasIn = 0 /\ q.torn = h.torn /\ ~q.defrag
      BY <3>1 DEF Undone_, FragmentHead
    <3> QED
      BY <2>2, <3>1, <3>2
  <2> QED
    BY <2>1, <2>2
<1>3. f \in Item /\ f.frame = c.num
  <2>1. {} \in SUBSET ItemFlags /\ NoData \in Data
    BY NoDataType
  <2> QED
    BY <1>0, <2>1 DEF Item
<1> HIDE DEF q, f
<1>4. /\ k \in FragmentHead /\ ListOK(k) /\ Kept(q, k) /\ k.frame = Larger(q.frame, c.num)
      /\ FramesIn(k) = FramesIn(q)
      /\ m \in Item /\ m.frame = c.num
  <2>1. t.h \in FragmentHead /\ ListOK(t.h) /\ Kept(q, t.h) /\ t.h.frame = Larger(q.frame, c.num)
        /\ FramesIn(t.h) = FramesIn(q)
        /\ t.f \in Item /\ t.f.frame = f.frame
    <3> HIDE DEF t
    <3>1. t = WithTail(Noted(q, c.num), c, f, number)
      BY DEF t
    <3> QED
      BY ONLY <1>0, <1>2, <1>3, <3>1, SeqTailedIs, number \in Nat
  <2> QED
    BY <2>1, <1>3
<1>5. g \in Item /\ g.frame = c.num
  <2>1. (IF c.len = 0 THEN NoData ELSE Bytes(c, number)) \in Data
    BY NoDataType, BytesType
  <2> HIDE DEF t
  <2> QED
    BY <1>4, <2>1 DEF Item
<1>6. long \in SUBSET ItemFlags
  <2> HIDE DEF n, t
  <2> QED
    BY DEF ItemFlags
<1> HIDE DEF t, k, m, g, n, b
<1>7. /\ l \in FragmentHead /\ ListOK(l) /\ Kept(k, l) /\ l.frame = k.frame /\ FramesIn(l) = FramesIn(k) \cup {c.num}
  <2>1. l = LinkFrag(k, g)
    OBVIOUS
  <2> HIDE DEF l
  <2> QED
    BY <1>4, <1>5, <2>1, RelistedIs
<1> HIDE DEF l, long
<1>8. kl \in FragmentHead /\ ListOK(kl) /\ Kept(k, kl) /\ kl.frame = k.frame /\ FramesIn(kl) = FramesIn(k)
  BY <1>4, <1>6, FlagIs
<1>9. gl \in Item /\ gl.frame = c.num
  BY <1>5, <1>6 DEF Item, Flag
<1> HIDE DEF kl, gl
<1>10. /\ ll \in FragmentHead /\ ListOK(ll) /\ Kept(kl, ll) /\ ll.frame = kl.frame
       /\ FramesIn(ll) = FramesIn(kl) \cup {c.num}
  <2>1. ll = LinkFrag(kl, gl)
    OBVIOUS
  <2> HIDE DEF ll
  <2> QED
    BY <1>8, <1>9, <2>1, RelistedIs
<1> HIDE DEF ll
<1>11. k.frame \in {h.frame, c.num} /\ k.frame >= h.frame /\ k.frame >= c.num
  BY <1>0, <1>2, <1>4 DEF Larger
<1>13. CASE k.defrag /\ r = SeqOverlap(k, m, b)
  <2>1. /\ r \in {Throw(r.h), Whole(r.h)}
        /\ r.h \in FragmentHead /\ ListOK(r.h) /\ Kept(k, r.h) /\ r.h.frame = k.frame
        /\ FramesIn(k) \subseteq FramesIn(r.h) /\ FramesIn(r.h) \subseteq FramesIn(k) \cup {m.frame}
        /\ r = Whole(r.h) => m.frame \in FramesIn(r.h)
    BY <1>4, <1>13, SeqOverlapIs
  <2> DEFINE x == r.h
  <2>2. r.done \in BOOLEAN /\ r.thrown \in BOOLEAN /\ (r.done => ~r.thrown /\ r = Whole(x))
    <3>1. ASSUME NEW y, r = Throw(y) PROVE r.done = FALSE /\ r.thrown = TRUE
      BY <3>1 DEF Throw
    <3>2. ASSUME NEW y, r = Whole(y) PROVE r.done = TRUE /\ r.thrown = FALSE
      BY <3>2 DEF Whole
    <3> QED
      BY <2>1, <3>1, <3>2
  <2>3. x.gap \in 0..Len(x.items)
    BY <2>1 DEF ListOK, GapExact
  <2>4. /\ x.seq = h.seq /\ x.ref = h.ref /\ x.freed = h.freed /\ x.error = h.error /\ x.partial = q.partial
        /\ x.frame = k.frame /\ x.reasIn = q.reasIn /\ x.defrag /\ h.defrag /\ ~x.torn
    BY <2>1, <1>2, <1>4, <1>13 DEF Kept
  <2>5. FramesIn(x) \subseteq FramesIn(h) \cup {c.num} /\ FramesIn(h) \subseteq FramesIn(x)
        /\ (r = Whole(x) => c.num \in FramesIn(x))
    BY <2>1, <1>2, <1>4
  <2>6. x \in FragmentHead /\ ListOK(x)
    BY <2>1
  <2>7. r.h = x
    OBVIOUS
  <2> HIDE DEF x
  <2> QED
    BY <2>2, <2>3, <2>4, <2>5, <2>6, <2>7, <1>2, <1>11 DEF Worked
<1>14. CASE ~k.defrag /\ r \in {Going(k), Going(l)}
  <2> DEFINE x == r.h
  <2>1. x \in {k, l} /\ r.done = FALSE /\ r.thrown = FALSE
    BY <1>14 DEF Going
  <2>2. x.gap \in 0..Len(x.items) /\ x \in FragmentHead /\ ListOK(x)
    BY <2>1, <1>4, <1>7 DEF ListOK, GapExact
  <2>3. Kept(k, x) /\ x.frame = k.frame /\ FramesIn(x) \subseteq FramesIn(k) \cup {c.num}
    BY <2>1, <1>7 DEF Kept
  <2>4. /\ x.seq = h.seq /\ x.ref = h.ref /\ x.freed = h.freed /\ x.error = h.error /\ x.partial = q.partial
        /\ x.frame = k.frame /\ x.reasIn = q.reasIn /\ ~x.defrag /\ ~x.torn
    BY <2>3, <1>2, <1>4, <1>14 DEF Kept
  <2>5. FramesIn(x) \subseteq FramesIn(h) \cup {c.num}
    BY <2>3, <1>2, <1>4
  <2>6. ~(h.defrag /\ ~h.partial)
    BY <1>2, <1>4, <1>14 DEF Kept
  <2>7. r.h = x
    OBVIOUS
  <2> HIDE DEF x
  <2> QED
    BY <2>1, <2>2, <2>4, <2>5, <2>6, <2>7, <1>2, <1>11 DEF Worked
<1>15. CASE ~k.defrag /\ r = SeqAssemble(ll, c.num)
  <2>1. \/ r = Throw(Tear(ll))
        \/ /\ r = Whole(r.h) /\ r.h \in FragmentHead /\ ListOK(r.h) /\ Len(r.h.items) = Len(ll.items)
           /\ r.h = SeqRemade(ll, r.h, c.num)
           /\ FramesIn(r.h) = FramesIn(ll)
    BY <1>0, <1>10, <1>15, SeqAssembleIs
  <2>2. /\ ll.seq = h.seq /\ ll.ref = h.ref /\ ll.freed = h.freed /\ ll.error = h.error /\ ll.partial = q.partial
        /\ ll.frame = k.frame /\ ll.reasIn = q.reasIn /\ ~ll.defrag /\ ~ll.torn
        /\ FramesIn(ll) = FramesIn(h) \cup {c.num}
    BY <1>2, <1>4, <1>8, <1>10, <1>15 DEF Kept
  <2>3. ~(h.defrag /\ ~h.partial)
    BY <1>2, <1>4, <1>15 DEF Kept
  <2> DEFINE x == r.h
  <2>4. CASE r = Throw(Tear(ll))
    <3>1. r.h = Tear(ll) /\ r.done = FALSE /\ r.thrown = TRUE
      BY <2>4 DEF Throw
    <3>2. /\ x \in FragmentHead /\ x.items = ll.items /\ x.gap = ll.gap /\ x.torn /\ x.seq = ll.seq /\ x.ref = ll.ref
          /\ x.freed = ll.freed /\ x.error = ll.error /\ x.partial = ll.partial /\ x.frame = ll.frame
          /\ x.reasIn = ll.reasIn /\ x.defrag = ll.defrag
      BY <1>10, <3>1 DEF Tear, FragmentHead
    <3>3. x.gap \in 0..Len(x.items) /\ FramesIn(x) = FramesIn(ll)
      BY <1>10, <3>2 DEF ListOK, GapExact, FramesIn
    <3>4. r.h = x
      OBVIOUS
    <3> HIDE DEF x
    <3> QED
      BY <2>2, <2>3, <3>1, <3>2, <3>3, <3>4, <1>2, <1>11 DEF Worked
  <2>5. CASE r # Throw(Tear(ll))
    <3>1. r = Whole(x) /\ x \in FragmentHead /\ ListOK(x) /\ x = SeqRemade(ll, x, c.num) /\ FramesIn(x) = FramesIn(ll)
      BY <2>1, <2>5
    <3>2. r.done = TRUE /\ r.thrown = FALSE /\ r.h = x
      BY <3>1 DEF Whole
    <3> HIDE DEF x
    <3>3. /\ x.seq = ll.seq /\ x.ref = ll.ref /\ x.freed = ll.freed /\ x.error = ll.error /\ x.partial = ll.partial
          /\ x.frame = ll.frame /\ x.reasIn = c.num /\ x.defrag /\ x.torn = ll.torn
      BY <3>1, <1>10 DEF SeqRemade, FragmentHead
    <3>4. x.gap \in 0..Len(x.items)
      BY <3>1 DEF ListOK, GapExact
    <3> QED
      BY <2>2, <2>3, <3>1, <3>2, <3>3, <3>4, <1>2, <1>11 DEF Worked
  <2> QED
    BY <2>4, <2>5
<1> QED
  BY <1>1, <1>13, <1>14, <1>15

(* Of fragments that have their data a reassembly is completed.            *)
LEMMA BackedIs ==
    ASSUME NEW h
    PROVE  Backed(h) <=> \A f \in Elems(h) : f.len <= Len(f.data)
  BY DEF Backed, Elems

LEMMA SeqAssembleBacked ==
    ASSUME NEW h \in FragmentHead, Backed(h), NEW in, NEW r, r = SeqAssemble(h, in)
    PROVE  r = Whole(r.h)
<1> DEFINE n == DOMAIN h.items
           compared == {i \in n : Repeats(h.items, i) /\ h.items[i].len = h.items[i - 1].len}
           read   == {i \in n : ~Repeats(h.items, i)} \cup compared \cup {i - 1 : i \in compared}
<1>1. n = 1..Len(h.items) /\ Len(h.items) \in Nat /\ \A i \in n : h.items[i] \in Item
  BY LenProperties DEF FragmentHead
<1>2. read \subseteq n
  <2>1. \A i \in compared : i \in n /\ i > 1
    BY DEF Repeats
  <2>2. \A i \in compared : i - 1 \in n
    BY <1>1, <2>1
  <2> QED
    BY <2>2
<1>3. \A i \in n : ~ (h.items[i].len > Len(h.items[i].data))
  <2>1. \A i \in n : h.items[i].len <= Len(h.items[i].data)
    BY DEF Backed
  <2>2. \A i \in n : h.items[i].len \in Nat /\ Len(h.items[i].data) \in Nat
    BY <1>1, ItemIs
  <2> HIDE DEF n
  <2> QED
    BY <2>1, <2>2
<1>4. ~ \E i \in read : h.items[i].len > Len(h.items[i].data)
  BY <1>2, <1>3
<1>5. \E g : r = Whole(g)
  <2>1. \E g : r = IF \E i \in read : h.items[i].len > Len(h.items[i].data) THEN Throw(Tear(h)) ELSE Whole(g)
    BY Zenon DEF SeqAssemble
  <2> QED
    BY <1>4, <2>1
<1> QED
  BY <1>5 DEF Whole

LEMMA SeqBacked ==
    ASSUME NEW h \in FragmentHead, ListOK(h), ~h.torn, ~h.defrag, Backed(h), NEW c \in CallOf, NEW number \in Nat,
           NEW r, r = SeqWork(h, c, number)
    PROVE  ~r.done => ~r.h.defrag /\ ~r.h.torn /\ Backed(r.h)
<1> DEFINE f == [frame |-> c.num, off |-> number, len |-> c.len, data |-> NoData, flags |-> {}]
           t == WithTail(Noted(h, c.num), c, f, number)
           k == t.h
           g == [t.f EXCEPT !.data = IF c.len = 0 THEN NoData ELSE Bytes(c, number)]
           n == FirstMissing(LinkFrag(t.h, g).items)
           long == IF n > t.h.datalen + 1 THEN {"toolong"} ELSE {}
           l == LinkFrag(k, g)
           kl == Flag(k, long)
           gl == Flag(g, long)
           ll == LinkFrag(kl, gl)
<1>0. /\ c.num \in Nat /\ c.len \in Length /\ c.len \in Nat /\ c.tail \in BOOLEAN
  BY ModulusAssumption DEF CallOf, Length
<1>1. f \in Item /\ f.frame = c.num
  <2>1. {} \in SUBSET ItemFlags /\ NoData \in Data
    BY NoDataType
  <2> QED
    BY <1>0, <2>1 DEF Item
<1>2. f.len = c.len
  OBVIOUS
<1> HIDE DEF f
<1>3. /\ k \in FragmentHead /\ ListOK(k) /\ Kept(h, k) /\ t.f \in Item
  <2> HIDE DEF t
  <2>1. t = WithTail(Noted(h, c.num), c, f, number)
    BY DEF t
  <2>2. t.h \in FragmentHead /\ ListOK(t.h) /\ Kept(h, t.h) /\ t.h.frame = Larger(h.frame, c.num)
        /\ FramesIn(t.h) = FramesIn(h)
        /\ t.f \in Item /\ t.f.frame = f.frame
    BY ONLY <1>0, <1>1, <2>1, SeqTailedIs, number \in Nat, h \in FragmentHead, ListOK(h)
  <2> QED
    BY <2>2
<1>4. ~k.defrag /\ ~k.torn
  BY <1>3 DEF Kept
<1>5. k.items = h.items /\ t.f.len = c.len
  <2>1. Noted(h, c.num).items = h.items
    BY DEF Noted, FragmentHead
  <2>2. Noted(h, c.num) \in FragmentHead
    BY <1>0 DEF Noted, FragmentHead, Larger
  <2> DEFINE x == Noted(h, c.num)
  <2> HIDE DEF x
  <2>3. t = WithTail(x, c, f, number)
    BY DEF x
  <2>4. x \in FragmentHead /\ x.items = h.items
    BY <2>1, <2>2 DEF x
  <2>5. \/ t = [h |-> x, f |-> f]
        \/ t = [h |-> [x EXCEPT !.set = TRUE, !.datalen = number], f |-> f]
        \/ t = [h |-> Flag(x, {"tails"}), f |-> Flag(f, {"tails"})]
    BY <2>3 DEF WithTail
  <2>6. [x EXCEPT !.set = TRUE, !.datalen = number].items = x.items /\ Flag(x, {"tails"}).items = x.items
    BY <2>4 DEF FragmentHead, Flag
  <2>7. Flag(f, {"tails"}).len = f.len
    BY <1>1 DEF Item, Flag
  <2> HIDE DEF t
  <2>8. ASSUME NEW a, NEW b, t = [h |-> a, f |-> b] PROVE t.h = a /\ t.f = b
    BY <2>8
  <2> QED
    BY <2>4, <2>5, <2>6, <2>7, <2>8, <1>2
<1>6. g \in Item /\ g.len <= Len(g.data)
  <2> DEFINE b == IF c.len = 0 THEN NoData ELSE Bytes(c, number)
  <2>1. b \in Data /\ c.len <= Len(b)
    BY <1>0, NoDataType, BytesType
  <2> HIDE DEF t, b
  <2>2. g = [t.f EXCEPT !.data = b]
    BY DEF b
  <2> HIDE DEF g
  <2>3. g \in Item /\ g.len = t.f.len /\ g.data = b
    BY <1>3, <2>1, <2>2 DEF Item
  <2> QED
    BY <2>1, <2>3, <1>5
<1>7. Elems(k) = Elems(h)
  BY <1>5 DEF Elems
<1>8. long \in SUBSET ItemFlags
  <2> HIDE DEF n, t
  <2> QED
    BY DEF ItemFlags
<1>9. \/ r = Going(k)
      \/ r = Going(l)
      \/ r = SeqAssemble(ll, c.num)
  BY <1>4 DEF SeqWork, f
<1> HIDE DEF t, k, g, n, long
<1>10. CASE r = Going(k)
  <2>1. r.h = k
    BY <1>10 DEF Going
  <2> QED
    BY <2>1, <1>4, <1>7, BackedIs
<1>11. CASE r = Going(l)
  <2> HIDE DEF l
  <2>0. l = LinkFrag(k, g)
    BY DEF l
  <2>1. r.h = l
    BY <1>11 DEF Going
  <2>2. l \in FragmentHead /\ Kept(k, l)
    BY <2>0, <1>3, <1>6, RelistedIs
  <2>3. Elems(l) = Elems(k) \cup {g}
    BY <2>0, <1>3, <1>6, LinkFragIs
  <2>4. Backed(l)
    BY <2>3, <1>6, <1>7, BackedIs
  <2> QED
    BY <2>1, <2>2, <2>4, <1>4 DEF Kept
<1>12. CASE r = SeqAssemble(ll, c.num)
  <2> HIDE DEF l
  <2>1. kl \in FragmentHead /\ ListOK(kl) /\ kl.items = k.items
    BY <1>3, <1>8, FlagIs
  <2>2. gl \in Item /\ gl.len = g.len /\ gl.data = g.data
    BY <1>6, <1>8 DEF Item, Flag
  <2>3. Elems(kl) = Elems(k)
    BY <2>1 DEF Elems
  <2> HIDE DEF kl, gl
  <2>4. ll = LinkFrag(kl, gl)
    OBVIOUS
  <2> HIDE DEF ll
  <2>5. ll \in FragmentHead /\ Elems(ll) = Elems(kl) \cup {gl}
    BY <2>1, <2>2, <2>4, LinkFragIs
  <2>6. gl.len <= Len(gl.data)
    BY <2>2, <1>6
  <2>7. Backed(ll)
    BY <2>3, <2>5, <2>6, <1>7, BackedIs
  <2>8. r = Whole(r.h)
    BY <1>12, <2>5, <2>7, SeqAssembleBacked
  <2>9. r.done = TRUE
    BY <2>8 DEF Whole
  <2> QED
    BY <2>9
<1> QED
  BY <1>9, <1>10, <1>11, <1>12
--------------------------------------------------------------------------------
(* fragment_truncate.                                                       *)

LEMMA ItemsRemovedIs ==
    ASSUME NEW l \in FragmentHead, Sorted(l), NEW m
    PROVE  LET u == ItemsRemoved(l, m) IN
           /\ u \in FragmentHead /\ u.items = l.items
           /\ u = Regapped(l, u)
           /\ u # l => ListOK(u)
<1> DEFINE u == ItemsRemoved(l, m)
           v == ResetFirstGap(l)
<1>1. v = Regapped(l, v)
  <2> DEFINE r == [l EXCEPT !.gap = 0, !.contig = 0]
             w == UpdateFirstGap(r, 1, Len(l.items) > 1)
  <2>1. r \in FragmentHead /\ r = Regapped(l, r)
    BY DEF FragmentHead, Regapped
  <2>2. v = r \/ v = w
    BY DEF ResetFirstGap
  <2> HIDE DEF r, v
  <2>3. w = Regapped(r, w)
    <3> DEFINE multi == Len(l.items) > 1
    <3> HIDE DEF multi, w
    <3>1. w = UpdateFirstGap(r, 1, multi)
      BY DEF w, multi
    <3> QED
      BY <2>1, <3>1, UpdateFirstGapIs
  <2> HIDE DEF w
  <2>4. Regapped(Regapped(l, r), w) = Regapped(l, w)
    BY DEF Regapped, FragmentHead
  <2>5. w = Regapped(l, w)
    BY <2>1, <2>3, <2>4
  <2> QED
    BY <2>1, <2>2, <2>5
<1>2. List(v, Item) /\ v.items = l.items /\ Sorted(v) /\ GapExact(v)
  BY HeadIsList, ItemsAreFragments, ResetFirstGapExact
<1> HIDE DEF v
<1>3. v \in FragmentHead /\ ListOK(v)
  <2>1. v.gap \in Nat /\ v.contig \in Nat
    BY <1>2 DEF GapExact
  <2> QED
    BY <1>1, <1>2, <2>1 DEF FragmentHead, ListOK, Regapped
<1>4. l = Regapped(l, l)
  BY DEF FragmentHead, Regapped
<1>5. u = l \/ u = v
  BY DEF ItemsRemoved, v
<1> HIDE DEF u
<1>6. /\ u \in FragmentHead /\ u.items = l.items
      /\ u = Regapped(l, u)
      /\ u # l => ListOK(u)
  <2>1. CASE u = l
    BY <1>4, <2>1
  <2>2. CASE u = v
    BY <1>1, <1>2, <1>3, <2>2
  <2> QED
    BY <1>5, <2>1, <2>2
<1> QED
  BY <1>6 DEF u

LEMMA CutIs ==
    ASSUME NEW f \in Item, NEW n \in Nat, f.off < n, NEW e, e = Cut(f, n)
    PROVE  /\ e \in Item /\ e.off = f.off /\ e.frame = f.frame /\ e.data = NoData
           /\ e.flags = f.flags \ {"toolong", "tails"}
           /\ End(e) = (IF End(f) > n THEN n ELSE End(f))
           /\ (End(f) > n => e.len = n - f.off) /\ (~ (End(f) > n) => e.len = f.len)
           /\ (Wraps(e) <=> Wraps(f))
<1> DEFINE m == IF End(f) > n THEN n - f.off ELSE f.len
<1>1. Fragment(f) /\ f.off \in Nat /\ f.len \in 0..(Modulus - 1) /\ Modulus \in Nat \ {0}
  BY ItemsAreFragments, ModulusAssumption DEF Item, Length
<1>2. End(f) \in 0..(Modulus - 1) /\ (~Wraps(f) => End(f) = f.off + f.len)
  BY <1>1, EndIs
<1>3. m \in 0..(Modulus - 1)
  <2>1. CASE End(f) > n
    <3>1. ~Wraps(f)
      BY <2>1, <1>1, <1>2 DEF Wraps
    <3> QED
      BY <2>1, <3>1, <1>1, <1>2
  <2>2. CASE ~ (End(f) > n)
    BY <2>2, <1>1
  <2> QED
    BY <2>1, <2>2
<1> HIDE DEF m
<1>4. /\ e \in Item /\ e.off = f.off /\ e.frame = f.frame /\ e.data = NoData /\ e.len = m
      /\ e.flags = f.flags \ {"toolong", "tails"}
  <2>1. e = [f EXCEPT !.flags = @ \ {"toolong", "tails"}, !.data = NoData, !.len = m]
    BY DEF Cut, m
  <2> QED
    BY <2>1, <1>3, NoDataType DEF Item, Length
<1>5. End(e) = IF End(f) > n THEN n ELSE End(f)
  <2>1. End(e) = (e.off + e.len) % Modulus /\ End(f) = (f.off + f.len) % Modulus
    BY DEF End, Plus
  <2>2. CASE End(f) > n
    <3>1. e.off + e.len = n /\ n < Modulus
      BY <1>1, <1>2, <1>4, <2>2 DEF m
    <3>2. n % Modulus = n
      BY <3>1, <1>1, Z3
    <3> QED
      BY <2>1, <2>2, <3>1, <3>2
  <2>3. CASE ~ (End(f) > n)
    BY <1>4, <2>1, <2>3 DEF m
  <2> QED
    BY <2>2, <2>3
<1>6. Wraps(e) <=> Wraps(f)
  BY <1>1, <1>2, <1>4, <1>5 DEF Wraps
<1> QED
  BY <1>4, <1>5, <1>6 DEF m

(* The items before an offset are the first of a sorted list.              *)
LEMMA BeforeIs ==
    ASSUME NEW h \in FragmentHead, Sorted(h), NEW n \in Nat,
           NEW last, last = Cardinality({i \in DOMAIN h.items : h.items[i].off < n})
    PROVE  /\ last \in 0..Len(h.items)
           /\ \A i \in 1..Len(h.items) : i <= last <=> h.items[i].off < n
<1> DEFINE S == {i \in DOMAIN h.items : h.items[i].off < n}
           N == Len(h.items)
<1>1. N \in Nat /\ DOMAIN h.items = 1..N /\ \A i \in 1..N : h.items[i] \in Item /\ h.items[i].off \in Nat
  BY LenProperties, ItemIs DEF FragmentHead
<1>2. CASE S = {}
  <2>1. last = 0
    BY <1>2, FS_EmptySet
  <2>2. \A i \in 1..N : ~ (i <= last) /\ ~ (h.items[i].off < n)
    BY <1>1, <1>2, <2>1
  <2> HIDE DEF S
  <2> QED
    BY <1>1, <2>1, <2>2
<1>3. CASE S # {}
  <2>1. S \in SUBSET Nat /\ \A x \in S : x <= N
    BY <1>1
  <2> HIDE DEF S
  <2>2. PICK m \in S : \A x \in S : x <= m
    BY <1>1, <1>3, <2>1, GreatestOf
  <2>3. m \in 1..N /\ h.items[m].off < n
    BY <1>1, <2>2 DEF S
  <2>4. S = 1..m
    <3>1. ASSUME NEW i \in 1..m PROVE i \in S
      <4>1. i \in 1..N /\ i <= m
        BY <2>3
      <4>2. h.items[i].off <= h.items[m].off
        BY <1>1, <2>3, <4>1 DEF Sorted
      <4>3. h.items[i].off < n
        BY <1>1, <2>3, <4>1, <4>2
      <4> QED
        BY <1>1, <4>1, <4>3 DEF S
    <3>2. ASSUME NEW i \in S PROVE i \in 1..m
      <4>1. i \in 1..N
        BY <1>1 DEF S
      <4> QED
        BY <2>2, <4>1
    <3> QED
      BY <3>1, <3>2
  <2>5. Cardinality(1..m) = m
    <3>1. m \in Nat /\ m >= 1
      BY <2>3
    <3> QED
      BY <3>1, FS_Interval
  <2>6. last = m
    BY <2>4, <2>5 DEF S
  <2>7. \A i \in 1..N : i \in S <=> h.items[i].off < n
    BY <1>1 DEF S
  <2>8. \A i \in 1..N : i \in 1..m <=> i <= last
    BY <1>1, <2>3, <2>6
  <2>9. \A i \in 1..N : i <= last <=> h.items[i].off < n
    BY <2>4, <2>7, <2>8
  <2> QED
    BY <1>1, <2>3, <2>6, <2>9
<1> QED
  BY <1>2, <1>3

(* fragment_truncate keeps the list and its cache, wherever it cuts.       *)
CutTo(h, g, n) ==
    [h EXCEPT !.items = g.items, !.gap = g.gap, !.contig = g.contig, !.flags = g.flags, !.data = SubSeq(@, 1, n),
              !.datalen = n, !.partial = FALSE]

LEMMA TruncatedIs ==
    ASSUME NEW h \in FragmentHead, ListOK(h), NEW n \in Nat, n <= Len(h.data), NEW g, g = Truncated(h, n)
    PROVE  /\ g \in FragmentHead /\ ListOK(g) /\ g = CutTo(h, g, n)
           /\ Len(g.items) \in 0..Len(h.items)
           /\ \A i \in 1..Len(h.items) : i <= Len(g.items) <=> h.items[i].off < n
           /\ \A i \in 1..Len(g.items) : g.items[i] = Cut(h.items[i], n)
           /\ g.flags = UNION {g.items[i].flags : i \in 1..Len(g.items)}
<1> DEFINE last  == Cardinality({i \in DOMAIN h.items : h.items[i].off < n})
           items == [i \in 1..last |-> Cut(h.items[i], n)]
           flags == UNION {items[i].flags : i \in 1..last}
           contig == IF h.contig < n THEN h.contig ELSE n
           l     == [h EXCEPT !.partial = FALSE, !.data = SubSeq(@, 1, n), !.datalen = n, !.items = items,
                              !.flags = flags, !.contig = IF @ < n THEN @ ELSE n]
           N     == Len(h.items)
<1>1. N \in Nat /\ DOMAIN h.items = 1..N /\ \A i \in 1..N : h.items[i] \in Item /\ h.items[i].off \in Nat
  BY LenProperties, ItemIs DEF FragmentHead
<1>2. last \in 0..N /\ \A i \in 1..N : i <= last <=> h.items[i].off < n
  BY BeforeIs DEF ListOK
<1>3. g = ItemsRemoved(l, last)
  BY DEF Truncated
<1>4. contig \in Nat /\ h.contig \in Nat
  BY DEF FragmentHead
<1> HIDE DEF last, contig
<1>5. \A i \in 1..last : i \in 1..N /\ h.items[i] \in Item /\ h.items[i].off < n
  BY <1>1, <1>2
<1>6. \A i \in 1..last : /\ items[i] = Cut(h.items[i], n) /\ items[i] \in Item
                         /\ items[i].off = h.items[i].off /\ items[i].off \in Nat
                         /\ End(items[i]) = (IF End(h.items[i]) > n THEN n ELSE End(h.items[i]))
  <2> TAKE i \in 1..last
  <2>1. items[i] = Cut(h.items[i], n)
    OBVIOUS
  <2> HIDE DEF items
  <2>2. /\ items[i] \in Item /\ items[i].off = h.items[i].off
        /\ End(items[i]) = (IF End(h.items[i]) > n THEN n ELSE End(h.items[i]))
    BY <1>5, <2>1, CutIs
  <2> QED
    BY <2>1, <2>2, ItemIs
<1>7. items \in Seq(Item) /\ Len(items) = last
  <2>1. items \in [1..last -> Item] /\ last \in Nat
    BY <1>2, <1>6
  <2> HIDE DEF items
  <2> QED
    BY <2>1, FunctionIsSeq
<1> HIDE DEF items
<1>8. flags \in SUBSET ItemFlags
  BY <1>6 DEF Item
<1>9. SubSeq(h.data, 1, n) \in Data
  <2>1. h.data \in Seq(Byte) /\ Len(h.data) \in Nat /\ \A i \in 1..Len(h.data) : h.data[i] \in Byte
    BY DEF FragmentHead, Data
  <2>2. \A i \in 1..n : h.data[i] \in Byte
    BY <2>1
  <2> QED
    BY <2>1, <2>2, SubSeqProperties DEF Data
<1>10. l = [h EXCEPT !.partial = FALSE, !.data = SubSeq(@, 1, n), !.datalen = n, !.items = items, !.flags = flags,
                     !.contig = contig]
  BY DEF contig
<1> HIDE DEF flags, l
<1>11. /\ l \in FragmentHead /\ l.items = items /\ l.gap = h.gap /\ l.contig = contig /\ l.flags = flags
  BY <1>4, <1>7, <1>8, <1>9, <1>10 DEF FragmentHead
<1>12. DOMAIN l.items = 1..last
  BY <1>7, <1>11, LenProperties
<1>13. Sorted(l)
  <2>1. Sorted(h)
    BY DEF ListOK
  <2> QED
    BY <2>1, <1>1, <1>5, <1>6, <1>11, <1>12 DEF Sorted
<1>14. /\ g \in FragmentHead /\ g.items = items /\ g = Regapped(l, g) /\ (g # l => ListOK(g))
  BY <1>3, <1>11, <1>13, ItemsRemovedIs
<1>15. ListOK(g)
  <2> SUFFICES ASSUME g = l PROVE GapExact(l)
    BY <1>13, <1>14 DEF ListOK
  <2>1. GapExact(h) /\ Sorted(h)
    BY DEF ListOK
  <2>2. \A i \in 1..N : End(h.items[i]) \in Nat
    BY <1>1, ItemsAreFragments, EndIs
  <2>3. CASE h.gap = last
    <3>1. last \in Nat /\ (last = 0 => contig = 0)
      BY <1>2, <2>1, <2>3 DEF GapExact, contig
    <3>2. \A i \in 1..last : items[i].off <= contig /\ End(items[i]) <= contig
      <4> TAKE i \in 1..last
      <4>1. h.items[i].off <= h.contig /\ End(h.items[i]) <= h.contig
        BY <2>1, <2>3 DEF GapExact
      <4>2. h.items[i].off < n /\ h.items[i].off \in Nat /\ End(h.items[i]) \in Nat
        BY <1>1, <1>5, <2>2
      <4> QED
        BY <4>1, <4>2, <1>4, <1>6 DEF contig
    <3>3. \A p \in 0..(contig - 1) : \E i \in 1..last : Covers(items[i], p)
      <4> TAKE p \in 0..(contig - 1)
      <4>1. p \in 0..(h.contig - 1) /\ p < n
        BY <1>4 DEF contig
      <4>2. PICK i \in 1..last : Covers(h.items[i], p)
        BY <2>1, <2>3, <4>1 DEF GapExact
      <4>3. Covers(items[i], p)
        BY <1>6, <4>1, <4>2 DEF Covers
      <4> QED
        BY <4>3
    <3>4. items # <<>> => last # 0
      BY <1>7, EmptySeq
    <3> QED
      BY <1>4, <1>7, <1>11, <2>3, <3>1, <3>2, <3>3, <3>4 DEF GapExact
  <2>4. CASE h.gap # last /\ ~ (last # 0 /\ items[last].off > contig)
    \* It was computed again, and is the same.
    <3>1. g = ResetFirstGap(l)
      BY <1>3, <1>11, <2>4 DEF ItemsRemoved
    <3>2. GapExact(ResetFirstGap(l))
      BY <1>11, <1>13, HeadIsList, ItemsAreFragments, ResetFirstGapExact
    <3> QED
      BY <3>1, <3>2
  <2>5. CASE h.gap # last /\ last # 0 /\ items[last].off > contig
    <3>1. last \in 1..N /\ items[last].off = h.items[last].off /\ h.items[last].off < n
      BY <1>2, <1>5, <1>6, <2>5
    <3>2. contig = h.contig /\ h.contig < h.items[last].off /\ h.contig < n
      BY <1>1, <1>4, <2>5, <3>1 DEF contig
    <3>3. h.gap < last
      <4>1. h.gap \in 0..N /\ \A i \in 1..h.gap : h.items[i].off <= h.contig
        BY <2>1 DEF GapExact
      <4>2. ~ (last \in 1..h.gap)
        BY <1>1, <1>4, <3>1, <3>2, <4>1
      <4> QED
        BY <1>1, <3>1, <4>1, <4>2
    <3>4. h.gap \in 0..last /\ (\A i \in 1..h.gap : i \in 1..last) /\ \A i \in (h.gap + 1)..last : i \in (h.gap + 1)..N
      BY <2>1, <3>1, <3>3, <1>1 DEF GapExact
    <3>5. \A i \in 1..h.gap : items[i].off <= contig /\ End(items[i]) <= contig /\ End(items[i]) = End(h.items[i])
      <4> TAKE i \in 1..h.gap
      <4>1. h.items[i].off <= h.contig /\ End(h.items[i]) <= h.contig /\ i \in 1..last
        BY <2>1, <3>4 DEF GapExact
      <4>2. i \in 1..N /\ End(h.items[i]) \in Nat
        BY <1>5, <2>2, <4>1
      <4>3. ~ (End(h.items[i]) > n)
        BY <1>4, <3>2, <4>1, <4>2
      <4> QED
        BY <1>6, <3>2, <4>1, <4>3
    <3>6. \A i \in (h.gap + 1)..last : items[i].off > contig
      <4> TAKE i \in (h.gap + 1)..last
      <4>1. h.items[i].off > h.contig /\ i \in 1..last
        BY <2>1, <3>4 DEF GapExact
      <4> QED
        BY <4>1, <1>6, <3>2
    <3>7. \A p \in 0..(contig - 1) : \E i \in 1..h.gap : Covers(items[i], p)
      <4> TAKE p \in 0..(contig - 1)
      <4>1. PICK i \in 1..h.gap : Covers(h.items[i], p)
        BY <2>1, <3>2 DEF GapExact
      <4>2. i \in 1..last
        BY <3>4
      <4>3. Covers(items[i], p)
        BY <1>6, <3>5, <4>1, <4>2 DEF Covers
      <4> QED
        BY <4>3
    <3>8. h.gap = 0 => contig = 0 /\ items[1].off # 0
      <4> SUFFICES ASSUME h.gap = 0 PROVE contig = 0 /\ items[1].off # 0
        OBVIOUS
      <4>1. h.contig = 0 /\ 1 \in 1..last
        BY <2>1, <3>1 DEF GapExact
      <4>2. items[1].off > contig
        BY <3>6, <4>1
      <4> QED
        BY <3>2, <4>1, <4>2
    <3> QED
      BY <1>4, <1>7, <1>11, <3>4, <3>5, <3>6, <3>7, <3>8 DEF GapExact
  <2> QED
    BY <2>3, <2>4, <2>5
<1>16. g.flags = flags
  <2>1. g.flags = l.flags
    BY <1>11, <1>14 DEF Regapped, FragmentHead
  <2> QED
    BY <1>11, <2>1
<1>17. g = CutTo(h, g, n)
  BY <1>10, <1>14, <1>16 DEF Regapped, CutTo, FragmentHead
<1>18. /\ Len(g.items) = last /\ g.items = items
  BY <1>7, <1>14
<1>19. g.flags = UNION {g.items[i].flags : i \in 1..Len(g.items)}
  BY <1>16, <1>18 DEF flags
<1>20. \A i \in 1..Len(g.items) : g.items[i] = Cut(h.items[i], n)
  BY <1>6, <1>18
<1> QED
  BY <1>2, <1>14, <1>15, <1>17, <1>18, <1>19, <1>20
--------------------------------------------------------------------------------
(* fragment_add_work: the head it starts from, and what it is made of.     *)
Begun(h, c, g) ==
    /\ g \in FragmentHead /\ ListOK(g) /\ ~g.torn
    /\ g = h \/ (h.partial /\ h.defrag /\ g = ResetDefragmentation(h) /\ g # Tear(h))

OverlapOf(h, c, r) ==
    \E fs \in SUBSET {"tails"} :
        LET k == TailOf(h, c, fs)
            m == Flag(NewItem(c), fs)
        IN  k \in FragmentHead /\ ListOK(k) /\ m \in Item /\ r = AddOverlap(k, m, Bytes(c, c.off))

ListOf(g, c, r) ==
    \E fs \in SUBSET {"tails"} :
        LET k == TailOf(g, c, fs)
            e == WithData(Flag(NewItem(c), fs), Bytes(c, c.off))
            l == LinkFrag(k, e)
        IN  /\ k \in FragmentHead /\ ListOK(k) /\ e \in Item
            /\ l \in FragmentHead /\ ListOK(l) /\ l = Relisted(k, l) /\ Elems(l) = Elems(k) \cup {e}
            /\ \/ r = Going(l)
               \/ l.set /\ l.contig >= l.datalen /\ r = Assemble(l, c.num)

LEMMA AddCases ==
    ASSUME NEW h \in FragmentHead, ListOK(h), ~h.torn, NEW c \in CallOf, NEW allow \in BOOLEAN,
           NEW r, r = AddWork(h, c, allow)
    PROVE  \/ h.defrag /\ r = Throw(h)
           \/ r = Throw(Tear(h))
           \/ h.defrag /\ (~Beyond(h, c) \/ allow) /\ OverlapOf(h, c, r)
           \/ \E g : Begun(h, c, g) /\ ~g.defrag /\ ListOf(g, c, r)
<1> DEFINE g == Ready(h, c)
           t == Tailed(g, c)
           b == Bytes(c, c.off)
<1>1. \/ h.defrag /\ Beyond(h, c) /\ ~h.partial /\ ~allow /\ r = Throw(h)
      \/ h.partial /\ r = Throw(Tear(h))
      \/ /\ g \in FragmentHead /\ ListOK(g) /\ ~g.torn
         /\ g.defrag => g = h /\ (~Beyond(h, c) \/ allow)
         /\ g = h \/ (h.partial /\ h.defrag /\ g = ResetDefragmentation(h) /\ g # Tear(h))
         /\ \/ g.defrag /\ r = AddOverlap(t.h, t.f, b)
            \/ ~g.defrag /\ r = AddToList(t.h, t.f, b, c.num)
  <2> DEFINE q == AddWork(h, c, allow)
  <2>1. \/ h.defrag /\ Beyond(h, c) /\ ~h.partial /\ ~allow /\ q = Throw(h)
        \/ h.partial /\ q = Throw(Tear(h))
        \/ /\ g \in FragmentHead /\ ListOK(g) /\ ~g.torn
           /\ g.defrag => g = h /\ (~Beyond(h, c) \/ allow)
           /\ g = h \/ (h.partial /\ h.defrag /\ g = ResetDefragmentation(h) /\ g # Tear(h))
           /\ \/ g.defrag /\ q = AddOverlap(t.h, t.f, b)
              \/ ~g.defrag /\ q = AddToList(t.h, t.f, b, c.num)
    BY AddWorkIs, Zenon
  <2> HIDE DEF g, t, b
  <2>2. q = r
    OBVIOUS
  <2> HIDE DEF q
  <2> QED
    BY <2>1, <2>2
<1> HIDE DEF g
<1>2. CASE /\ g \in FragmentHead /\ ListOK(g) /\ ~g.torn
           /\ g.defrag => g = h /\ (~Beyond(h, c) \/ allow)
           /\ g = h \/ (h.partial /\ h.defrag /\ g = ResetDefragmentation(h) /\ g # Tear(h))
           /\ \/ g.defrag /\ r = AddOverlap(t.h, t.f, b)
              \/ ~g.defrag /\ r = AddToList(t.h, t.f, b, c.num)
  <2>1. PICK fs \in SUBSET {"tails"} : t.f = Flag(NewItem(c), fs) /\ t.h = TailOf(g, c, fs)
    BY <1>2, TailedIs
  <2>2. NewItem(c) \in Item /\ t.h \in FragmentHead /\ ListOK(t.h)
    BY <1>2, TailedIs
  <2> DEFINE k == TailOf(g, c, fs)
             m == Flag(NewItem(c), fs)
             e == WithData(m, b)
             l == LinkFrag(k, e)
  <2>3. t.h = k /\ t.f = m /\ k \in FragmentHead /\ ListOK(k)
    BY <2>1, <2>2
  <2> HIDE DEF t
  <2>4. m \in Item
    <3>1. {"tails"} \subseteq ItemFlags
      BY DEF ItemFlags
    <3> QED
      BY <2>2, <3>1 DEF Flag, Item
  <2>5. c.off \in Nat
    BY DEF CallOf
  <2>6. CASE g.defrag /\ r = AddOverlap(k, m, b)
    <3>1. g = h /\ (~Beyond(h, c) \/ allow)
      BY <1>2, <2>6
    <3> QED
      BY <2>3, <2>4, <2>6, <3>1 DEF OverlapOf
  <2>7. CASE ~g.defrag /\ r = AddToList(k, m, b, c.num)
    <3>1. b \in Data
      BY <2>5, BytesType
    <3>2. e \in Item
      BY <2>4, <3>1 DEF WithData, Item
    <3>3. r = Going(l) \/ (l.set /\ l.contig >= l.datalen /\ r = Assemble(l, c.num))
      BY <2>7 DEF AddToList, WithData
    <3>4. /\ l \in FragmentHead /\ ListOK(l) /\ l = Relisted(k, l) /\ Elems(l) = Elems(k) \cup {e}
      <4> HIDE DEF k, e
      <4> QED
        BY <2>3, <3>2, LinkFragIs
    <3>5. ListOf(g, c, r)
      BY <2>3, <3>2, <3>3, <3>4 DEF ListOf
    <3>6. Begun(h, c, g)
      BY <1>2 DEF Begun
    <3> QED
      BY <2>7, <3>5, <3>6
  <2> QED
    BY <1>2, <2>3, <2>6, <2>7
<1> QED
  BY <1>1, <1>2

(* The length of the data is that of the reassembly.                       *)
LEMMA AddSized ==
    ASSUME NEW h \in FragmentHead, ListOK(h), ~h.torn, Sized(h), NEW c \in CallOf, NEW allow \in BOOLEAN,
           NEW r, r = AddWork(h, c, allow)
    PROVE  Sized(r.h)
<1>1. CASE r = Throw(h) \/ r = Throw(Tear(h))
  <2>1. Tear(h).torn
    BY DEF Tear, FragmentHead
  <2> QED
    BY <1>1, <2>1 DEF Throw, Sized
<1>2. CASE h.defrag /\ OverlapOf(h, c, r)
  <2>1. PICK fs \in SUBSET {"tails"} :
           LET k == TailOf(h, c, fs)
               m == Flag(NewItem(c), fs)
           IN  k \in FragmentHead /\ ListOK(k) /\ m \in Item /\ r = AddOverlap(k, m, Bytes(c, c.off))
    BY <1>2 DEF OverlapOf
  <2> DEFINE k == TailOf(h, c, fs)
             m == Flag(NewItem(c), fs)
             b == Bytes(c, c.off)
             ms == Marked(k, m, b)
             e == Flag(m, ms)
  <2>2. k \in FragmentHead /\ ListOK(k) /\ m \in Item /\ r = AddOverlap(k, m, b)
    BY <2>1
  <2>3. h.set /\ (Len(h.data) = h.datalen \/ h.datalen = 0)
    BY <1>2 DEF Sized
  <2>4. k.data = h.data /\ k.datalen = h.datalen /\ k.set
    BY <2>3 DEF TailOf, FragmentHead
  <2> HIDE DEF k, m, b
  <2>5. r.h = Relisted(Flag(k, ms), r.h)
    <3>1. e = Flag(m, ms) /\ ms = Marked(k, m, b)
      OBVIOUS
    <3> HIDE DEF e, ms
    <3> QED
      BY <2>2, <3>1, AddOverlapIs
  <2> HIDE DEF ms
  <2> DEFINE x == r.h
  <2>6. x = Relisted(Flag(k, ms), x)
    BY <2>5
  <2> HIDE DEF x
  <2>7. x.data = k.data /\ x.datalen = k.datalen /\ x.set = k.set
    BY <2>2, <2>6 DEF Relisted, Flag, FragmentHead
  <2> QED
    BY <2>3, <2>4, <2>7 DEF Sized, x
<1>3. CASE \E g : Begun(h, c, g) /\ ~g.defrag /\ ListOf(g, c, r)
  <2>1. PICK g : Begun(h, c, g) /\ ~g.defrag /\ ListOf(g, c, r)
    BY <1>3
  <2>2. PICK fs \in SUBSET {"tails"} :
           LET k == TailOf(g, c, fs)
               e == WithData(Flag(NewItem(c), fs), Bytes(c, c.off))
               l == LinkFrag(k, e)
           IN  /\ k \in FragmentHead /\ ListOK(k) /\ e \in Item
               /\ l \in FragmentHead /\ ListOK(l) /\ l = Relisted(k, l) /\ Elems(l) = Elems(k) \cup {e}
               /\ \/ r = Going(l)
                  \/ l.set /\ l.contig >= l.datalen /\ r = Assemble(l, c.num)
    BY <2>1 DEF ListOf
  <2> DEFINE k == TailOf(g, c, fs)
             e == WithData(Flag(NewItem(c), fs), Bytes(c, c.off))
             l == LinkFrag(k, e)
  <2>3. /\ k \in FragmentHead /\ l \in FragmentHead /\ ListOK(l) /\ l = Relisted(k, l)
        /\ r = Going(l) \/ (l.set /\ r = Assemble(l, c.num))
    BY <2>2
  <2>4. ~k.defrag
    BY <2>1 DEF TailOf, Begun, FragmentHead
  <2> HIDE DEF k, l
  <2>5. ~l.defrag
    BY <2>3, <2>4 DEF Relisted, FragmentHead
  <2>6. CASE r = Going(l)
    BY <2>5, <2>6 DEF Going, Sized
  <2>7. CASE l.set /\ r = Assemble(l, c.num)
    <3> DEFINE o == Assemble(l, c.num)
    <3>0. c.num \in Nat
      BY DEF CallOf
    <3>1. \/ o = Throw(Tear(l))
          \/ /\ \A i \in Used(l) : ~ReadsPast(l, i)
             /\ o.h \in FragmentHead /\ ListOK(o.h) /\ Len(o.h.items) = Len(l.items)
             /\ o = IF l.error \/ LostSome(l) THEN Throw(o.h) ELSE Whole(o.h)
             /\ o.h = Remade(l, o.h, c.num)
             /\ \A i \in 1..Len(l.items) : o.h.items[i] = Flag(Spent(l.items[i]), Marks(l, Assembled(l), i))
      BY <2>3, <3>0, AssembleIs, Zenon
    <3>2. r = o
      BY <2>7
    <3> HIDE DEF o
    <3>3. CASE o = Throw(Tear(l))
      <4>1. Tear(l).torn
        BY <2>3 DEF Tear, FragmentHead
      <4> QED
        BY <3>2, <3>3, <4>1 DEF Throw, Sized
    <3>4. CASE (\A i \in Used(l) : ~ReadsPast(l, i)) /\ o.h = Remade(l, o.h, c.num)
      <4>1. Len(Assembled(l)) = l.datalen
        BY <2>3, <3>4, AssembledIs DEF ListOK
      <4> DEFINE x == o.h
      <4>2. x = Remade(l, x, c.num)
        BY <3>4
      <4> HIDE DEF x
      <4>3. x.data = Assembled(l) /\ x.datalen = l.datalen /\ x.set = l.set
        BY <2>3, <4>2 DEF Remade, FragmentHead
      <4> QED
        BY <3>2, <4>1, <4>3, <2>7 DEF Sized, x
    <3> QED
      BY <3>1, <3>3, <3>4
  <2> QED
    BY <2>3, <2>6, <2>7
<1> QED
  BY <1>1, <1>2, <1>3, AddCases
--------------------------------------------------------------------------------
(* The tables.                                                              *)
LEMMA SetupIs ==
    ASSUME Typed
    PROVE  /\ setup.api \in Apis /\ setup.calls \in Nat /\ Frames = 0..(2 * setup.calls + 1) /\ IsFiniteSet(Frames)
           /\ setup.ops \subseteq Ops /\ setup.lens \subseteq Nat /\ setup.versions \subseteq Versions
           /\ setup.short \in BOOLEAN /\ setup.crowded \in BOOLEAN
           /\ setup.frags \subseteq [off : Length, len : Length, tail : BOOLEAN]
           /\ ("end" \in setup.ops => setup.api \in BySeq \cap Checks)
           /\ ("partial" \in setup.ops => setup.api \notin Checks)
           /\ ("resetlen" \in setup.ops => setup.api \notin BySeq)
           /\ ("truncate" \in setup.ops => setup.api \notin BySeq)
           /\ (setup.api = "fallback" => ~setup.crowded)
<1>1. setup \in Setups
  BY DEF Typed
<1>2. setup.calls \in Nat
  BY <1>1, SetupAssumption
<1>3. IsFiniteSet(Frames)
  BY <1>2, FS_Interval DEF Frames
<1> QED
  BY <1>1, <1>2, <1>3, SetupAssumption DEF Length, Frames

LEMMA InFrames ==
    ASSUME Typed
    PROVE  num \in Nat /\ Len(calls) \in Nat /\ 0..num \subseteq Frames
<1>1. Len(calls) \in Nat /\ num \in Nat /\ num <= 2 * Len(calls) + 1 /\ Len(calls) <= setup.calls
  BY LenProperties DEF Typed
<1> QED
  BY <1>1, SetupIs

(* Being current says more than not being, and time passes.                *)
LEMMA FineLater ==
    ASSUME NEW api, NEW h, NEW current \in BOOLEAN, NEW n \in Nat, HeadFine(api, h, current, n),
           NEW m \in Nat, n <= m
    PROVE  HeadFine(api, h, current, m) /\ HeadFine(api, h, FALSE, m)
<1>1. 0..n \subseteq 0..m /\ 0..(n - 1) \subseteq 0..(m - 1)
  OBVIOUS
<1> QED
  BY <1>1 DEF HeadFine

(* What counts of a head as far as references go.                          *)
Referred(h, g) == [h EXCEPT !.ref = g.ref, !.freed = g.freed]

LEMMA ReferredIs ==
    ASSUME NEW h \in FragmentHead, NEW g, g.ref \in Nat, g.freed \in BOOLEAN, g = Referred(h, g)
    PROVE  /\ g \in FragmentHead
           /\ g.items = h.items /\ g.gap = h.gap /\ g.contig = h.contig /\ g.frame = h.frame /\ g.data = h.data
           /\ g.datalen = h.datalen /\ g.set = h.set /\ g.defrag = h.defrag /\ g.partial = h.partial
           /\ g.reasIn = h.reasIn /\ g.flags = h.flags /\ g.error = h.error /\ g.seq = h.seq /\ g.len = h.len
           /\ g.torn = h.torn
           /\ FramesIn(g) = FramesIn(h) /\ Members(g) = Members(h)
           /\ (ListOK(g) <=> ListOK(h)) /\ (Sized(g) <=> Sized(h)) /\ (Backed(g) <=> Backed(h))
           /\ \A api, current, n : HeadFine(api, h, current, n) => HeadFine(api, g, current, n)
<1>1. g \in FragmentHead
  BY DEF Referred, FragmentHead
<1>2. /\ g.items = h.items /\ g.gap = h.gap /\ g.contig = h.contig /\ g.frame = h.frame /\ g.data = h.data
      /\ g.datalen = h.datalen /\ g.set = h.set /\ g.defrag = h.defrag /\ g.partial = h.partial
      /\ g.reasIn = h.reasIn /\ g.flags = h.flags /\ g.error = h.error /\ g.seq = h.seq /\ g.len = h.len
      /\ g.torn = h.torn
  BY DEF Referred, FragmentHead
<1>3. FramesIn(g) = FramesIn(h) /\ Members(g) = Members(h)
  BY <1>2 DEF FramesIn, Members
<1>4. ListOK(g) <=> ListOK(h)
  BY <1>2 DEF ListOK, Sorted, GapExact
<1>5. (Sized(g) <=> Sized(h)) /\ (Backed(g) <=> Backed(h))
  BY <1>2 DEF Sized, Backed
<1>6. \A api, current, n : HeadFine(api, h, current, n) => HeadFine(api, g, current, n)
  BY <1>2, <1>3, <1>4, <1>5 DEF HeadFine
<1> QED
  BY <1>1, <1>2, <1>3, <1>4, <1>5, <1>6

(* A head that was worked on is as it should be, and as the current one, if *)
(* it has not been completed.                                              *)
LEMMA WorkedFine ==
    ASSUME NEW api, NEW h \in FragmentHead, NEW current \in BOOLEAN, NEW n \in Nat, HeadFine(api, h, current, n),
           NEW frame \in 0..n, NEW in \in 0..n, NEW r, Worked(h, frame, in, r),
           NEW m \in Nat, n <= m, api = "fallback" => n < m,
           api \notin BySeq => Sized(r.h),
           api \in Checks \cap BySeq /\ current /\ ~r.done => ~r.h.defrag /\ ~r.h.torn /\ Backed(r.h)
    PROVE  /\ HeadFine(api, r.h, FALSE, m)
           /\ (api \in Checks => ~r.done) /\ current => HeadFine(api, r.h, TRUE, m)
<1> DEFINE x == r.h
<1>1. /\ x \in FragmentHead /\ x.gap \in 0..Len(x.items) /\ (~x.torn => ListOK(x)) /\ x.seq = h.seq
      /\ (~h.partial => ~x.partial) /\ (h.error => x.error)
      /\ FramesIn(x) \subseteq FramesIn(h) \cup {frame}
      /\ x.frame \in {h.frame, frame} /\ x.reasIn \in {0, h.reasIn, in}
      /\ (x.defrag => h.defrag \/ r.done \/ x.error)
  BY DEF Worked
<1> HIDE DEF x
<1>2. FramesIn(x) \cup {x.frame, x.reasIn} \subseteq 0..m
  <2>1. FramesIn(h) \cup {h.frame, h.reasIn} \subseteq 0..n
    BY DEF HeadFine
  <2> QED
    BY <1>1, <2>1
<1>3. api = "fallback" => FramesIn(x) \cup {x.reasIn} \subseteq 0..(m - 1)
  <2>1. api = "fallback" => FramesIn(h) \cup {h.reasIn} \subseteq 0..(n - 1)
    BY DEF HeadFine
  <2> QED
    BY <1>1, <2>1
<1>4. x.seq = (api \in BySeq) /\ (api \in Checks => ~x.partial)
  BY <1>1 DEF HeadFine
<1>5. api \notin BySeq => Sized(x)
  BY DEF x
<1>6. HeadFine(api, x, FALSE, m)
  BY <1>1, <1>2, <1>3, <1>4, <1>5 DEF HeadFine
<1>7. ASSUME (api \in Checks => ~r.done) /\ current
      PROVE  HeadFine(api, x, TRUE, m)
  <2>1. api \in Checks /\ x.defrag => x.error
    BY <1>7, <1>1 DEF HeadFine
  <2>2. api \in Checks \cap BySeq => ~x.defrag /\ ~x.torn /\ Backed(x)
    BY <1>7 DEF x
  <2> QED
    BY <1>1, <1>2, <1>3, <1>4, <1>5, <2>1, <2>2 DEF HeadFine
<1> QED
  BY <1>6, <1>7 DEF x

(* The frames that lead to a head, and the references it counts.           *)
Leading(d, F, i) == {f \in F : d[f] = i}
Counted(h, d, F, i) == IF h.freed THEN Leading(d, F, i) = {} ELSE h.ref = Cardinality(Leading(d, F, i))
Others(d, frames, id) == {f \in frames : d[f] # id}
Led(d, frames, id) == [f \in DOMAIN d |-> IF f \in frames THEN id ELSE d[f]]

LEMMA CountIs ==
    ASSUME NEW F, IsFiniteSet(F), NEW d, NEW i
    PROVE  /\ IsFiniteSet(Leading(d, F, i)) /\ Cardinality(Leading(d, F, i)) \in Nat
           /\ Cardinality(Leading(d, F, i)) = 0 => Leading(d, F, i) = {}
           /\ Leading(d, F, i) = {} => Cardinality(Leading(d, F, i)) = 0
<1>1. IsFiniteSet(Leading(d, F, i))
  BY FS_Subset DEF Leading
<1> QED
  BY <1>1, FS_CardinalityType, FS_EmptySet

LEMMA CountLost ==
    ASSUME NEW F, IsFiniteSet(F), NEW frames \in SUBSET F, NEW d \in [F -> Nat], NEW id, NEW i, i # id
    PROVE  /\ Cardinality(Leading(Led(d, frames, id), F, i))
                 = Cardinality(Leading(d, F, i)) - Cardinality(Leading(d, frames, i))
           /\ Leading(Led(d, frames, id), F, i) \subseteq Leading(d, F, i)
<1> DEFINE A == Leading(d, F, i)
           L == Leading(d, frames, i)
           B == Leading(Led(d, frames, id), F, i)
<1>1. IsFiniteSet(A)
  BY CountIs
<1>2. L = A \cap frames /\ B = A \ frames
  BY DEF Leading, Led
<1>3. Cardinality(A \ frames) = Cardinality(A) - Cardinality(A \cap frames)
  <2> HIDE DEF A
  <2> QED
    BY <1>1, FS_Difference
<1> QED
  BY <1>2, <1>3

(* The head that frames are led to counts those that did not lead to it.   *)
LEMMA CountGained ==
    ASSUME NEW F, IsFiniteSet(F), NEW frames \in SUBSET F, NEW d \in [F -> Nat], NEW id
    PROVE  LET gained == Others(d, frames, id) IN
           /\ Cardinality(Leading(Led(d, frames, id), F, id)) = Cardinality(Leading(d, F, id)) + Cardinality(gained)
           /\ Cardinality(gained) \in Nat /\ Cardinality(Leading(d, F, id)) \in Nat
<1> DEFINE A == Leading(d, F, id)
           G == Others(d, frames, id)
           B == Leading(Led(d, frames, id), F, id)
<1>1. IsFiniteSet(A) /\ IsFiniteSet(G)
  <2>1. A \subseteq F /\ G \subseteq F
    BY DEF Leading, Others
  <2> QED
    BY <2>1, FS_Subset
<1>2. B = A \cup G /\ A \cap G = {}
  BY DEF Leading, Led, Others
<1> HIDE DEF A, G
<1>3. Cardinality(A \cup G) = Cardinality(A) + Cardinality(G) - Cardinality(A \cap G)
  BY <1>1, FS_Union
<1>4. Cardinality(A \cap G) = 0
  BY <1>2, FS_EmptySet
<1>5. Cardinality(A) \in Nat /\ Cardinality(G) \in Nat
  BY <1>1, FS_CardinalityType
<1> QED
  BY <1>2, <1>3, <1>4, <1>5 DEF A, G

(* reassembled_table_insert: what counted its references counts them after. *)
InsertedHead(hs, frames, id, i) ==
    LET lost == Cardinality(Leading(done, frames, i))
        ref  == IF i = id THEN hs[i].ref + Cardinality(Others(done, frames, id)) ELSE hs[i].ref - lost
    IN  [hs[i] EXCEPT !.ref = ref, !.freed = hs[i].freed \/ (i # id /\ lost > 0 /\ ref = 0)]

Insertion(hs, gs, d) ==
    /\ gs \in Seq(FragmentHead) /\ Len(gs) = Len(hs)
    /\ \A i \in 1..Len(hs) :
          /\ gs[i] = Referred(hs[i], gs[i]) /\ gs[i].ref \in Nat /\ gs[i].freed \in BOOLEAN
          /\ (hs[i].freed => gs[i].freed)
          /\ Counted(gs[i], d, Frames, i)

LEMMA InsertIs ==
    ASSUME NEW hs \in Seq(FragmentHead), NEW id \in 1..Len(hs), IsFiniteSet(Frames), done \in [Frames -> Nat],
           NEW frames \in SUBSET Frames, \A i \in 1..Len(hs) : Counted(hs[i], done, Frames, i), ~hs[id].freed,
           NEW gs, gs = Insert(hs, frames, id)
    PROVE  Insertion(hs, gs, Led(done, frames, id)) /\ ~gs[id].freed
<1> DEFINE d == Led(done, frames, id)
<1>1. DOMAIN hs = 1..Len(hs) /\ Len(hs) \in Nat
  BY LenProperties
<1>2. gs = [i \in 1..Len(hs) |-> InsertedHead(hs, frames, id, i)]
  BY <1>1 DEF Insert, InsertedHead, Leading, Others
<1>3. ASSUME NEW i \in 1..Len(hs)
      PROVE  LET g == InsertedHead(hs, frames, id, i) IN
             /\ g = Referred(hs[i], g) /\ g.ref \in Nat /\ g.freed \in BOOLEAN
             /\ (hs[i].freed => g.freed) /\ (i = id => ~g.freed)
             /\ Counted(g, d, Frames, i)
  <2> DEFINE h == hs[i]
             g == InsertedHead(hs, frames, id, i)
             lost == Cardinality(Leading(done, frames, i))
             gained == Cardinality(Others(done, frames, id))
             before == Cardinality(Leading(done, Frames, i))
             after == Cardinality(Leading(d, Frames, i))
  <2>1. h \in FragmentHead /\ h.ref \in Nat /\ h.freed \in BOOLEAN /\ Counted(h, done, Frames, i)
    <3>1. h \in FragmentHead
      BY <1>1
    <3> QED
      BY <3>1 DEF FragmentHead
  <2>2. CASE i = id
    <3>1. g = [h EXCEPT !.ref = h.ref + gained, !.freed = h.freed]
      BY <2>2, <2>1 DEF InsertedHead
    <3>2. after = before + gained /\ gained \in Nat
      <4>1. /\ Cardinality(Leading(d, Frames, id)) = Cardinality(Leading(done, Frames, id)) + gained
            /\ gained \in Nat
        BY CountGained, Zenon
      <4> QED
        BY <2>2, <4>1
    <3>3. ~h.freed /\ h.ref = before
      BY <2>1, <2>2 DEF Counted
    <3> HIDE DEF g, h, gained, before, after
    <3>4. g.ref = h.ref + gained /\ g.freed = h.freed /\ g = Referred(h, g)
      BY <2>1, <3>1 DEF Referred, FragmentHead
    <3>5. Counted(g, d, Frames, i)
      BY <3>2, <3>3, <3>4 DEF Counted, after
    <3> QED
      BY <2>1, <2>2, <3>2, <3>3, <3>4, <3>5 DEF g, h
  <2>3. CASE i # id
    <3> DEFINE ref == h.ref - lost
               gone == h.freed \/ (lost > 0 /\ ref = 0)
    <3>1. g = [h EXCEPT !.ref = ref, !.freed = gone]
      BY <2>3 DEF InsertedHead
    <3>2. /\ after = before - lost /\ before \in Nat /\ lost \in Nat /\ after \in Nat
          /\ after = 0 => Leading(d, Frames, i) = {}
          /\ Leading(done, Frames, i) = {} => lost = 0 /\ after = 0
      <4>1. /\ after = before - lost
            /\ Leading(d, Frames, i) \subseteq Leading(done, Frames, i)
        BY <2>3, CountLost
      <4>2. /\ before \in Nat
            /\ Leading(done, Frames, i) = {} => before = 0
        BY CountIs
      <4>3. IsFiniteSet(frames)
        BY FS_Subset
      <4>4. /\ lost \in Nat
            /\ Leading(done, frames, i) = {} => lost = 0
        BY <4>3, CountIs
      <4>5. /\ after \in Nat
            /\ after = 0 => Leading(d, Frames, i) = {}
            /\ Leading(d, Frames, i) = {} => after = 0
        BY CountIs
      <4>6. Leading(done, frames, i) \subseteq Leading(done, Frames, i)
        BY DEF Leading
      <4> HIDE DEF before, lost, after
      <4> QED
        BY <4>1, <4>2, <4>4, <4>5, <4>6
    <3>3. h.freed => Leading(done, Frames, i) = {} /\ lost = 0 /\ Leading(d, Frames, i) = {}
      BY <2>1, <3>2 DEF Counted
    <3>4. ~h.freed => h.ref = before
      BY <2>1 DEF Counted
    <3> HIDE DEF g, h, lost, before, after
    <3>5. ref \in Nat
      BY <2>1, <3>2, <3>3, <3>4
    <3>6. g.ref = ref /\ g.freed = gone /\ g = Referred(h, g)
      BY <2>1, <3>1 DEF Referred, FragmentHead
    <3>7. Counted(g, d, Frames, i)
      <4>1. CASE h.freed
        BY <3>3, <3>6, <4>1 DEF Counted
      <4>2. CASE ~h.freed /\ gone
        BY <3>2, <3>4, <3>6, <4>2 DEF Counted
      <4>3. CASE ~gone
        BY <3>2, <3>4, <3>6, <4>3 DEF Counted, after
      <4> QED
        BY <4>1, <4>2, <4>3
    <3>8. gone \in BOOLEAN
      BY <2>1
    <3> QED
      BY <2>3, <3>5, <3>6, <3>7, <3>8 DEF g, h
  <2> QED
    BY <2>2, <2>3
<1>4. \A i \in 1..Len(hs) : gs[i] = InsertedHead(hs, frames, id, i)
  BY <1>2
<1>5. \A i \in 1..Len(hs) : gs[i] \in FragmentHead
  <2> TAKE i \in 1..Len(hs)
  <2> DEFINE g == InsertedHead(hs, frames, id, i)
  <2>1. g = Referred(hs[i], g) /\ g.ref \in Nat /\ g.freed \in BOOLEAN
    BY <1>3
  <2>2. hs[i] \in FragmentHead
    BY <1>1
  <2>3. gs[i] = g
    BY <1>4
  <2> HIDE DEF g
  <2> QED
    BY <2>1, <2>2, <2>3, ReferredIs
<1>6. gs \in Seq(FragmentHead) /\ Len(gs) = Len(hs)
  <2>1. gs \in [1..Len(hs) -> FragmentHead]
    BY <1>2, <1>5
  <2> QED
    BY <1>1, <2>1, FunctionIsSeq
<1> QED
  BY <1>3, <1>4, <1>6 DEF Insertion

(* The heads to start from, and the current one: one there is, or a new one. *)
Current == IF table = 0 THEN Len(heads) + 1 ELSE table
Base    == IF table = 0 THEN Created ELSE heads

LEMMA BaseIs ==
    ASSUME Inv
    PROVE  /\ Base \in Seq(FragmentHead) /\ Current = Len(Base) /\ Current \in 1..Len(Base)
           /\ Len(heads) \in Nat /\ Len(heads) <= Current /\ Current <= Len(heads) + 1
           /\ \A i \in 1..(Current - 1) : i \in 1..Len(heads) /\ i # table /\ Base[i] = heads[i]
           /\ \A i \in 1..Len(heads) : i # table => i \in 1..(Current - 1)
           /\ Current \in 1..Len(heads) => Current = table /\ table # 0 /\ Base[Current] = heads[Current]
           /\ Base[Current] \in FragmentHead /\ HeadFine(setup.api, Base[Current], TRUE, num)
           /\ Base[Current].ref = 0 /\ ~Base[Current].freed
           /\ \A f \in Frames : done[f] # Current
           /\ table = 0 => Base[Current] = NewHead(Seq_)
<1>1. /\ heads \in Seq(FragmentHead) /\ DOMAIN heads = 1..Len(heads) /\ Len(heads) \in Nat /\ table \in 0..Len(heads)
      /\ num \in Nat /\ done \in [Frames -> 0..Len(heads)]
  BY LenProperties DEF Inv, Typed
<1>2. CASE table # 0
  <2>1. table = Len(heads) /\ ~heads[table].freed /\ \A f \in Frames : done[f] # table
    BY <1>2 DEF Inv, TableOK
  <2>2. table \in DOMAIN heads /\ heads[table] \in FragmentHead
    BY <1>1, <1>2
  <2>3. HeadFine(setup.api, heads[table], TRUE, num)
    BY <2>2 DEF Inv, HeadsOK
  <2>4. heads[table].ref = 0
    <3>1. {f \in Frames : done[f] = table} = {}
      BY <2>1
    <3>2. heads[table].ref = Cardinality({f \in Frames : done[f] = table})
      BY <2>1, <2>2 DEF Inv, RefsExact
    <3> QED
      BY <3>1, <3>2, FS_EmptySet
  <2>5. Current = table /\ Base = heads
    BY <1>2 DEF Current, Base
  <2>6. /\ Base \in Seq(FragmentHead) /\ Current = Len(Base) /\ Current \in 1..Len(Base)
        /\ Current = Len(heads)
    BY <1>1, <1>2, <2>1, <2>5
  <2>7. /\ \A i \in 1..(Current - 1) : i \in 1..Len(heads) /\ i # table /\ Base[i] = heads[i]
        /\ \A i \in 1..Len(heads) : i # table => i \in 1..(Current - 1)
    <3>0. Len(heads) \in Nat /\ table = Len(heads) /\ Current = Len(heads)
      BY <1>1, <2>1, <2>6
    <3>1. \A i \in 1..(Current - 1) : i \in 1..Len(heads) /\ i # table
      BY ONLY <3>0
    <3>2. \A i \in 1..Len(heads) : i # table => i \in 1..(Current - 1)
      BY ONLY <3>0
    <3> QED
      BY <2>5, <3>1, <3>2
  <2>8. Current = table /\ table # 0 /\ Base[Current] = heads[Current]
    BY <1>2, <2>5
  <2>9. /\ Base[Current] \in FragmentHead /\ HeadFine(setup.api, Base[Current], TRUE, num)
        /\ Base[Current].ref = 0 /\ ~Base[Current].freed
    BY <2>1, <2>2, <2>3, <2>4, <2>5
  <2>10. \A f \in Frames : done[f] # Current
    BY <2>1, <2>5
  <2>11. Len(heads) <= Current /\ Current <= Len(heads) + 1
    BY <1>1, <2>6
  <2> QED
    BY <1>1, <1>2, <2>6, <2>7, <2>8, <2>9, <2>10, <2>11
<1>3. CASE table = 0
  <2> DEFINE n == NewHead(Seq_)
  <2>1. n.seq = Seq_ /\ n.items = <<>> /\ n.gap = 0 /\ n.frame = 0 /\ n.reasIn = 0 /\ ~n.torn /\ ~n.partial /\ ~n.defrag
        /\ n.ref = 0 /\ ~n.freed /\ n.contig = 0
    BY DEF NewHead
  <2>2. n \in FragmentHead
    <3>1. NoData \in Data /\ <<>> \in Seq(Item) /\ {} \subseteq ItemFlags
      BY DEF NoData, Data, Byte
    <3>2. Seq_ \in BOOLEAN
      BY DEF Seq_
    <3> QED
      BY <3>1, <3>2 DEF NewHead, FragmentHead
  <2> HIDE DEF n
  <2>3. Len(n.items) = 0 /\ FramesIn(n) = {}
    BY <2>1 DEF FramesIn
  <2>4. ListOK(n)
    BY <2>1, <2>3 DEF ListOK, Sorted, GapExact
  <2>5. num >= 1
    BY DEF Inv, Typed
  <2>6. HeadFine(setup.api, n, TRUE, num)
    BY <1>1, <2>1, <2>3, <2>4, <2>5 DEF HeadFine, Sized, Backed, Seq_
  <2>7. Current = Len(heads) + 1 /\ Base = Append(heads, n)
    BY <1>3 DEF Current, Base, Created, n
  <2>8. /\ Base \in Seq(FragmentHead) /\ Len(Base) = Len(heads) + 1 /\ Base[Current] = n
        /\ \A i \in 1..Len(heads) : Base[i] = heads[i]
    BY <1>1, <2>2, <2>7, AppendProperties
  <2>9. /\ Current = Len(Base) /\ Current \in 1..Len(Base) /\ Current = Len(heads) + 1
        /\ Current \notin 1..Len(heads)
    BY <1>1, <2>7, <2>8
  <2>10. /\ \A i \in 1..(Current - 1) : i \in 1..Len(heads) /\ i # table /\ Base[i] = heads[i]
         /\ \A i \in 1..Len(heads) : i # table => i \in 1..(Current - 1)
    BY <1>1, <1>3, <2>8, <2>9
  <2>11. /\ Base[Current] \in FragmentHead /\ HeadFine(setup.api, Base[Current], TRUE, num)
         /\ Base[Current].ref = 0 /\ ~Base[Current].freed
    BY <2>1, <2>2, <2>6, <2>8
  <2>12. \A f \in Frames : done[f] # Current
    BY <1>1, <2>9
  <2>13. Len(heads) <= Current /\ Current <= Len(heads) + 1
    BY <1>1, <2>9
  <2>14. Base[Current] = NewHead(Seq_)
    BY <2>8 DEF n
  <2> QED
    BY <1>1, <2>8, <2>9, <2>10, <2>11, <2>12, <2>13, <2>14
<1> QED
  BY <1>2, <1>3

(* What a call leaves of those before, and what is noted of it.             *)
Told(id, frame) ==
    /\ calls' \in Seq(CallOf) /\ Len(calls') <= setup.calls /\ Len(calls) <= Len(calls')
    /\ \A k \in DOMAIN calls :
          /\ calls'[k].id = calls[k].id /\ calls'[k].num = calls[k].num /\ calls'[k].from = calls[k].from
          /\ calls'[k].short = calls[k].short /\ calls'[k].returned = calls[k].returned
    /\ \A k \in DOMAIN calls' \ DOMAIN calls :
          /\ calls'[k].id = id
          /\ calls'[k].returned /\ ~Seq_ => calls'[k].from <= frame
          /\ calls'[k].returned /\ setup.api \in Checks => id # table'
    /\ given' \in Seq(Data) /\ Len(given') = Len(heads')

(* What is true of the frames and calls of a step that goes on.            *)
Passes ==
    /\ num' \in Nat /\ num <= num' /\ setup' = setup
    /\ num' + (IF table' # 0 THEN 1 ELSE 0) <= 2 * Len(calls') + 1

LEMMA TypedStays ==
    ASSUME Inv, Passes, NEW id, NEW frame, Told(id, frame), heads' \in Seq(FragmentHead), table' \in 0..Len(heads'),
           done' \in [Frames -> 0..Len(heads')]
    PROVE  Typed' /\ Frames' = Frames
<1>1. Frames' = Frames
  BY DEF Passes, Frames
<1>2. setup' \in Setups /\ setup'.calls = setup.calls
  BY DEF Passes, Inv, Typed
<1>3. num' >= 1
  BY DEF Passes, Inv, Typed
<1> QED
  BY <1>1, <1>2, <1>3 DEF Passes, Told, Typed

LEMMA CallsStay ==
    ASSUME Inv, setup' = setup, NEW id \in 1..Len(heads'), NEW frame, Told(id, frame), heads' \in Seq(FragmentHead),
           Len(heads) <= Len(heads'), \A i \in 1..Len(heads) : heads[i].frame <= heads'[i].frame,
           frame = heads'[id].frame,
           table' \in {0, table, Len(heads) + 1}
    PROVE  CallsOK'
<1>1. /\ heads \in Seq(FragmentHead) /\ Len(heads) \in Nat /\ Len(heads') \in Nat
      /\ DOMAIN heads = 1..Len(heads) /\ DOMAIN heads' = 1..Len(heads')
      /\ calls \in Seq(CallOf) /\ calls' \in Seq(CallOf)
  BY LenProperties DEF Inv, Typed, Told
<1>2. setup'.api = setup.api /\ Seq_' = Seq_
  BY DEF Seq_
<1>3. ASSUME NEW k \in DOMAIN calls'
      PROVE  LET c == calls'[k] IN
             /\ c.id \in 1..Len(heads')
             /\ c.returned /\ ~Seq_ => c.from <= heads'[c.id].frame
             /\ c.returned /\ setup.api \in Checks => c.id # table'
  <2> DEFINE c == calls'[k]
  <2>1. CASE k \notin DOMAIN calls
    BY <2>1 DEF Told
  <2>2. CASE k \in DOMAIN calls
    <3> DEFINE b == calls[k]
    <3>1. c.id = b.id /\ c.from = b.from /\ c.returned = b.returned
      BY <2>2 DEF Told
    <3>2. /\ b.id \in 1..Len(heads)
          /\ b.returned /\ ~Seq_ => b.from <= heads[b.id].frame
          /\ b.returned /\ setup.api \in Checks => b.id # table
      BY <2>2 DEF Inv, CallsOK
    <3>3. b.id \in 1..Len(heads') /\ b.id # 0 /\ b.id # Len(heads) + 1
      BY <1>1, <3>2
    <3>4. heads[b.id].frame \in Nat /\ heads'[b.id].frame \in Nat
      <4>1. heads[b.id] \in FragmentHead /\ heads'[b.id] \in FragmentHead
        BY <1>1, <3>2, <3>3
      <4> QED
        BY <4>1 DEF FragmentHead
    <3>5. b.from \in Nat
      <4>1. b \in CallOf
        BY <1>1, <2>2
      <4> QED
        BY <4>1 DEF CallOf
    <3>6. heads[b.id].frame <= heads'[b.id].frame
      BY <3>2
    <3> HIDE DEF b, c
    <3> QED
      BY <3>1, <3>2, <3>3, <3>4, <3>5, <3>6 DEF c
  <2> QED
    BY <2>1, <2>2
<1> QED
  BY <1>2, <1>3 DEF CallsOK

(* What came before is led to as before.                                   *)
LEMMA GivenUpStays ==
    ASSUME Inv, NEW id, NEW frame, Told(id, frame), NEW i
    PROVE  /\ GivenUp(i) \subseteq GivenUp(i)'
           /\ \A k \in DOMAIN calls' : calls'[k].id = i /\ calls'[k].short => calls'[k].num \in GivenUp(i)'
<1>1. calls \in Seq(CallOf) /\ calls' \in Seq(CallOf) /\ Len(calls) \in Nat /\ Len(calls') \in Nat /\ Len(calls) <= Len(calls')
      /\ DOMAIN calls = 1..Len(calls) /\ DOMAIN calls' = 1..Len(calls')
  BY LenProperties DEF Inv, Typed, Told
<1>2. DOMAIN calls \subseteq DOMAIN calls'
  BY <1>1
<1>3. \A k \in DOMAIN calls :
          calls'[k].id = calls[k].id /\ calls'[k].num = calls[k].num /\ calls'[k].short = calls[k].short
  BY DEF Told
<1> QED
  BY <1>2, <1>3 DEF GivenUp

(* A head that stays in the table.                                         *)
LEMMA Stays ==
    ASSUME Inv, Passes, NEW x \in FragmentHead, heads' = [Base EXCEPT ![Current] = x], table' = Current, done' = done,
           x.ref = Base[Current].ref, x.freed = Base[Current].freed, Base[Current].frame <= x.frame,
           HeadFine(setup.api, x, TRUE, num'), Told(Current, x.frame)
    PROVE  Inv'
<1>1. /\ Base \in Seq(FragmentHead) /\ Current = Len(Base) /\ Current \in 1..Len(Base)
      /\ Len(heads) \in Nat /\ Len(heads) <= Current /\ Current <= Len(heads) + 1
      /\ \A i \in 1..(Current - 1) : i \in 1..Len(heads) /\ i # table /\ Base[i] = heads[i]
      /\ \A i \in 1..Len(heads) : i # table => i \in 1..(Current - 1)
      /\ Current \in 1..Len(heads) => Current = table /\ table # 0 /\ Base[Current] = heads[Current]
      /\ Base[Current].ref = 0 /\ ~Base[Current].freed
      /\ \A f \in Frames : done[f] # Current
  BY BaseIs
<1>2. /\ heads' \in Seq(FragmentHead) /\ Len(heads') = Current /\ heads'[Current] = x
      /\ \A i \in 1..(Current - 1) : heads'[i] = heads[i]
      /\ DOMAIN heads' = 1..Current /\ DOMAIN heads = 1..Len(heads)
  <2>1. /\ heads' \in Seq(FragmentHead) /\ Len(heads') = Len(Base)
        /\ \A i \in 1..Len(Base) : heads'[i] = IF i = Current THEN x ELSE Base[i]
    BY <1>1, ExceptSeq
  <2>2. DOMAIN heads' = 1..Current /\ DOMAIN heads = 1..Len(heads)
    BY <1>1, <2>1, LenProperties DEF Inv, Typed
  <2> QED
    BY <1>1, <2>1, <2>2
<1>3. /\ num \in Nat /\ num' \in Nat /\ num <= num' /\ setup' = setup /\ setup'.api = setup.api
      /\ done \in [Frames -> 0..Len(heads)] /\ heads \in Seq(FragmentHead) /\ table \in 0..Len(heads)
  BY DEF Inv, Typed, Passes
<1>4. done' \in [Frames -> 0..Len(heads')]
  <2>1. 0..Len(heads) \subseteq 0..Len(heads')
    BY <1>1, <1>2
  <2> QED
    BY <1>3, <2>1
<1>5. table' \in 0..Len(heads')
  BY <1>1, <1>2
<1>6. Typed' /\ Frames' = Frames
  BY <1>2, <1>4, <1>5, TypedStays
<1>7. HeadsOK'
  <2> SUFFICES ASSUME NEW i \in 1..Current
               PROVE  HeadFine(setup.api, heads'[i], i = table', num')
    BY <1>2, <1>3 DEF HeadsOK
  <2>1. CASE i = Current
    BY <1>2, <2>1
  <2>2. CASE i # Current
    <3>1. i \in 1..(Current - 1)
      BY <1>1, <2>2
    <3>2. i \in 1..Len(heads) /\ i # table /\ heads'[i] = heads[i]
      BY <1>1, <1>2, <3>1
    <3>3. HeadFine(setup.api, heads[i], FALSE, num)
      <4>1. HeadFine(setup.api, heads[i], i = table, num)
        BY <1>2, <3>2 DEF Inv, HeadsOK
      <4>2. (i = table) = FALSE
        BY <3>2
      <4> QED
        BY <4>1, <4>2
    <3>4. HeadFine(setup.api, heads[i], FALSE, num')
      BY <1>3, <3>3, FineLater
    <3>5. (i = table') = FALSE
      BY <2>2
    <3> QED
      BY <3>2, <3>4, <3>5
  <2> QED
    BY <2>1, <2>2
<1>8. TableOK'
  BY <1>1, <1>2, <1>3, <1>6 DEF TableOK, Inv
<1>9. CallsOK'
  <2>1. \A i \in 1..Len(heads) : heads[i].frame <= heads'[i].frame
    <3> TAKE i \in 1..Len(heads)
    <3>1. heads[i].frame \in Nat
      <4>1. heads[i] \in FragmentHead
        BY <1>2, <1>3
      <4> QED
        BY <4>1 DEF FragmentHead
    <3>2. CASE i = Current
      BY <1>1, <1>2, <3>2
    <3>3. CASE i # Current
      <4>1. i \in 1..(Current - 1)
        BY <1>1, <3>3
      <4> QED
        BY <1>2, <3>1, <4>1
    <3> QED
      BY <3>2, <3>3
  <2>2. Current \in 1..Len(heads') /\ Len(heads) <= Len(heads') /\ x.frame = heads'[Current].frame
    BY <1>1, <1>2
  <2>3. table' \in {0, table, Len(heads) + 1}
    BY DEF Current
  <2> QED
    BY <1>2, <1>3, <2>1, <2>2, <2>3, CallsStay
<1>10. RefsExact'
  <2> SUFFICES ASSUME NEW i \in 1..Current
               PROVE  Counted(heads'[i], done, Frames, i)
    BY <1>2, <1>6 DEF RefsExact, Counted, Leading
  <2>1. CASE i = Current
    <3>1. Leading(done, Frames, i) = {}
      BY <1>1, <2>1 DEF Leading
    <3> QED
      BY <1>1, <1>2, <2>1, <3>1, FS_EmptySet DEF Counted
  <2>2. CASE i # Current
    <3>1. i \in 1..(Current - 1)
      BY <1>1, <2>2
    <3>2. i \in DOMAIN heads /\ heads'[i] = heads[i]
      BY <1>1, <1>2, <3>1
    <3> QED
      BY <3>2 DEF Inv, RefsExact, Counted, Leading
  <2> QED
    BY <2>1, <2>2
<1>11. FramesFindTheirs'
  <2>1. ASSUME NEW f \in Frames, NEW i, i = done[f], i # 0
        PROVE  heads'[i].defrag /\ f \in Members(heads'[i]) \cup {heads'[i].reasIn} \cup GivenUp(i)'
    <3>1. i \in 1..Len(heads) /\ i # table
      <4>1. i \in 0..Len(heads) /\ i # 0
        BY <1>3, <2>1
      <4>2. i # table
        <5>1. table # 0 => done[f] # table
          BY DEF Inv, TableOK
        <5> QED
          BY <2>1, <4>1, <5>1
      <4> QED
        BY <1>1, <4>1, <4>2
    <3>2. heads'[i] = heads[i]
      BY <1>1, <1>2, <3>1
    <3>3. heads[i].defrag /\ f \in Members(heads[i]) \cup {heads[i].reasIn} \cup GivenUp(i)
      BY <2>1 DEF Inv, FramesFindTheirs
    <3>4. GivenUp(i) \subseteq GivenUp(i)'
      BY GivenUpStays
    <3> QED
      BY <3>2, <3>3, <3>4
  <2>2. ASSUME NEW i \in 1..Current, setup.api \in Checks, i # table', heads'[i].defrag,
               ~(heads'[i].error /\ heads'[i].freed), NEW f \in Members(heads'[i])
        PROVE  done'[f] >= i
    <3>1. i \in 1..(Current - 1)
      BY <1>1, <2>2
    <3>2. i \in DOMAIN heads /\ i # table /\ heads'[i] = heads[i]
      BY <1>1, <1>2, <3>1
    <3> QED
      BY <2>2, <3>2 DEF Inv, FramesFindTheirs
  <2>3. \A f \in Frames :
            done'[f] # 0 =>
               /\ heads'[done'[f]].defrag
               /\ f \in Members(heads'[done'[f]]) \cup {heads'[done'[f]].reasIn}
                         \cup {calls'[k].num : k \in {j \in DOMAIN calls' : calls'[j].id = done'[f] /\ calls'[j].short}}
    BY <2>1 DEF GivenUp
  <2> QED
    BY <1>2, <1>3, <1>6, <2>2, <2>3 DEF FramesFindTheirs, GivenUp
<1> QED
  BY <1>6, <1>7, <1>8, <1>9, <1>10, <1>11 DEF Inv

LEMMA MembersIn ==
    ASSUME NEW api, NEW h, NEW current, NEW n, HeadFine(api, h, current, n)
    PROVE  Members(h) \subseteq 0..n
  BY DEF Members, HeadFine, FramesIn

(* The references are counted when the current head is inserted.           *)
LEMMA CurrentInserted ==
    ASSUME Inv, NEW x \in FragmentHead, NEW hs, hs = [Base EXCEPT ![Current] = x], NEW frames \in SUBSET (0..num),
           x.ref = 0, ~x.freed
    PROVE  /\ Insertion(hs, Insert(hs, frames, Current), Led(done, frames, Current))
           /\ Insert(hs, frames, Current) \in Seq(FragmentHead)
<1>1. /\ Base \in Seq(FragmentHead) /\ Current = Len(Base) /\ Current \in 1..Len(Base)
      /\ Len(heads) \in Nat /\ Len(heads) <= Current /\ Current <= Len(heads) + 1
      /\ \A i \in 1..(Current - 1) : i \in 1..Len(heads) /\ i # table /\ Base[i] = heads[i]
      /\ \A i \in 1..Len(heads) : i # table => i \in 1..(Current - 1)
      /\ Current \in 1..Len(heads) => Current = table /\ table # 0 /\ Base[Current] = heads[Current]
      /\ Base[Current].ref = 0 /\ ~Base[Current].freed
      /\ \A f \in Frames : done[f] # Current
  BY BaseIs
<1>2. /\ hs \in Seq(FragmentHead) /\ Len(hs) = Current /\ hs[Current] = x
      /\ \A i \in 1..(Current - 1) : hs[i] = heads[i]
      /\ DOMAIN heads = 1..Len(heads)
  <2>1. /\ hs \in Seq(FragmentHead) /\ Len(hs) = Len(Base)
        /\ \A i \in 1..Len(Base) : hs[i] = IF i = Current THEN x ELSE Base[i]
    BY <1>1, ExceptSeq
  <2>2. DOMAIN heads = 1..Len(heads)
    BY <1>1, <2>1, LenProperties DEF Inv, Typed
  <2> QED
    BY <1>1, <2>1, <2>2
<1>3. /\ num \in Nat
      /\ done \in [Frames -> 0..Len(heads)] /\ heads \in Seq(FragmentHead) /\ table \in 0..Len(heads)
  BY DEF Inv, Typed
<1>4. IsFiniteSet(Frames) /\ frames \in SUBSET Frames /\ done \in [Frames -> Nat]
  <2>1. 0..num \subseteq Frames /\ IsFiniteSet(Frames)
    BY InFrames, SetupIs DEF Inv
  <2>2. 0..Len(heads) \subseteq Nat
    BY <1>1
  <2> QED
    BY <1>3, <2>1, <2>2
<1>5. \A i \in 1..Current : Counted(hs[i], done, Frames, i)
  <2> SUFFICES ASSUME NEW i \in 1..Current
               PROVE  Counted(hs[i], done, Frames, i)
    OBVIOUS
  <2>1. CASE i = Current
    <3>1. Leading(done, Frames, i) = {}
      BY <1>1, <2>1 DEF Leading
    <3> QED
      BY <1>2, <2>1, <3>1, FS_EmptySet DEF Counted
  <2>2. CASE i # Current
    <3>1. i \in 1..(Current - 1)
      BY <1>1, <2>2
    <3>2. i \in DOMAIN heads /\ hs[i] = heads[i]
      BY <1>1, <1>2, <3>1
    <3> QED
      BY <3>2 DEF Inv, RefsExact, Counted, Leading
  <2> QED
    BY <2>1, <2>2
<1>6. Insertion(hs, Insert(hs, frames, Current), Led(done, frames, Current))
  <2>1. Current \in 1..Len(hs) /\ ~hs[Current].freed /\ \A i \in 1..Len(hs) : Counted(hs[i], done, Frames, i)
    BY <1>1, <1>2, <1>5
  <2> QED
    BY <1>2, <1>4, <2>1, InsertIs
<1> QED
  BY <1>2, <1>6 DEF Insertion

(* What the tables do not change of a head.                                *)
Alike(h, g) ==
    /\ g.frame = h.frame /\ g.defrag = h.defrag /\ g.error = h.error /\ g.reasIn = h.reasIn
    /\ Members(g) = Members(h) /\ (h.freed => g.freed) /\ g \in FragmentHead
    /\ \A api, current, n : HeadFine(api, h, current, n) => HeadFine(api, g, current, n)

LEMMA InsertionIs ==
    ASSUME NEW hs \in Seq(FragmentHead), NEW gs, NEW d, Insertion(hs, gs, d), NEW i \in 1..Len(hs)
    PROVE  Alike(hs[i], gs[i])
<1> DEFINE h == hs[i]
           g == gs[i]
<1>1. h \in FragmentHead
  BY LenProperties
<1>2. g = Referred(h, g) /\ g.ref \in Nat /\ g.freed \in BOOLEAN /\ (h.freed => g.freed)
  BY DEF Insertion
<1> HIDE DEF g, h
<1> QED
  BY <1>1, <1>2, ReferredIs DEF Alike, g, h

(* A head that leaves the table, complete: the frames it is of lead to it.  *)
LEMMA Leaves ==
    ASSUME Inv, Passes, setup.api \in Checks, NEW x \in FragmentHead, NEW hs, hs = [Base EXCEPT ![Current] = x],
           NEW frames \in SUBSET (0..num), heads' = Insert(hs, frames, Current), table' = 0,
           done' = [f \in Frames |-> IF f \in frames THEN Current ELSE done[f]],
           x.ref = 0, ~x.freed, x.defrag, Base[Current].frame <= x.frame,
           Members(x) \subseteq frames, frames \subseteq Members(x) \cup {x.reasIn},
           HeadFine(setup.api, x, FALSE, num'), Told(Current, x.frame)
    PROVE  Inv'
<1>1. /\ Base \in Seq(FragmentHead) /\ Current = Len(Base) /\ Current \in 1..Len(Base)
      /\ Len(heads) \in Nat /\ Len(heads) <= Current /\ Current <= Len(heads) + 1
      /\ \A i \in 1..(Current - 1) : i \in 1..Len(heads) /\ i # table /\ Base[i] = heads[i]
      /\ \A i \in 1..Len(heads) : i # table => i \in 1..(Current - 1)
      /\ Current \in 1..Len(heads) => Current = table /\ table # 0 /\ Base[Current] = heads[Current]
      /\ Base[Current].ref = 0 /\ ~Base[Current].freed
      /\ \A f \in Frames : done[f] # Current
  BY BaseIs
<1>2. /\ hs \in Seq(FragmentHead) /\ Len(hs) = Current /\ hs[Current] = x
      /\ \A i \in 1..(Current - 1) : hs[i] = heads[i]
      /\ DOMAIN heads = 1..Len(heads)
  <2>1. /\ hs \in Seq(FragmentHead) /\ Len(hs) = Len(Base)
        /\ \A i \in 1..Len(Base) : hs[i] = IF i = Current THEN x ELSE Base[i]
    BY <1>1, ExceptSeq
  <2>2. DOMAIN heads = 1..Len(heads)
    BY <1>1, <2>1, LenProperties DEF Inv, Typed
  <2> QED
    BY <1>1, <2>1, <2>2
<1>3. /\ num \in Nat /\ num' \in Nat /\ num <= num' /\ setup' = setup /\ setup'.api = setup.api
      /\ done \in [Frames -> 0..Len(heads)] /\ heads \in Seq(FragmentHead) /\ table \in 0..Len(heads)
  BY DEF Inv, Typed, Passes
<1>4. IsFiniteSet(Frames) /\ frames \in SUBSET Frames /\ done \in [Frames -> Nat]
  <2>1. 0..num \subseteq Frames /\ IsFiniteSet(Frames)
    BY InFrames, SetupIs DEF Inv
  <2>2. 0..Len(heads) \subseteq Nat
    BY <1>1
  <2> QED
    BY <1>3, <2>1, <2>2
<1>6. done' = Led(done, frames, Current)
  BY <1>3 DEF Led
<1>7. Insertion(hs, heads', done')
  <2>1. Insertion(hs, Insert(hs, frames, Current), Led(done, frames, Current))
    BY CurrentInserted
  <2> QED
    BY <1>6, <2>1
<1>8. /\ heads' \in Seq(FragmentHead) /\ Len(heads') = Current
      /\ \A i \in 1..Current : Counted(heads'[i], done', Frames, i)
      /\ Alike(x, heads'[Current])
      /\ \A i \in 1..(Current - 1) : i \in 1..Len(heads) /\ i # table /\ Alike(heads[i], heads'[i])
  <2>1. \A i \in 1..Current : Alike(hs[i], heads'[i])
    BY <1>2, <1>7, InsertionIs
  <2>2. Current \in 1..Current
    BY <1>1
  <2>3. /\ heads' \in Seq(FragmentHead) /\ Len(heads') = Current
        /\ \A i \in 1..Current : Counted(heads'[i], done', Frames, i)
    BY <1>2, <1>7 DEF Insertion
  <2>4. Alike(x, heads'[Current])
    BY <1>2, <2>1, <2>2
  <2>5. \A i \in 1..(Current - 1) : i \in 1..Len(heads) /\ i # table /\ Alike(heads[i], heads'[i])
    <3> TAKE i \in 1..(Current - 1)
    <3>1. i \in 1..Current /\ i \in 1..Len(heads) /\ i # table /\ hs[i] = heads[i]
      BY <1>1, <1>2
    <3> QED
      BY <2>1, <3>1
  <2> QED
    BY <2>3, <2>4, <2>5
<1>9. done' \in [Frames -> 0..Len(heads')]
  <2>1. 0..Len(heads) \subseteq 0..Len(heads') /\ Current \in 0..Len(heads')
    BY <1>1, <1>8
  <2> QED
    BY <1>3, <2>1
<1>10. Typed' /\ Frames' = Frames
  <2>1. table' \in 0..Len(heads')
    BY <1>1, <1>8
  <2> QED
    BY <1>8, <1>9, <2>1, TypedStays
<1>11. DOMAIN heads' = 1..Current
  BY <1>8, LenProperties
<1>12. HeadsOK'
  <2> SUFFICES ASSUME NEW i \in 1..Current
               PROVE  HeadFine(setup.api, heads'[i], FALSE, num')
    <3>1. \A i \in 1..Current : (i = table') = FALSE
      BY <1>1
    <3> QED
      BY <1>3, <1>11, <3>1 DEF HeadsOK
  <2>1. CASE i = Current
    BY <1>8, <2>1 DEF Alike
  <2>2. CASE i # Current
    <3>1. i \in 1..(Current - 1)
      BY <1>1, <2>2
    <3>2. i \in 1..Len(heads) /\ i # table
      BY <1>8, <3>1
    <3>3. HeadFine(setup.api, heads[i], FALSE, num)
      <4>1. HeadFine(setup.api, heads[i], i = table, num)
        BY <1>2, <3>2 DEF Inv, HeadsOK
      <4>2. (i = table) = FALSE
        BY <3>2
      <4> QED
        BY <4>1, <4>2
    <3>4. HeadFine(setup.api, heads[i], FALSE, num')
      BY <1>3, <3>3, FineLater
    <3> QED
      BY <1>8, <3>1, <3>4 DEF Alike
  <2> QED
    BY <2>1, <2>2
<1>13. TableOK'
  BY <1>3 DEF TableOK
<1>14. CallsOK'
  <2>1. \A i \in 1..Len(heads) : heads[i].frame <= heads'[i].frame
    <3> TAKE i \in 1..Len(heads)
    <3>1. heads[i].frame \in Nat
      <4>1. heads[i] \in FragmentHead
        BY <1>2, <1>3
      <4> QED
        BY <4>1 DEF FragmentHead
    <3>2. CASE i = Current
      <4>1. heads'[i].frame = x.frame /\ Base[Current].frame = heads[i].frame
        BY <1>1, <1>8, <3>2 DEF Alike
      <4> QED
        BY <4>1
    <3>3. CASE i # Current
      <4>1. i \in 1..(Current - 1)
        BY <1>1, <3>3
      <4>2. heads'[i].frame = heads[i].frame
        BY <1>8, <4>1 DEF Alike
      <4> QED
        BY <3>1, <4>2
    <3> QED
      BY <3>2, <3>3
  <2>2. Current \in 1..Len(heads') /\ Len(heads) <= Len(heads') /\ x.frame = heads'[Current].frame
    BY <1>1, <1>8 DEF Alike
  <2> QED
    BY <1>3, <1>8, <2>1, <2>2, CallsStay
<1>15. RefsExact'
  BY <1>8, <1>10, <1>11 DEF RefsExact, Counted, Leading
<1>16. FramesFindTheirs'
  <2>1. ASSUME NEW f \in Frames, NEW i, i = done'[f], i # 0
        PROVE  heads'[i].defrag /\ f \in Members(heads'[i]) \cup {heads'[i].reasIn} \cup GivenUp(i)'
    <3>1. CASE f \in frames
      <4>1. i = Current
        BY <2>1, <3>1
      <4>2. heads'[i].defrag /\ Members(heads'[i]) = Members(x) /\ heads'[i].reasIn = x.reasIn
        BY <1>8, <4>1 DEF Alike
      <4> QED
        BY <3>1, <4>2
    <3>2. CASE f \notin frames
      <4>1. i = done[f]
        BY <2>1, <3>2
      <4>2. i \in 1..Len(heads) /\ i # table
        <5>1. i \in 0..Len(heads) /\ i # 0
          BY <1>3, <2>1, <4>1
        <5>2. table # 0 => done[f] # table
          BY DEF Inv, TableOK
        <5> QED
          BY <1>1, <4>1, <5>1, <5>2
      <4>3. i \in 1..(Current - 1) /\ i \in 1..Current
        BY <1>1, <4>2
      <4>4. /\ heads'[i].defrag = heads[i].defrag /\ Members(heads'[i]) = Members(heads[i])
            /\ heads'[i].reasIn = heads[i].reasIn
        BY <1>8, <4>3 DEF Alike
      <4>5. heads[i].defrag /\ f \in Members(heads[i]) \cup {heads[i].reasIn} \cup GivenUp(i)
        BY <2>1, <4>1 DEF Inv, FramesFindTheirs
      <4>6. GivenUp(i) \subseteq GivenUp(i)'
        BY GivenUpStays
      <4> QED
        BY <4>4, <4>5, <4>6
    <3> QED
      BY <3>1, <3>2
  <2>2. ASSUME NEW i \in 1..Current, heads'[i].defrag,
               ~(heads'[i].error /\ heads'[i].freed), NEW f \in Members(heads'[i])
        PROVE  done'[f] >= i
    <3>1. DOMAIN done' = Frames /\ frames \subseteq Frames
      BY <1>4
    <3>2. CASE i = Current
      <4>1. f \in frames
        BY <1>8, <2>2, <3>2 DEF Alike
      <4>2. done'[f] = Current
        BY <3>1, <4>1
      <4> QED
        BY <1>1, <3>2, <4>2
    <3>3. CASE i # Current
      <4>1. i \in 1..(Current - 1)
        BY <1>1, <3>3
      <4>2. i \in DOMAIN heads /\ i # table
        BY <1>1, <1>2, <4>1
      <4>3. /\ heads'[i].defrag = heads[i].defrag /\ heads'[i].error = heads[i].error
            /\ Members(heads'[i]) = Members(heads[i])
            /\ heads[i].freed => heads'[i].freed
        BY <1>8, <4>1 DEF Alike
      <4>4. done[f] >= i
        BY <2>2, <4>2, <4>3 DEF Inv, FramesFindTheirs
      <4>5. f \in Frames
        <5>1. HeadFine(setup.api, heads[i], i = table, num)
          BY <4>2 DEF Inv, HeadsOK
        <5>2. f \in 0..num
          BY <2>2, <4>3, <5>1, MembersIn
        <5> QED
          BY <5>2, InFrames DEF Inv
      <4>6. done'[f] \in {done[f], Current} /\ i <= Current /\ done[f] \in Nat
        BY <1>1, <1>4, <4>1, <4>5
      <4> QED
        BY <1>1, <4>4, <4>6
    <3> QED
      BY <3>2, <3>3
  <2>3. \A f \in Frames :
            done'[f] # 0 =>
               /\ heads'[done'[f]].defrag
               /\ f \in Members(heads'[done'[f]]) \cup {heads'[done'[f]].reasIn}
                         \cup {calls'[k].num : k \in {j \in DOMAIN calls' : calls'[j].id = done'[f] /\ calls'[j].short}}
    <3> TAKE f \in Frames
    <3> HAVE done'[f] # 0
    <3>1. PICK i : i = done'[f]
      OBVIOUS
    <3>2. heads'[i].defrag /\ f \in Members(heads'[i]) \cup {heads'[i].reasIn} \cup GivenUp(i)'
      BY <2>1, <3>1
    <3> QED
      BY <3>1, <3>2 DEF GivenUp
  <2> QED
    BY <1>3, <1>10, <1>11, <2>2, <2>3 DEF FramesFindTheirs, GivenUp
<1> QED
  BY <1>10, <1>12, <1>13, <1>14, <1>15, <1>16 DEF Inv

(* A fragment that comes late: the head of another frame is taken.          *)
LEMMA LateHead ==
    ASSUME Inv, table = 0, NEW fallback \in Frames, NEW id, id = done[fallback], id # 0,
           NEW hs, hs = Insert(heads, {num}, id)
    PROVE  /\ id \in 1..Len(heads) /\ heads[id].defrag /\ ~heads[id].freed
           /\ Insertion(heads, hs, Led(done, {num}, id)) /\ ~hs[id].freed
           /\ HeadFine(setup.api, heads[id], FALSE, num)
           /\ HeadFine(setup.api, hs[id], FALSE, num) /\ hs[id] \in FragmentHead
           /\ hs[id].defrag /\ hs[id].torn = heads[id].torn
<1>1. /\ num \in Nat /\ done \in [Frames -> 0..Len(heads)] /\ heads \in Seq(FragmentHead) /\ Len(heads) \in Nat
      /\ DOMAIN heads = 1..Len(heads)
  BY LenProperties DEF Inv, Typed
<1>2. id \in 1..Len(heads)
  BY <1>1
<1>3. heads[id].defrag
  BY <1>2 DEF Inv, FramesFindTheirs
<1>4. \A i \in 1..Len(heads) : Counted(heads[i], done, Frames, i)
  BY <1>1 DEF Inv, RefsExact, Counted, Leading
<1>5. ~heads[id].freed
  <2>1. fallback \in Leading(done, Frames, id)
    BY DEF Leading
  <2> QED
    BY <1>2, <1>4, <2>1 DEF Counted
<1>6. IsFiniteSet(Frames) /\ {num} \in SUBSET Frames /\ done \in [Frames -> Nat]
  <2>1. 0..num \subseteq Frames /\ IsFiniteSet(Frames)
    BY InFrames, SetupIs DEF Inv
  <2>2. num \in 0..num
    BY <1>1
  <2>3. 0..Len(heads) \subseteq Nat
    BY <1>1
  <2> QED
    BY <1>1, <2>1, <2>2, <2>3
<1>7. Insertion(heads, hs, Led(done, {num}, id)) /\ ~hs[id].freed
  BY <1>1, <1>2, <1>4, <1>5, <1>6, InsertIs
<1>8. HeadFine(setup.api, heads[id], FALSE, num)
  <2>1. HeadFine(setup.api, heads[id], id = table, num)
    BY <1>1, <1>2 DEF Inv, HeadsOK
  <2>2. (id = table) = FALSE
    OBVIOUS
  <2> QED
    BY <2>1, <2>2
<1>9. Alike(heads[id], hs[id])
  BY <1>1, <1>2, <1>7, InsertionIs
<1>10. HeadFine(setup.api, hs[id], FALSE, num) /\ hs[id] \in FragmentHead /\ hs[id].defrag
  BY <1>3, <1>8, <1>9 DEF Alike
<1>11. hs[id].torn = heads[id].torn
  <2> DEFINE h == heads[id]
             g == hs[id]
  <2>0. h \in FragmentHead
    BY <1>1, <1>2
  <2>1. g = Referred(h, g) /\ g.ref \in Nat /\ g.freed \in BOOLEAN
    BY <1>2, <1>7 DEF Insertion
  <2> HIDE DEF h, g
  <2>2. g.torn = h.torn
    BY <2>0, <2>1, ReferredIs
  <2> QED
    BY <2>2 DEF g, h
<1> QED
  BY <1>2, <1>3, <1>5, <1>7, <1>8, <1>10, <1>11

LEMMA Late ==
    ASSUME Inv, Passes, setup.api = "fallback", table = 0, table' = 0, num < num',
           NEW fallback \in Frames, NEW id, id = done[fallback], id # 0,
           NEW hs, hs = Insert(heads, {num}, id), NEW x \in FragmentHead,
           heads' = [hs EXCEPT ![id] = x], done' = [done EXCEPT ![num] = id],
           x.ref = hs[id].ref, x.freed = hs[id].freed, x.defrag, x.reasIn = hs[id].reasIn, hs[id].frame <= x.frame,
           FramesIn(hs[id]) \subseteq FramesIn(x), FramesIn(x) \subseteq FramesIn(hs[id]) \cup {num},
           HeadFine(setup.api, x, FALSE, num'), Told(id, x.frame),
           \/ num \in FramesIn(x)
           \/ x.items = hs[id].items /\ \E k \in DOMAIN calls' : calls'[k].id = id /\ calls'[k].short /\ calls'[k].num = num
    PROVE  Inv'
<1>1. /\ id \in 1..Len(heads) /\ heads[id].defrag /\ ~heads[id].freed
      /\ Insertion(heads, hs, Led(done, {num}, id)) /\ ~hs[id].freed
      /\ HeadFine(setup.api, heads[id], FALSE, num)
  BY LateHead
<1>2. /\ num \in Nat /\ num' \in Nat /\ num <= num' /\ setup' = setup /\ setup'.api = setup.api
      /\ done \in [Frames -> 0..Len(heads)] /\ heads \in Seq(FragmentHead)
      /\ Len(heads) \in Nat /\ DOMAIN heads = 1..Len(heads)
  BY LenProperties DEF Inv, Typed, Passes
<1>3. num \in Frames
  <2>1. 0..num \subseteq Frames
    BY InFrames DEF Inv
  <2> QED
    BY <1>2, <2>1
<1>4. done' = Led(done, {num}, id)
  <2>1. \A f \in Frames : done'[f] = Led(done, {num}, id)[f]
    BY <1>2 DEF Led
  <2>2. DOMAIN done' = Frames /\ DOMAIN Led(done, {num}, id) = Frames
    BY <1>2 DEF Led
  <2>3. done' \in [Frames -> 0..Len(heads)] /\ Led(done, {num}, id) \in [Frames -> 0..Len(heads)]
    BY <1>1, <1>2, <1>3 DEF Led
  <2> QED
    BY <2>1, <2>3
<1>5. hs \in Seq(FragmentHead) /\ Len(hs) = Len(heads)
  BY <1>1 DEF Insertion
<1>6. /\ heads' \in Seq(FragmentHead) /\ Len(heads') = Len(heads) /\ heads'[id] = x
      /\ \A i \in 1..Len(heads) : i # id => heads'[i] = hs[i]
  <2>1. /\ heads' \in Seq(FragmentHead) /\ Len(heads') = Len(hs)
        /\ \A i \in 1..Len(hs) : heads'[i] = IF i = id THEN x ELSE hs[i]
    BY <1>1, <1>5, ExceptSeq
  <2> QED
    BY <1>1, <1>5, <2>1
<1>7. \A i \in 1..Len(heads) : Alike(heads[i], hs[i])
  BY <1>1, <1>2, InsertionIs
<1>8. \A i \in 1..Len(heads) : i # id => Alike(heads[i], heads'[i])
  BY <1>6, <1>7
<1>9. DOMAIN heads' = 1..Len(heads)
  BY <1>6, LenProperties
<1>10. Typed' /\ Frames' = Frames
  <2>1. done' \in [Frames -> 0..Len(heads')]
    BY <1>1, <1>2, <1>3, <1>6
  <2>2. table' \in 0..Len(heads')
    BY <1>2, <1>6
  <2> QED
    BY <1>6, <2>1, <2>2, TypedStays
<1>11. HeadsOK'
  <2> SUFFICES ASSUME NEW i \in 1..Len(heads)
               PROVE  HeadFine(setup.api, heads'[i], FALSE, num')
    <3>1. \A i \in 1..Len(heads) : (i = table') = FALSE
      BY <1>2
    <3> QED
      BY <1>2, <1>9, <3>1 DEF HeadsOK
  <2>1. CASE i = id
    BY <1>6, <2>1
  <2>2. CASE i # id
    <3>1. HeadFine(setup.api, heads[i], FALSE, num)
      <4>1. HeadFine(setup.api, heads[i], i = table, num)
        BY <1>2 DEF Inv, HeadsOK
      <4>2. (i = table) = FALSE
        BY <1>2
      <4> QED
        BY <4>1, <4>2
    <3>2. HeadFine(setup.api, heads[i], FALSE, num')
      BY <1>2, <3>1, FineLater
    <3> QED
      BY <1>8, <2>2, <3>2 DEF Alike
  <2> QED
    BY <2>1, <2>2
<1>12. TableOK'
  <2>1. setup'.api \in Checks
    BY <1>2 DEF Checks
  <2> QED
    BY <2>1 DEF TableOK
<1>13. CallsOK'
  <2>1. \A i \in 1..Len(heads) : heads[i].frame <= heads'[i].frame
    <3> TAKE i \in 1..Len(heads)
    <3>1. heads[i].frame \in Nat
      <4>1. heads[i] \in FragmentHead
        BY <1>2
      <4> QED
        BY <4>1 DEF FragmentHead
    <3>2. hs[i].frame = heads[i].frame
      BY <1>7 DEF Alike
    <3>3. CASE i = id
      BY <1>6, <3>2, <3>3
    <3>4. CASE i # id
      BY <1>6, <3>1, <3>2, <3>4
    <3> QED
      BY <3>3, <3>4
  <2>2. id \in 1..Len(heads') /\ Len(heads) <= Len(heads') /\ x.frame = heads'[id].frame
    BY <1>1, <1>2, <1>6
  <2> QED
    BY <1>2, <1>6, <2>1, <2>2, CallsStay
<1>14. RefsExact'
  <2>1. \A i \in 1..Len(heads) : Counted(hs[i], done', Frames, i)
    BY <1>1, <1>4 DEF Insertion
  <2>2. \A i \in 1..Len(heads) : Counted(heads'[i], done', Frames, i)
    <3> TAKE i \in 1..Len(heads)
    <3>1. heads'[i].ref = hs[i].ref /\ heads'[i].freed = hs[i].freed
      BY <1>6
    <3> QED
      BY <2>1, <3>1 DEF Counted
  <2> QED
    BY <1>9, <1>10, <2>2 DEF RefsExact, Counted, Leading
<1>15. FramesFindTheirs'
  <2>0. hs[id].reasIn = heads[id].reasIn /\ Members(hs[id]) = Members(heads[id])
    BY <1>1, <1>7 DEF Alike
  <2>1. ASSUME NEW f \in Frames, NEW i, i = done'[f], i # 0
        PROVE  heads'[i].defrag /\ f \in Members(heads'[i]) \cup {heads'[i].reasIn} \cup GivenUp(i)'
    <3>1. GivenUp(i) \subseteq GivenUp(i)'
      BY GivenUpStays
    <3>2. CASE f = num
      <4>1. i = id
        BY <1>2, <1>3, <2>1, <3>2
      <4>2. CASE num \in FramesIn(x)
        <5>1. num \in Members(x)
          <6>1. x.items # <<>>
            BY <4>2 DEF FramesIn
          <6> QED
            BY <4>2, <6>1 DEF Members, FramesIn
        <5> QED
          BY <1>6, <3>2, <4>1, <5>1
      <4>3. CASE \E k \in DOMAIN calls' : calls'[k].id = id /\ calls'[k].short /\ calls'[k].num = num
        <5>1. num \in GivenUp(i)'
          BY <4>1, <4>3, GivenUpStays
        <5> QED
          BY <1>6, <3>2, <4>1, <5>1
      <4> QED
        BY <4>2, <4>3
    <3>3. CASE f # num
      <4>1. i = done[f]
        BY <1>2, <2>1, <3>3
      <4>2. heads[i].defrag /\ f \in Members(heads[i]) \cup {heads[i].reasIn} \cup GivenUp(i)
        BY <2>1, <4>1 DEF Inv, FramesFindTheirs
      <4>3. i \in 1..Len(heads)
        BY <1>2, <2>1, <4>1
      <4>4. CASE i # id
        <5>1. /\ heads'[i].defrag = heads[i].defrag /\ heads'[i].reasIn = heads[i].reasIn
              /\ Members(heads'[i]) = Members(heads[i])
          BY <1>8, <4>3, <4>4 DEF Alike
        <5> QED
          BY <3>1, <4>2, <5>1
      <4>5. CASE i = id
        <5>1. Members(hs[id]) \subseteq Members(x) \cup {x.reasIn}
          <6>1. CASE hs[id].items = <<>>
            BY <6>1 DEF Members
          <6>2. CASE hs[id].items # <<>>
            <7>1. Members(hs[id]) = FramesIn(hs[id])
              BY <6>2 DEF Members, FramesIn
            <7>2. FramesIn(x) \subseteq Members(x)
              BY DEF Members, FramesIn
            <7> QED
              BY <7>1, <7>2
          <6> QED
            BY <6>1, <6>2
        <5>2. heads'[i] = x /\ f \in Members(hs[id]) \cup {hs[id].reasIn} \cup GivenUp(i)
          BY <1>6, <2>0, <4>2, <4>5
        <5>3. x.defrag /\ x.reasIn = hs[id].reasIn
          BY <2>0
        <5> QED
          BY ONLY <3>1, <5>1, <5>2, <5>3
      <4> QED
        BY <4>4, <4>5
    <3> QED
      BY <3>2, <3>3
  <2>2. ASSUME NEW i \in 1..Len(heads), heads'[i].defrag,
               ~(heads'[i].error /\ heads'[i].freed), NEW f \in Members(heads'[i])
        PROVE  done'[f] >= i
    <3>1. ASSUME NEW g \in Members(heads[i]), ~(heads[i].error /\ heads[i].freed), heads[i].defrag
          PROVE  g \in Frames /\ g # num /\ done[g] >= i /\ done'[g] = done[g]
      <4>1. HeadFine(setup.api, heads[i], i = table, num)
        BY <1>2 DEF Inv, HeadsOK
      <4>2. FramesIn(heads[i]) \cup {heads[i].reasIn} \subseteq 0..(num - 1)
        BY <4>1 DEF HeadFine
      <4>3. Members(heads[i]) \subseteq FramesIn(heads[i]) \cup {heads[i].reasIn}
        BY DEF Members, FramesIn
      <4>4. g \in 0..(num - 1)
        BY <3>1, <4>2, <4>3
      <4>8. g \in 0..num /\ g # num
        BY <1>2, <4>4
      <4>5. g \in Frames
        BY <4>8, InFrames DEF Inv
      <4>6. setup.api \in Checks /\ i # table
        BY <1>2 DEF Checks
      <4>7. done[g] >= i
        BY <1>2, <3>1, <4>6 DEF Inv, FramesFindTheirs
      <4> QED
        BY <1>2, <4>5, <4>7, <4>8
    <3>2. CASE i # id
      <4>1. /\ heads'[i].defrag = heads[i].defrag /\ heads'[i].error = heads[i].error
            /\ Members(heads'[i]) = Members(heads[i])
            /\ heads[i].freed => heads'[i].freed
        BY <1>8, <3>2 DEF Alike
      <4> QED
        BY <2>2, <3>1, <4>1
    <3>3. CASE i = id
      <4>1. CASE f = num
        <5>1. done'[f] = id
          BY <1>2, <1>3, <4>1
        <5> QED
          BY <1>1, <1>2, <3>3, <5>1
      <4>2. CASE f # num
        <5>1. f \in Members(hs[id])
          <6>0. f \in Members(x)
            BY <1>6, <2>2, <3>3
          <6>1. CASE num \in FramesIn(x)
            <7>1. x.items # <<>>
              BY <6>1 DEF FramesIn
            <7>2. f \in FramesIn(x)
              BY <6>0, <7>1 DEF Members, FramesIn
            <7>3. f \in FramesIn(hs[id])
              BY <4>2, <7>2
            <7>4. hs[id].items # <<>>
              <8> DEFINE y == hs[id]
              <8>1. f \in FramesIn(y)
                BY <7>3
              <8> HIDE DEF y
              <8>2. y.items # <<>>
                BY <8>1 DEF FramesIn
              <8> QED
                BY <8>2 DEF y
            <7>5. Members(hs[id]) = FramesIn(hs[id])
              BY <7>4 DEF Members, FramesIn
            <7> QED
              BY <7>3, <7>5
          <6>2. CASE x.items = hs[id].items
            <7>1. Members(x) = Members(hs[id])
              BY <6>2 DEF Members
            <7> QED
              BY <6>0, <7>1
          <6> QED
            BY <6>1, <6>2
        <5>2. f \in Members(heads[i])
          BY <2>0, <3>3, <5>1
        <5> QED
          BY <1>1, <3>1, <3>3, <5>2
      <4> QED
        BY <4>1, <4>2
    <3> QED
      BY <3>2, <3>3
  <2>3. \A f \in Frames :
            done'[f] # 0 =>
               /\ heads'[done'[f]].defrag
               /\ f \in Members(heads'[done'[f]]) \cup {heads'[done'[f]].reasIn}
                         \cup {calls'[k].num : k \in {j \in DOMAIN calls' : calls'[j].id = done'[f] /\ calls'[j].short}}
    <3> TAKE f \in Frames
    <3> HAVE done'[f] # 0
    <3>1. PICK i : i = done'[f]
      OBVIOUS
    <3>2. heads'[i].defrag /\ f \in Members(heads'[i]) \cup {heads'[i].reasIn} \cup GivenUp(i)'
      BY <2>1, <3>1
    <3> QED
      BY <3>1, <3>2 DEF GivenUp
  <2> QED
    BY <1>2, <1>9, <1>10, <2>2, <2>3 DEF FramesFindTheirs, GivenUp
<1> QED
  BY <1>10, <1>11, <1>12, <1>13, <1>14, <1>15 DEF Inv

(* What is noted of a call.                                                *)
LEMMA Logged ==
    ASSUME Inv, Len(calls) < setup.calls, NEW c \in CallOf, NEW id \in Nat, NEW r, r.h \in FragmentHead,
           r.done \in BOOLEAN, r.thrown \in BOOLEAN, heads' \in Seq(FragmentHead), Log(c, id, r), NEW frame,
           r.done /\ ~Seq_ => c.from <= frame, r.done /\ setup.api \in Checks => id # table'
    PROVE  /\ Told(id, frame) /\ Len(calls') = Len(calls) + 1
           /\ \E k \in DOMAIN calls' : calls'[k].id = id /\ calls'[k].short = c.short /\ calls'[k].num = c.num
<1> DEFINE n == Len(calls)
           before == IF id \in DOMAIN heads THEN Len(heads[id].items) ELSE 0
           late == Len(r.h.items) > before
           past == "toolong" \in r.h.flags
           e == [c EXCEPT !.id = id, !.added = late, !.thrown = r.thrown, !.returned = r.done, !.toolong = past]
<1>1. calls \in Seq(CallOf) /\ n \in Nat /\ DOMAIN calls = 1..n /\ setup.calls \in Nat
  BY LenProperties, SetupIs DEF Inv, Typed
<1>2. calls' = Append(calls, e)
  BY DEF Log
<1>3. late \in BOOLEAN /\ past \in BOOLEAN
  OBVIOUS
<1> HIDE DEF late, past
<1>4. /\ e \in CallOf /\ e.id = id /\ e.short = c.short /\ e.num = c.num /\ e.from = c.from /\ e.returned = r.done
  BY <1>3 DEF CallOf
<1> HIDE DEF e
<1>5. /\ calls' \in Seq(CallOf) /\ Len(calls') = n + 1 /\ calls'[n + 1] = e
      /\ \A k \in 1..n : calls'[k] = calls[k]
      /\ DOMAIN calls' = 1..(n + 1)
  <2>1. /\ calls' \in Seq(CallOf) /\ Len(calls') = n + 1 /\ calls'[n + 1] = e
        /\ \A k \in 1..n : calls'[k] = calls[k]
    BY <1>1, <1>2, <1>4, AppendProperties
  <2> QED
    BY <2>1, LenProperties
<1>6. given' \in Seq(Data) /\ Len(given') = Len(heads')
  <2> DEFINE g(i) == IF i = id /\ r.done THEN r.h.data ELSE IF i \in DOMAIN given THEN given[i] ELSE NoData
  <2>1. given' = [i \in DOMAIN heads' |-> g(i)]
    BY DEF Log
  <2>2. Len(heads') \in Nat /\ DOMAIN heads' = 1..Len(heads')
    BY LenProperties
  <2>3. ASSUME NEW i
        PROVE  g(i) \in Data
    <3>1. NoData \in Data
      BY DEF NoData, Data, Byte
    <3>2. r.h.data \in Data
      BY DEF FragmentHead
    <3>3. i \in DOMAIN given => given[i] \in Data
      <4>1. given \in Seq(Data)
        BY DEF Inv, Typed
      <4> QED
        BY <4>1
    <3> QED
      BY <3>1, <3>2, <3>3
  <2> HIDE DEF g
  <2>4. given' \in [1..Len(heads') -> Data]
    BY <2>1, <2>2, <2>3
  <2> QED
    BY <2>2, <2>4, FunctionIsSeq
<1>7. DOMAIN calls' \ DOMAIN calls = {n + 1}
  BY <1>1, <1>5
<1>8. Told(id, frame)
  <2>1. Len(calls') <= setup.calls /\ Len(calls) <= Len(calls')
    BY <1>1, <1>5
  <2> QED
    BY <1>1, <1>4, <1>5, <1>6, <1>7, <2>1 DEF Told
<1>9. n + 1 \in DOMAIN calls'
  BY <1>1, <1>5
<1> QED
  BY <1>4, <1>5, <1>8, <1>9

LEMMA GoingWorked ==
    ASSUME NEW h \in FragmentHead, ListOK(h), ~h.torn, NEW frame, NEW in
    PROVE  Worked(h, frame, in, Going(h))
<1>1. h.gap \in 0..Len(h.items) /\ h.frame \in Nat
  BY DEF ListOK, GapExact, FragmentHead
<1> QED
  BY <1>1 DEF Worked, Going

(* A fragment is added now, from a frame there has been.                    *)
Adding(c) ==
    /\ Calm /\ Len(calls) < setup.calls /\ c \in CallOf /\ c.num = num /\ c.from \in 1..num
    /\ setup' = setup /\ num' \in {num, num + 1} /\ (setup.api = "fallback" => num' = num + 1)

LEMMA AddingIs ==
    ASSUME Inv, NEW c, Adding(c)
    PROVE  /\ num \in Nat /\ num' \in Nat /\ num <= num' /\ (setup.api = "fallback" => num < num')
           /\ c.from \in 0..num /\ c.num \in 0..num /\ setup.calls \in Nat
           /\ Base[Current] \in FragmentHead /\ HeadFine(setup.api, Base[Current], TRUE, num)
           /\ ListOK(Base[Current]) /\ ~Base[Current].torn
<1>1. num \in Nat
  BY DEF Inv, Typed
<1>2. num' \in Nat /\ num <= num' /\ (setup.api = "fallback" => num < num') /\ c.from \in 0..num /\ c.num \in 0..num
  BY <1>1 DEF Adding
<1>3. Base[Current] \in FragmentHead /\ HeadFine(setup.api, Base[Current], TRUE, num)
  BY BaseIs
<1>4. ~Base[Current].torn
  <2>1. CASE table = 0
    <3>1. Base[Current] = NewHead(Seq_)
      BY <2>1, BaseIs
    <3> QED
      BY <3>1 DEF NewHead
  <2>2. CASE table # 0
    <3>1. Base[Current] = heads[table]
      BY <2>2 DEF Base, Current
    <3>2. table \in DOMAIN heads
      BY <2>2, LenProperties DEF Inv, Typed
    <3> QED
      BY <3>1, <3>2 DEF Adding, Calm
  <2> QED
    BY <2>1, <2>2
<1>5. ListOK(Base[Current])
  BY <1>3, <1>4 DEF HeadFine
<1>6. setup.calls \in Nat
  BY SetupIs DEF Inv
<1> QED
  BY <1>1, <1>2, <1>3, <1>4, <1>5, <1>6

(* What work on a head may come to, for its caller.                        *)
Fair(api, h, current, r) ==
    /\ api \notin BySeq => Sized(r.h)
    /\ api \in Checks \cap BySeq /\ current /\ ~r.done => ~r.h.defrag /\ ~r.h.torn /\ Backed(r.h)

LEMMA AddStays ==
    ASSUME Inv, NEW c, Adding(c), NEW e \in CallOf, e.from = c.from, NEW r, NEW frame \in {c.from, c.num},
           ~Seq_ => frame = c.from, Worked(Base[Current], frame, c.num, r), Fair(setup.api, Base[Current], TRUE, r),
           heads' = [Base EXCEPT ![Current] = r.h], table' = Current, done' = done, Log(e, Current, r),
           setup.api \in Checks => ~r.done
    PROVE  Inv'
<1> DEFINE h == Base[Current]
           x == r.h
<1>1. /\ num \in Nat /\ num' \in Nat /\ num <= num' /\ (setup.api = "fallback" => num < num')
      /\ c.from \in 0..num /\ c.num \in 0..num
      /\ h \in FragmentHead /\ HeadFine(setup.api, h, TRUE, num)
  BY AddingIs
<1>2. /\ Base \in Seq(FragmentHead) /\ Current = Len(Base) /\ Current \in 1..Len(Base)
  BY BaseIs
<1>3. /\ x \in FragmentHead /\ r.done \in BOOLEAN /\ r.thrown \in BOOLEAN /\ x.ref = h.ref /\ x.freed = h.freed
      /\ h.frame <= x.frame /\ (r.done => frame <= x.frame)
  <2>1. /\ x \in FragmentHead /\ r.done \in BOOLEAN /\ r.thrown \in BOOLEAN /\ x.ref = h.ref /\ x.freed = h.freed
        /\ x.frame >= h.frame /\ (r.done => x.frame >= frame)
    BY DEF Worked
  <2>2. frame \in Nat
    BY <1>1
  <2> HIDE DEF x, h
  <2>3. x.frame \in Nat /\ h.frame \in Nat
    BY <1>1, <2>1 DEF FragmentHead
  <2> QED
    BY <2>1, <2>2, <2>3
<1>4. HeadFine(setup.api, x, TRUE, num')
  BY <1>1, WorkedFine DEF Fair
<1>5. heads' \in Seq(FragmentHead) /\ Len(heads') = Current
  <2>1. heads' = [Base EXCEPT ![Current] = x]
    OBVIOUS
  <2> HIDE DEF x
  <2> QED
    BY <1>2, <1>3, <2>1, ExceptSeq
<1>6. /\ Told(Current, x.frame) /\ Len(calls') = Len(calls) + 1
  <2>1. r.done /\ ~Seq_ => e.from <= x.frame
    BY <1>3
  <2>2. Len(calls) < setup.calls /\ Current \in Nat
    BY <1>2 DEF Adding
  <2> HIDE DEF x
  <2>3. r.h \in FragmentHead
    BY <1>3 DEF x
  <2> QED
    BY <1>3, <1>5, <2>1, <2>2, <2>3, Logged
<1>7. Passes
  <2>1. num + (IF table # 0 THEN 1 ELSE 0) <= 2 * Len(calls) + 1 /\ Len(calls) \in Nat
    BY LenProperties DEF Inv, Typed
  <2>2. num' \in {num, num + 1} /\ setup' = setup
    BY DEF Adding
  <2>3. num' + (IF table' # 0 THEN 1 ELSE 0) <= 2 * Len(calls') + 1
    BY <1>1, <1>6, <2>1, <2>2
  <2> QED
    BY <1>1, <2>2, <2>3 DEF Passes
<1> HIDE DEF x, h
<1>8. heads' = [Base EXCEPT ![Current] = x] /\ x.ref = Base[Current].ref /\ x.freed = Base[Current].freed
      /\ Base[Current].frame <= x.frame
  BY <1>3 DEF x, h
<1> QED
  BY <1>3, <1>4, <1>6, <1>7, <1>8, Stays

LEMMA AddLeaves ==
    ASSUME Inv, setup.api \in Checks, NEW c, Adding(c), NEW e \in CallOf, NEW r, r.done = TRUE, r.thrown \in BOOLEAN,
           NEW x \in FragmentHead, x = r.h, x.ref = 0, ~x.freed, x.defrag, Base[Current].frame <= x.frame,
           ~Seq_ => e.from <= x.frame, HeadFine(setup.api, x, FALSE, num'),
           FramesOf(x) = Members(x), Members(x) \subseteq 0..num,
           NEW hs, hs = [Base EXCEPT ![Current] = x], Reassembled(hs, Current), table' = 0, Log(e, Current, r)
    PROVE  Inv'
<1>1. num \in Nat /\ num' \in Nat /\ num <= num'
  BY AddingIs
<1>2. /\ Base \in Seq(FragmentHead) /\ Current = Len(Base) /\ Current \in 1..Len(Base)
  BY BaseIs
<1>3. hs \in Seq(FragmentHead) /\ Len(hs) = Current /\ hs[Current] = x
  BY <1>2, ExceptSeq
<1> DEFINE frames == Members(x)
           gs == [hs EXCEPT ![Current].ref = 0]
<1>4. gs = hs
  <2>1. [x EXCEPT !.ref = 0] = x
    BY DEF FragmentHead
  <2>2. gs = [hs EXCEPT ![Current] = [hs[Current] EXCEPT !.ref = 0]]
    OBVIOUS
  <2>3. gs = [hs EXCEPT ![Current] = x]
    BY <1>3, <2>1, <2>2
  <2> HIDE DEF gs
  <2>4. /\ gs \in Seq(FragmentHead) /\ Len(gs) = Len(hs)
        /\ \A i \in 1..Len(hs) : gs[i] = IF i = Current THEN x ELSE hs[i]
    BY <1>2, <1>3, <2>3, ExceptSeq
  <2>5. \A i \in 1..Len(hs) : gs[i] = hs[i]
    BY <1>3, <2>4
  <2> QED
    BY <1>3, <2>4, <2>5, SeqEqual
<1>5. heads' = Insert(gs, frames, Current) /\ done' = [f \in Frames |-> IF f \in frames THEN Current ELSE done[f]]
  BY <1>3 DEF Reassembled
<1>6. heads' = Insert(hs, frames, Current)
  BY <1>4, <1>5
<1>7. heads' \in Seq(FragmentHead)
  BY <1>6, CurrentInserted
<1>8. Told(Current, x.frame) /\ Len(calls') = Len(calls) + 1
  <2>1. Len(calls) < setup.calls /\ Current \in Nat
    BY <1>2 DEF Adding
  <2>2. Current # table'
    BY <1>2
  <2>3. r.h \in FragmentHead /\ r.done \in BOOLEAN
    OBVIOUS
  <2> QED
    BY <1>7, <2>1, <2>2, <2>3, Logged
<1>9. Passes
  <2>1. num + (IF table # 0 THEN 1 ELSE 0) <= 2 * Len(calls) + 1 /\ Len(calls) \in Nat
    BY LenProperties DEF Inv, Typed
  <2>2. num' \in {num, num + 1} /\ setup' = setup
    BY DEF Adding
  <2>3. num' + (IF table' # 0 THEN 1 ELSE 0) <= 2 * Len(calls') + 1
    BY <1>1, <1>8, <2>1, <2>2
  <2> QED
    BY <1>1, <2>2, <2>3 DEF Passes
<1>10. frames \in SUBSET (0..num) /\ frames \subseteq Members(x) \cup {x.reasIn} /\ Members(x) \subseteq frames
  OBVIOUS
<1> HIDE DEF frames
<1> QED
  BY <1>5, <1>6, <1>8, <1>9, <1>10, Leaves

LEMMA AddKeeps ==
    ASSUME Inv, NEW c, Adding(c), setup.api \in {"add", "multiple", "ooo"}, NEW check \in BOOLEAN, Add(c, check)
    PROVE  Inv'
<1> DEFINE h == Base[Current]
<1>1. /\ h \in FragmentHead /\ HeadFine(setup.api, h, TRUE, num) /\ ListOK(h) /\ ~h.torn
      /\ c.from \in 0..num /\ c.num \in 0..num /\ num \in Nat
  BY AddingIs
<1>2. setup.api \notin Checks /\ setup.api \notin BySeq
  BY DEF Checks, BySeq
<1>3. Sized(h)
  BY <1>1, <1>2 DEF HeadFine
<1>4. PICK r : /\ r = IF check /\ table # 0 /\ AlreadyAdded(h, c) THEN [Going(h) EXCEPT !.thrown = h.defrag]
                      ELSE AddWork(h, c, FALSE)
               /\ Put(Base, Current, r, c) /\ table' = Current /\ done' = done
  BY DEF Add, Base, Current
<1>5. c \in CallOf
  BY DEF Adding
<1> HIDE DEF h
<1>6. Worked(h, c.from, c.num, r) /\ Sized(r.h)
  <2>1. CASE r = [Going(h) EXCEPT !.thrown = h.defrag]
    <3>1. r = Going(h) \/ r = Throw(h)
      <4>1. h.defrag \in BOOLEAN
        BY <1>1 DEF FragmentHead
      <4> QED
        BY <2>1, <4>1 DEF Going, Throw
    <3>2. Worked(h, c.from, c.num, Going(h)) /\ Worked(h, c.from, c.num, Throw(h))
      BY <1>1, GoingWorked, TornWorked
    <3>3. r.h = h
      BY <3>1 DEF Going, Throw
    <3> QED
      BY <1>3, <3>1, <3>2, <3>3
  <2>2. CASE r = AddWork(h, c, FALSE)
    <3>1. Worked(h, c.from, c.num, AddWork(h, c, FALSE))
      BY <1>1, <1>5, AddWorked
    <3>2. Sized(r.h)
      BY <1>1, <1>3, <1>5, <2>2, AddSized
    <3> QED
      BY <2>2, <3>1, <3>2
  <2> QED
    BY <1>4, <2>1, <2>2
<1>7. Fair(setup.api, h, TRUE, r)
  BY <1>2, <1>6 DEF Fair
<1>8. heads' = [Base EXCEPT ![Current] = r.h] /\ Log(c, Current, r)
  BY <1>4 DEF Put
<1> QED
  BY <1>2, <1>4, <1>5, <1>6, <1>7, <1>8, AddStays DEF h

LEMMA NumberIs ==
    ASSUME Inv, NEW c \in CallOf
    PROVE  Number(c) \in Nat
<1>1. c.off \in Nat
  BY DEF CallOf
<1>2. ASSUME table # 0, heads[table].items # <<>>
      PROVE  Last(heads[table].items).off \in Nat
  <2>1. heads[table] \in FragmentHead
    BY <1>2, LenProperties DEF Inv, Typed
  <2>2. heads[table].items \in Seq(Item)
    BY <2>1 DEF FragmentHead
  <2> DEFINE items == heads[table].items
  <2>3. Len(items) \in 1..Len(items)
    BY <1>2, <2>2, EmptySeq, LenProperties
  <2>4. items[Len(items)] \in Item
    BY <2>2, <2>3
  <2> QED
    BY <2>4 DEF Last, Item
<1> QED
  BY <1>1, <1>2 DEF Number

LEMMA AddSeqKeeps ==
    ASSUME Inv, NEW c, Adding(c), setup.api = "seq", AddSeq(c)
    PROVE  Inv'
<1> DEFINE h == Base[Current]
           n == Number(c)
           e == [c EXCEPT !.off = n]
<1>1. /\ h \in FragmentHead /\ ListOK(h) /\ ~h.torn
      /\ c.from \in 0..num /\ c.num \in 0..num /\ num \in Nat
  BY AddingIs
<1>2. setup.api \notin Checks /\ setup.api \in BySeq
  BY DEF Checks, BySeq
<1>3. c \in CallOf /\ n \in Nat
  BY NumberIs DEF Adding
<1>4. PICK r : r = SeqWork(h, c, n) /\ Put(Base, Current, r, e) /\ table' = Current /\ done' = done
  BY DEF AddSeq, Base, Current
<1> HIDE DEF h, n
<1>5. e \in CallOf /\ e.from = c.from
  BY <1>3 DEF CallOf
<1>6. Worked(h, c.num, c.num, r)
  BY <1>1, <1>3, <1>4, SeqWorked
<1>7. Fair(setup.api, h, TRUE, r)
  BY <1>2 DEF Fair
<1>8. heads' = [Base EXCEPT ![Current] = r.h] /\ Log(e, Current, r)
  BY <1>4 DEF Put
<1>9. Seq_
  BY <1>2 DEF Seq_
<1> HIDE DEF e
<1> QED
  BY <1>2, <1>4, <1>5, <1>6, <1>7, <1>8, <1>9, AddStays DEF h

(* What is worked on to the end leaves the table.                          *)
LEMMA WorkedLeaves ==
    ASSUME Inv, setup.api \in Checks, NEW c, Adding(c), NEW e \in CallOf, e.from = c.from,
           NEW r, r.done, NEW frame \in {c.from, c.num}, ~Seq_ => frame = c.from,
           Worked(Base[Current], frame, c.num, r), Fair(setup.api, Base[Current], TRUE, r),
           NEW hs, hs = [Base EXCEPT ![Current] = r.h], Reassembled(hs, Current), table' = 0, Log(e, Current, r)
    PROVE  Inv'
<1> DEFINE h == Base[Current]
           x == r.h
<1>1. /\ num \in Nat /\ num' \in Nat /\ num <= num' /\ (setup.api = "fallback" => num < num')
      /\ c.from \in 0..num /\ c.num \in 0..num
      /\ h \in FragmentHead /\ HeadFine(setup.api, h, TRUE, num)
  BY AddingIs
<1>2. h.ref = 0 /\ ~h.freed
  BY BaseIs
<1>3. /\ x \in FragmentHead /\ r.thrown \in BOOLEAN /\ x.defrag
      /\ x.ref = h.ref /\ x.freed = h.freed /\ x.frame >= h.frame /\ x.frame >= frame /\ frame \in FramesIn(x)
      /\ FramesIn(x) \subseteq FramesIn(h) \cup {frame} /\ r.done = TRUE
  BY DEF Worked
<1>4. x.frame \in Nat /\ h.frame \in Nat /\ frame \in Nat
  <2>1. frame \in Nat
    BY <1>1
  <2> HIDE DEF x, h
  <2>2. x.frame \in Nat /\ h.frame \in Nat
    BY <1>1, <1>3 DEF FragmentHead
  <2> QED
    BY <2>1, <2>2
<1>5. HeadFine(setup.api, x, FALSE, num')
  BY <1>1, WorkedFine DEF Fair
<1>6. x.items # <<>>
  <2> HIDE DEF x
  <2> QED
    BY <1>3 DEF FramesIn
<1>7. Members(x) = FramesIn(x) /\ FramesOf(x) = FramesIn(x)
  BY <1>6 DEF Members, FramesOf, FramesIn
<1>8. Members(x) \subseteq 0..num
  <2>1. FramesIn(h) \subseteq 0..num
    BY <1>1 DEF HeadFine
  <2> HIDE DEF x, h
  <2> QED
    BY <1>1, <1>3, <1>7, <2>1
<1>9. hs = [Base EXCEPT ![Current] = x] /\ x = r.h
  OBVIOUS
<1>10. /\ x.ref = 0 /\ ~x.freed /\ Base[Current].frame <= x.frame /\ (~Seq_ => e.from <= x.frame)
  <2>1. h = Base[Current]
    OBVIOUS
  <2> HIDE DEF x, h
  <2> QED
    BY <1>2, <1>3, <1>4, <2>1
<1> HIDE DEF x, h
<1> QED
  BY <1>3, <1>5, <1>7, <1>8, <1>9, <1>10, AddLeaves

LEMMA AddCheckKeeps ==
    ASSUME Inv, NEW c, Adding(c), c.from = num, setup.api \in {"check", "fallback"}, NEW fallback \in 1..num,
           setup.api = "check" => fallback = num, AddCheck(c, fallback)
    PROVE  Inv'
<1> DEFINE late == table = 0 /\ fallback # num /\ done[fallback] # 0
<1>1. setup.api \in Checks /\ setup.api \notin BySeq /\ ~Seq_
  BY DEF Checks, BySeq, Seq_
<1>2. c \in CallOf /\ c.short \in BOOLEAN /\ num \in Nat /\ c.num = num
  BY AddingIs DEF Adding, CallOf
<1>3. CASE ~late
  <2> DEFINE h == Base[Current]
  <2>1. /\ h \in FragmentHead /\ HeadFine(setup.api, h, TRUE, num) /\ ListOK(h) /\ ~h.torn
    BY AddingIs
  <2>2. Sized(h)
    BY <1>1, <2>1 DEF HeadFine
  <2>3. PICK r, new : /\ r = IF c.short THEN Going(h) ELSE AddWork(h, c, FALSE)
                      /\ new = [Base EXCEPT ![Current] = r.h]
                      /\ IF r.done THEN Reassembled(new, Current) /\ table' = 0
                         ELSE heads' = new /\ table' = Current /\ done' = done
                      /\ Log(c, Current, r)
    BY <1>3 DEF AddCheck, Base, Current
  <2> HIDE DEF h
  <2>4. Worked(h, c.from, c.num, r) /\ Sized(r.h)
    <3>1. CASE r = Going(h)
      <4>1. Worked(h, c.from, c.num, Going(h))
        BY <2>1, GoingWorked
      <4> QED
        BY <2>2, <3>1, <4>1 DEF Going
    <3>2. CASE r = AddWork(h, c, FALSE)
      <4>1. Worked(h, c.from, c.num, AddWork(h, c, FALSE))
        BY <1>2, <2>1, AddWorked
      <4>2. Sized(r.h)
        BY <1>2, <2>1, <2>2, <3>2, AddSized
      <4> QED
        BY <3>2, <4>1, <4>2
    <3> QED
      BY <2>3, <3>1, <3>2
  <2>5. Fair(setup.api, h, TRUE, r)
    BY <1>1, <2>4 DEF Fair
  <2>6. CASE r.done
    BY <1>1, <1>2, <2>3, <2>4, <2>5, <2>6, WorkedLeaves DEF h
  <2>7. CASE ~r.done
    BY <1>1, <1>2, <2>3, <2>4, <2>5, <2>7, AddStays DEF h
  <2> QED
    BY <2>6, <2>7
<1>4. CASE late
  <2>1. PICK id, hs, r : /\ id = done[fallback] /\ hs = Insert(heads, {num}, id)
                         /\ r = IF c.short THEN Going(hs[id]) ELSE AddWork(hs[id], c, TRUE)
                         /\ heads' = [hs EXCEPT ![id] = r.h] /\ done' = [done EXCEPT ![num] = id] /\ table' = table
                         /\ Log(c, id, r)
    BY <1>4 DEF AddCheck
  <2>2. setup.api = "fallback" /\ table = 0 /\ id # 0
    BY <1>4, <2>1
  <2>3. fallback \in Frames
    <3>1. fallback \in 0..num
      BY <1>2
    <3> QED
      BY <3>1, InFrames DEF Inv
  <2>4. /\ id \in 1..Len(heads) /\ Insertion(heads, hs, Led(done, {num}, id)) /\ ~hs[id].freed
        /\ HeadFine(setup.api, hs[id], FALSE, num) /\ hs[id] \in FragmentHead
        /\ hs[id].defrag /\ hs[id].torn = heads[id].torn
    BY <2>1, <2>2, <2>3, LateHead
  <2> DEFINE h == hs[id]
             x == r.h
  <2>5. /\ h \in FragmentHead /\ HeadFine(setup.api, h, FALSE, num) /\ ~h.torn /\ ListOK(h) /\ Sized(h) /\ h.defrag
        /\ ~h.partial
    <3>1. ~heads[id].torn
      <4>1. id \in DOMAIN heads
        BY <2>4, LenProperties DEF Inv, Typed
      <4> QED
        BY <4>1 DEF Adding, Calm
    <3> QED
      BY <1>1, <2>4, <3>1 DEF HeadFine
  <2>6. r = IF c.short THEN Going(h) ELSE AddWork(h, c, TRUE)
    BY <2>1
  <2> HIDE DEF h
  <2>7. Worked(h, c.from, c.num, r) /\ Sized(r.h) /\ (~c.short => r.done) /\ (c.short => r.h = h)
    <3>1. CASE c.short
      <4>1. Worked(h, c.from, c.num, Going(h))
        BY <2>5, GoingWorked
      <4>2. r = Going(h) /\ r.h = h
        BY <2>6, <3>1 DEF Going
      <4> QED
        BY <2>5, <3>1, <4>1, <4>2
    <3>2. CASE ~c.short
      <4> DEFINE w == AddWork(h, c, TRUE)
      <4>1. /\ Worked(h, c.from, c.num, w)
            /\ TRUE /\ h.defrag /\ ~h.partial => w.done
        BY <1>2, <2>5, AddWorked, Zenon
      <4>2. r = w
        BY <2>6, <3>2
      <4>3. Sized(r.h)
        BY <1>2, <2>5, <4>2, AddSized
      <4> HIDE DEF w
      <4> QED
        BY <2>5, <3>2, <4>1, <4>2, <4>3
    <3> QED
      BY <3>1, <3>2
  <2>8. /\ x \in FragmentHead /\ r.done \in BOOLEAN /\ r.thrown \in BOOLEAN
        /\ x.ref = h.ref /\ x.freed = h.freed /\ x.frame >= h.frame /\ (r.done => x.frame >= c.from /\ c.from \in FramesIn(x))
        /\ FramesIn(x) \subseteq FramesIn(h) \cup {c.from} /\ x.defrag /\ x.reasIn = h.reasIn
        /\ FramesIn(h) \subseteq FramesIn(x)
    BY <2>5, <2>7 DEF Worked
  <2>9. Fair(setup.api, h, FALSE, r)
    BY <1>1, <2>7 DEF Fair
  <2>10. num' \in Nat /\ num' = num + 1 /\ num <= num' /\ num < num' /\ setup' = setup
    BY <1>2, <2>2 DEF Adding
  <2>11. HeadFine(setup.api, x, FALSE, num')
    <3>1. c.from \in 0..num /\ c.num \in 0..num
      BY <1>2
    <3> QED
      BY <1>2, <2>5, <2>7, <2>9, <2>10, <3>1, WorkedFine DEF Fair
  <2>12. x.frame \in Nat /\ h.frame \in Nat /\ c.from \in Nat
    <3> HIDE DEF x
    <3> QED
      BY <1>2, <2>5, <2>8 DEF FragmentHead
  <2>13. heads' \in Seq(FragmentHead)
    <3>1. hs \in Seq(FragmentHead) /\ id \in 1..Len(hs)
      BY <2>4 DEF Insertion
    <3>2. heads' = [hs EXCEPT ![id] = x]
      BY <2>1
    <3> HIDE DEF x
    <3> QED
      BY <2>8, <3>1, <3>2, ExceptSeq
  <2>14. /\ Told(id, x.frame) /\ Len(calls') = Len(calls) + 1
         /\ \E k \in DOMAIN calls' : calls'[k].id = id /\ calls'[k].short = c.short /\ calls'[k].num = c.num
    <3>1. Len(calls) < setup.calls
      BY DEF Adding
    <3>2. id \in Nat /\ id # table'
      <4>1. Len(heads) \in Nat
        BY LenProperties DEF Inv, Typed
      <4> QED
        BY <2>1, <2>2, <2>4, <4>1
    <3>3. r.done /\ ~Seq_ => c.from <= x.frame
      BY <2>8, <2>12
    <3>4. r.h \in FragmentHead
      BY <2>8
    <3> HIDE DEF x
    <3> QED
      <4>1. /\ Inv /\ Len(calls) < setup.calls /\ c \in CallOf /\ id \in Nat /\ r.h \in FragmentHead
            /\ r.done \in BOOLEAN /\ r.thrown \in BOOLEAN /\ heads' \in Seq(FragmentHead) /\ Log(c, id, r)
            /\ (r.done /\ ~Seq_ => c.from <= x.frame) /\ (r.done /\ setup.api \in Checks => id # table')
        BY <1>2, <2>1, <2>8, <2>13, <3>1, <3>2, <3>3, <3>4
      <4> QED
        BY ONLY <4>1, Logged
  <2>15. Passes
    <3>1. num + (IF table # 0 THEN 1 ELSE 0) <= 2 * Len(calls) + 1 /\ Len(calls) \in Nat
      BY LenProperties DEF Inv, Typed
    <3>2. num' + (IF table' # 0 THEN 1 ELSE 0) <= 2 * Len(calls') + 1
      BY <1>2, <2>1, <2>2, <2>10, <2>14, <3>1
    <3> QED
      BY <2>10, <3>2 DEF Passes
  <2>16. \/ num \in FramesIn(x)
         \/ /\ x.items = h.items
            /\ \E k \in DOMAIN calls' : calls'[k].id = id /\ calls'[k].short /\ calls'[k].num = num
    BY <1>2, <2>7, <2>8, <2>14
  <2>17. heads' = [hs EXCEPT ![id] = x] /\ table' = 0 /\ h.frame <= x.frame
    <3>1. heads' = [hs EXCEPT ![id] = x] /\ table' = 0
      BY <2>1, <2>2
    <3>2. x.frame >= h.frame
      BY <2>8
    <3> HIDE DEF x
    <3> QED
      BY <2>12, <3>1, <3>2
  <2>18. h = hs[id]
    BY DEF h
  <2>19. FramesIn(x) \subseteq FramesIn(h) \cup {num}
    BY <2>8
  <2> HIDE DEF x
  <2>20. /\ x \in FragmentHead /\ x.ref = hs[id].ref /\ x.freed = hs[id].freed /\ x.defrag /\ x.reasIn = hs[id].reasIn
         /\ hs[id].frame <= x.frame /\ FramesIn(hs[id]) \subseteq FramesIn(x)
         /\ FramesIn(x) \subseteq FramesIn(hs[id]) \cup {num}
         /\ \/ num \in FramesIn(x)
            \/ /\ x.items = hs[id].items
               /\ \E k \in DOMAIN calls' : calls'[k].id = id /\ calls'[k].short /\ calls'[k].num = num
    BY <2>8, <2>16, <2>17, <2>18, <2>19
  <2>21. id = done[fallback] /\ hs = Insert(heads, {num}, id) /\ done' = [done EXCEPT ![num] = id]
    BY <2>1
  <2>22. Told(id, x.frame) /\ num < num' /\ heads' = [hs EXCEPT ![id] = x] /\ table' = 0
    BY <2>10, <2>14, <2>17
  <2> QED
    BY ONLY Inv, <2>2, <2>3, <2>11, <2>15, <2>20, <2>21, <2>22, Late
<1> QED
  BY <1>3, <1>4

(* A last fragment that needs no others.                                   *)
SingleHead(h, n, in) == [h EXCEPT !.len = n, !.defrag = TRUE, !.reasIn = in]

LEMMA SingleKeeps ==
    ASSUME Inv, NEW c, Adding(c), setup.api \in {"seqcheck", "seqnext", "802.11"}, table = 0, NEW e \in CallOf,
           NEW x, x = SingleHead(Base[Current], c.len, num), NEW r, r = Whole(x),
           NEW hs, hs = [Base EXCEPT ![Current] = x], Reassembled(hs, Current), table' = 0, Log(e, Current, r)
    PROVE  Inv'
<1>1. setup.api \in Checks /\ setup.api \in BySeq /\ Seq_ /\ setup.api # "fallback"
  BY DEF Checks, BySeq, Seq_
<1>2. /\ num \in Nat /\ num' \in Nat /\ num <= num' /\ Base[Current] \in FragmentHead
      /\ HeadFine(setup.api, Base[Current], TRUE, num)
  BY AddingIs
<1>3. Base[Current] = NewHead(Seq_)
  BY BaseIs
<1>4. c.len \in Nat
  BY ModulusAssumption DEF Adding, CallOf, Length
<1> DEFINE h == Base[Current]
<1>5. /\ h.items = <<>> /\ h.gap = 0 /\ h.contig = 0 /\ h.frame = 0 /\ h.seq = Seq_ /\ ~h.torn /\ ~h.partial
      /\ h.ref = 0 /\ ~h.freed /\ ListOK(h)
  <2>1. ListOK(h)
    BY AddingIs
  <2> QED
    BY <1>3, <2>1 DEF NewHead
<1>6. x = SingleHead(h, c.len, num) /\ h \in FragmentHead
  BY <1>2
<1> HIDE DEF h
<1>7. /\ x \in FragmentHead /\ x.items = <<>> /\ x.gap = 0 /\ x.contig = 0 /\ x.frame = 0 /\ x.seq = Seq_ /\ ~x.torn
      /\ ~x.partial /\ x.ref = 0 /\ ~x.freed /\ x.defrag /\ x.reasIn = num
  BY <1>2, <1>4, <1>5, <1>6 DEF SingleHead, FragmentHead
<1>8. ListOK(x)
  BY <1>5, <1>7 DEF ListOK, Sorted, GapExact
<1>9. Members(x) = {num} /\ FramesOf(x) = {num} /\ FramesIn(x) = {}
  BY <1>7 DEF Members, FramesOf, FramesIn
<1>10. HeadFine(setup.api, x, FALSE, num')
  <2>1. x.gap \in 0..Len(x.items)
    BY <1>7
  <2>2. FramesIn(x) \cup {x.frame, x.reasIn} \subseteq 0..num'
    BY <1>2, <1>7, <1>9
  <2> QED
    BY <1>1, <1>7, <1>8, <2>1, <2>2 DEF HeadFine, Seq_
<1>11. Members(x) \subseteq 0..num /\ FramesOf(x) = Members(x) /\ x = r.h /\ r.done = TRUE /\ r.thrown \in BOOLEAN
  BY <1>2, <1>9 DEF Whole
<1>12. Base[Current].frame <= x.frame
  BY <1>5, <1>7 DEF h
<1> QED
  BY <1>1, <1>7, <1>10, <1>11, <1>12, AddLeaves

LEMMA AddSeqCheckKeeps ==
    ASSUME Inv, NEW c, Adding(c), setup.api \in {"seqcheck", "seqnext", "802.11"}, AddSeqCheck(c)
    PROVE  Inv'
<1> DEFINE h == Base[Current]
           n == Number(c)
           off == IF Single(c) THEN 0 ELSE n
           e == [c EXCEPT !.off = off]
<1>1. /\ setup.api \in Checks /\ setup.api \in BySeq /\ Seq_
  BY DEF Checks, BySeq, Seq_
<1>2. /\ h \in FragmentHead /\ ListOK(h) /\ ~h.torn /\ HeadFine(setup.api, h, TRUE, num)
      /\ c.from \in 0..num /\ c.num \in 0..num /\ num \in Nat
  BY AddingIs
<1>3. c \in CallOf /\ n \in Nat
  BY NumberIs DEF Adding
<1>4. off \in Nat
  BY <1>3
<1>5. PICK r, new : /\ r = IF Single(c) THEN Whole([h EXCEPT !.len = c.len, !.defrag = TRUE, !.reasIn = num])
                           ELSE SeqWork(h, c, n)
                    /\ new = [Base EXCEPT ![Current] = r.h]
                    /\ IF r.done THEN Reassembled(new, Current) /\ table' = 0
                       ELSE heads' = new /\ table' = Current /\ done' = done
                    /\ Log(e, Current, r)
  BY DEF AddSeqCheck, Base, Current
<1> HIDE DEF n, off
<1>6. e \in CallOf /\ e.from = c.from
  BY <1>3, <1>4 DEF CallOf
<1> HIDE DEF e
<1>7. CASE Single(c)
  <2>1. PICK x : x = SingleHead(Base[Current], c.len, num)
    OBVIOUS
  <2>2. r = Whole(x)
    BY <1>5, <1>7, <2>1 DEF SingleHead
  <2>3. r.done /\ r.h = x
    BY <2>2 DEF Whole
  <2>4. new = [Base EXCEPT ![Current] = x] /\ Reassembled(new, Current) /\ table' = 0 /\ Log(e, Current, r)
    BY <1>5, <2>3
  <2>5. table = 0
    BY <1>7 DEF Single
  <2> HIDE DEF h
  <2> QED
    BY <1>6, <2>1, <2>2, <2>4, <2>5, SingleKeeps
<1>8. CASE ~Single(c)
  <2>1. r = SeqWork(h, c, n)
    BY <1>5, <1>8
  <2> HIDE DEF h
  <2>2. ~h.defrag /\ Backed(h)
    BY <1>1, <1>2 DEF HeadFine
  <2>3. Worked(h, c.num, c.num, r)
    BY <1>2, <1>3, <2>1, SeqWorked
  <2>4. ~r.done => ~r.h.defrag /\ ~r.h.torn /\ Backed(r.h)
    BY <1>2, <1>3, <2>1, <2>2, SeqBacked
  <2>5. Fair(setup.api, h, TRUE, r)
    BY <1>1, <2>4 DEF Fair
  <2>6. CASE r.done
    BY <1>1, <1>5, <1>6, <2>3, <2>5, <2>6, WorkedLeaves DEF h
  <2>7. CASE ~r.done
    BY <1>1, <1>5, <1>6, <2>3, <2>5, <2>7, AddStays DEF h
  <2> QED
    BY <2>6, <2>7
<1> QED
  BY <1>7, <1>8

LEMMA AddFragmentKeeps ==
    ASSUME Inv, AddFragment
    PROVE  Inv'
<1>1. PICK fr \in setup.frags, v \in setup.versions, short \in {FALSE, setup.short} :
        \/ setup.api \in {"add", "multiple"} /\ Add(Call(fr, v, num, FALSE), setup.api = "add")
        \/ setup.api = "ooo" /\ \E from \in 1..num : Add(Call(fr, v, from, FALSE), TRUE)
        \/ setup.api = "check" /\ AddCheck(Call(fr, v, num, short), num)
        \/ setup.api = "fallback" /\ \E b \in 1..num : AddCheck(Call(fr, v, num, short), b)
        \/ setup.api = "seq" /\ AddSeq(Call(fr, v, num, short))
        \/ setup.api \in {"seqcheck", "seqnext", "802.11"} /\ AddSeqCheck(Call(fr, v, num, short))
  BY DEF AddFragment
<1>2. num \in Nat /\ num >= 1
  BY DEF Inv, Typed
<1>3. num' \in {num, num + 1} /\ (setup.api = "fallback" => num' = num + 1) /\ setup' = setup
  <2>1. setup.api = "fallback" => ~setup.crowded
    BY SetupIs DEF Inv
  <2> QED
    BY <2>1 DEF AddFragment
<1>4. ASSUME NEW from \in 1..num, NEW s \in BOOLEAN
      PROVE  /\ Adding(Call(fr, v, from, s)) /\ Call(fr, v, from, s).from = from /\ Call(fr, v, from, s) \in CallOf
  <2> DEFINE c == Call(fr, v, from, s)
  <2>1. fr.off \in Length /\ fr.len \in Length /\ fr.tail \in BOOLEAN /\ v \in Versions
    BY SetupIs DEF Inv
  <2>2. fr.off \in Nat /\ from \in Nat
    BY <1>2, <2>1, ModulusAssumption DEF Length
  <2>3. c \in CallOf /\ c.num = num /\ c.from = from
    BY <1>2, <2>1, <2>2 DEF Call, CallOf
  <2>4. Calm /\ Len(calls) < setup.calls
    BY DEF AddFragment
  <2> HIDE DEF c
  <2> QED
    BY <1>3, <2>3, <2>4 DEF Adding, c
<1>5. short \in BOOLEAN
  BY SetupIs DEF Inv
<1>6. num \in 1..num
  BY <1>2
<1>7. CASE setup.api \in {"add", "multiple"} /\ Add(Call(fr, v, num, FALSE), setup.api = "add")
  <2>1. Adding(Call(fr, v, num, FALSE))
    BY <1>4, <1>6
  <2>2. (setup.api = "add") \in BOOLEAN /\ setup.api \in {"add", "multiple", "ooo"}
    BY <1>7
  <2> QED
    BY <1>7, <2>1, <2>2, AddKeeps
<1>8. CASE setup.api = "ooo" /\ \E from \in 1..num : Add(Call(fr, v, from, FALSE), TRUE)
  <2>1. PICK from \in 1..num : Add(Call(fr, v, from, FALSE), TRUE)
    BY <1>8
  <2>2. Adding(Call(fr, v, from, FALSE))
    BY <1>4
  <2> QED
    BY <1>8, <2>1, <2>2, AddKeeps
<1>9. CASE setup.api = "check" /\ AddCheck(Call(fr, v, num, short), num)
  <2>1. Adding(Call(fr, v, num, short)) /\ Call(fr, v, num, short).from = num
    BY <1>4, <1>5, <1>6
  <2> QED
    BY <1>6, <1>9, <2>1, AddCheckKeeps
<1>10. CASE setup.api = "fallback" /\ \E b \in 1..num : AddCheck(Call(fr, v, num, short), b)
  <2>1. PICK b \in 1..num : AddCheck(Call(fr, v, num, short), b)
    BY <1>10
  <2>2. Adding(Call(fr, v, num, short)) /\ Call(fr, v, num, short).from = num
    BY <1>4, <1>5, <1>6
  <2>3. setup.api \in {"check", "fallback"} /\ setup.api # "check"
    BY <1>10
  <2> QED
    BY <2>1, <2>2, <2>3, AddCheckKeeps
<1>11. CASE setup.api = "seq" /\ AddSeq(Call(fr, v, num, short))
  <2>1. Adding(Call(fr, v, num, short))
    BY <1>4, <1>5, <1>6
  <2> QED
    BY <1>11, <2>1, AddSeqKeeps
<1>12. CASE setup.api \in {"seqcheck", "seqnext", "802.11"} /\ AddSeqCheck(Call(fr, v, num, short))
  <2>1. Adding(Call(fr, v, num, short))
    BY <1>4, <1>5, <1>6
  <2> QED
    BY <1>12, <2>1, AddSeqCheckKeeps
<1> QED
  BY <1>1, <1>7, <1>8, <1>9, <1>10, <1>11, <1>12

(* The other functions change the head that is in the table.               *)
LEMMA ChangeKeeps ==
    ASSUME Inv, table # 0, setup' = setup, table' = table, done' = done, num' = num,
           NEW x \in FragmentHead, heads' = [heads EXCEPT ![table] = x],
           x.ref = heads[table].ref, x.freed = heads[table].freed, x.frame = heads[table].frame,
           HeadFine(setup.api, heads[table], TRUE, num) => HeadFine(setup.api, x, TRUE, num),
           calls' \in Seq(CallOf), Len(calls') = Len(calls),
           \A k \in DOMAIN calls :
              /\ calls'[k].id = calls[k].id /\ calls'[k].num = calls[k].num /\ calls'[k].from = calls[k].from
              /\ calls'[k].short = calls[k].short /\ calls'[k].returned = calls[k].returned,
           given' \in Seq(Data), Len(given') = Len(given)
    PROVE  Inv'
<1>1. Base = heads /\ Current = table
  BY DEF Base, Current
<1>2. /\ Base \in Seq(FragmentHead) /\ Current = Len(Base) /\ Current \in 1..Len(Base)
      /\ HeadFine(setup.api, Base[Current], TRUE, num) /\ Base[Current] \in FragmentHead
  BY BaseIs
<1>3. Passes
  BY DEF Passes, Inv, Typed
<1>4. heads' \in Seq(FragmentHead) /\ Len(heads') = Len(heads)
  BY <1>1, <1>2, ExceptSeq
<1>5. Told(Current, x.frame)
  <2>1. DOMAIN calls = 1..Len(calls) /\ DOMAIN calls' = 1..Len(calls') /\ Len(calls) \in Nat
    BY LenProperties DEF Inv, Typed
  <2>2. DOMAIN calls' \ DOMAIN calls = {}
    BY <2>1
  <2>3. Len(calls') <= setup.calls /\ Len(calls) <= Len(calls')
    BY <2>1 DEF Inv, Typed
  <2>4. Len(given') = Len(heads')
    BY <1>4 DEF Inv, Typed
  <2> QED
    BY <2>2, <2>3, <2>4 DEF Told
<1>6. Base[Current].frame <= x.frame /\ HeadFine(setup.api, x, TRUE, num')
  <2>1. Base[Current].frame \in Nat
    BY <1>2 DEF FragmentHead
  <2>2. Base[Current].frame = x.frame
    BY <1>1
  <2>3. HeadFine(setup.api, heads[table], TRUE, num)
    BY <1>1, <1>2
  <2>4. HeadFine(setup.api, x, TRUE, num')
    BY <2>3
  <2>5. Base[Current].frame <= x.frame
    BY ONLY <2>1, <2>2
  <2> QED
    BY <2>4, <2>5
<1> QED
  BY <1>1, <1>3, <1>5, <1>6, Stays

LEMMA InTable ==
    ASSUME Inv, table # 0
    PROVE  /\ table \in 1..Len(heads) /\ table \in DOMAIN heads /\ heads[table] \in FragmentHead
           /\ HeadFine(setup.api, heads[table], TRUE, num) /\ num \in Nat
           /\ (Calm => ~heads[table].torn /\ ListOK(heads[table]))
<1>1. table \in 1..Len(heads) /\ table \in DOMAIN heads /\ heads[table] \in FragmentHead /\ num \in Nat
  BY LenProperties DEF Inv, Typed
<1>2. HeadFine(setup.api, heads[table], TRUE, num)
  <2>1. HeadFine(setup.api, heads[table], table = table, num)
    BY <1>1 DEF Inv, HeadsOK
  <2> QED
    BY <2>1
<1>3. Calm => ~heads[table].torn
  BY <1>1 DEF Calm
<1> QED
  BY <1>1, <1>2, <1>3 DEF HeadFine

LEMMA OnlyHead ==
    ASSUME Inv, table # 0, NEW x \in FragmentHead, Change(x),
           x.ref = heads[table].ref, x.freed = heads[table].freed, x.frame = heads[table].frame,
           HeadFine(setup.api, x, TRUE, num)
    PROVE  Inv'
<1>1. /\ setup' = setup /\ table' = table /\ done' = done /\ num' = num /\ calls' = calls /\ given' = given
      /\ heads' = [heads EXCEPT ![table] = x]
  BY DEF Change
<1>2. calls' \in Seq(CallOf) /\ given' \in Seq(Data) /\ Len(calls') = Len(calls) /\ Len(given') = Len(given)
  BY <1>1 DEF Inv, Typed
<1> QED
  BY <1>1, <1>2, ChangeKeeps

LEMMA SetPartialReassemblyKeeps ==
    ASSUME Inv, SetPartialReassembly
    PROVE  Inv'
<1> DEFINE h == heads[table]
<1>1. table # 0 /\ setup.api \notin Checks
  BY SetupIs DEF Inv, SetPartialReassembly, Op
<1>2. h \in FragmentHead /\ HeadFine(setup.api, h, TRUE, num)
  BY <1>1, InTable
<1>3. PICK x : x = [h EXCEPT !.partial = TRUE]
  OBVIOUS
<1>4. Change(x)
  BY <1>3 DEF SetPartialReassembly
<1> HIDE DEF h
<1>5. /\ x \in FragmentHead /\ x.items = h.items /\ x.gap = h.gap /\ x.contig = h.contig /\ x.frame = h.frame
      /\ x.data = h.data /\ x.datalen = h.datalen /\ x.set = h.set /\ x.defrag = h.defrag /\ x.reasIn = h.reasIn
      /\ x.error = h.error /\ x.seq = h.seq /\ x.ref = h.ref /\ x.freed = h.freed /\ x.torn = h.torn
  BY <1>2, <1>3 DEF FragmentHead
<1>6. HeadFine(setup.api, x, TRUE, num)
  <2>1. FramesIn(x) = FramesIn(h)
    BY <1>5 DEF FramesIn
  <2>2. (ListOK(x) <=> ListOK(h)) /\ (Sized(x) <=> Sized(h))
    BY <1>5 DEF ListOK, Sorted, GapExact, Sized
  <2> QED
    BY <1>1, <1>2, <1>5, <2>1, <2>2 DEF HeadFine
<1> QED
  BY <1>1, <1>4, <1>5, <1>6, OnlyHead DEF h

LEMMA SetTotLenKeeps ==
    ASSUME Inv, SetTotLen
    PROVE  Inv'
<1> DEFINE h == heads[table]
<1>1. PICK n \in setup.lens :
         /\ Op("setlen")
         /\ LET most == IF ~h.seq \/ h.items = <<>> THEN 0 ELSE Last(h.items).off
            IN  Change(IF most > n \/ (h.defrag /\ most # n) THEN [h EXCEPT !.error = TRUE]
                       ELSE [h EXCEPT !.datalen = n, !.set = TRUE])
  BY DEF SetTotLen
<1>2. table # 0 /\ n \in Nat
  BY <1>1, SetupIs DEF Inv, Op
<1>3. h \in FragmentHead /\ HeadFine(setup.api, h, TRUE, num)
  BY <1>2, InTable
<1>4. PICK x : /\ Change(x)
               /\ \/ x = [h EXCEPT !.error = TRUE]
                  \/ x = [h EXCEPT !.datalen = n, !.set = TRUE] /\ (~h.seq /\ h.defrag => n = 0)
  BY <1>1
<1> HIDE DEF h
<1>5. /\ x \in FragmentHead /\ x.items = h.items /\ x.gap = h.gap /\ x.contig = h.contig /\ x.frame = h.frame
      /\ x.data = h.data /\ x.defrag = h.defrag /\ x.reasIn = h.reasIn /\ x.partial = h.partial
      /\ (h.error => x.error) /\ x.seq = h.seq /\ x.ref = h.ref /\ x.freed = h.freed /\ x.torn = h.torn
      /\ \/ x.datalen = h.datalen /\ x.set = h.set
         \/ x.datalen = n /\ x.set /\ (~h.seq /\ h.defrag => n = 0)
  BY <1>2, <1>3, <1>4 DEF FragmentHead
<1>6. HeadFine(setup.api, x, TRUE, num)
  <2>1. FramesIn(x) = FramesIn(h)
    BY <1>5 DEF FramesIn
  <2>2. (ListOK(x) <=> ListOK(h)) /\ (Backed(x) <=> Backed(h))
    BY <1>5 DEF ListOK, Sorted, GapExact, Backed
  <2>3. setup.api \notin BySeq => Sized(x)
    <3>1. setup.api \notin BySeq => ~h.seq /\ Sized(h)
      BY <1>3 DEF HeadFine
    <3> QED
      BY <1>5, <3>1 DEF Sized
  <2> QED
    BY <1>3, <1>5, <2>1, <2>2, <2>3 DEF HeadFine
<1> QED
  BY <1>2, <1>4, <1>5, <1>6, OnlyHead DEF h

LEMMA ResetTotLenKeeps ==
    ASSUME Inv, ResetTotLen
    PROVE  Inv'
<1> DEFINE b == heads[table]
           h == [b EXCEPT !.partial = FALSE]
           r == IF h.defrag THEN ResetDefragmentation(h) ELSE h
<1>1. PICK n \in setup.lens :
         /\ Op("resetlen")
         /\ Change(IF n = h.datalen THEN h ELSE IF r.torn THEN r ELSE [r EXCEPT !.datalen = n, !.set = TRUE])
  BY DEF ResetTotLen
<1>2. table # 0 /\ n \in Nat /\ Calm /\ setup.api \notin BySeq
  BY <1>1, SetupIs DEF Inv, Op
<1>3. b \in FragmentHead /\ HeadFine(setup.api, b, TRUE, num) /\ ~b.torn /\ ListOK(b) /\ num \in Nat
  BY <1>2, InTable
<1>4. PICK x : /\ Change(x)
               /\ x = IF n = h.datalen THEN h ELSE IF r.torn THEN r ELSE [r EXCEPT !.datalen = n, !.set = TRUE]
  BY <1>1
<1> HIDE DEF b
<1>5. /\ h \in FragmentHead /\ h.items = b.items /\ h.gap = b.gap /\ h.contig = b.contig /\ h.frame = b.frame
      /\ h.data = b.data /\ h.defrag = b.defrag /\ h.reasIn = b.reasIn /\ ~h.partial
      /\ h.error = b.error /\ h.seq = b.seq /\ h.ref = b.ref /\ h.freed = b.freed /\ h.torn = b.torn
      /\ h.datalen = b.datalen /\ h.set = b.set
  BY <1>3 DEF FragmentHead
<1>6. FramesIn(h) = FramesIn(b) /\ ListOK(h) /\ Sized(h)
  <2>1. Sized(b)
    BY <1>2, <1>3 DEF HeadFine
  <2> HIDE DEF h
  <2> QED
    BY <1>3, <1>5, <2>1 DEF FramesIn, ListOK, Sorted, GapExact, Sized
<1> HIDE DEF h
<1>7. /\ r \in FragmentHead /\ r.gap \in 0..Len(r.items) /\ FramesIn(r) = FramesIn(h) /\ r.frame = h.frame
      /\ r.reasIn \in {0, h.reasIn} /\ ~r.partial /\ r.error = h.error /\ r.seq = h.seq /\ r.ref = h.ref /\ r.freed = h.freed
      /\ (r.torn \/ (ListOK(r) /\ ~r.defrag))
      /\ (r.defrag => h.defrag)
  <2>1. CASE ~h.defrag
    <3>1. r = h
      BY <2>1
    <3> QED
      BY <1>5, <1>6, <2>1, <3>1 DEF ListOK, GapExact
  <2>2. CASE h.defrag
    <3> DEFINE g == ResetDefragmentation(h)
    <3>1. \/ g = Tear(h)
          \/ /\ g \in FragmentHead /\ ListOK(g) /\ Len(g.items) = Len(h.items)
             /\ g = Undone_(h, g)
             /\ \A i \in 1..Len(h.items) : g.items[i] = Restored(h, h.items[i])
      BY <1>3, <1>5, <1>6, ResetDefragmentationIs
    <3>2. r = g
      BY <2>2
    <3> HIDE DEF g
    <3>3. CASE g = Tear(h)
      <4>1. /\ g \in FragmentHead /\ g.items = h.items /\ g.gap = h.gap /\ g.frame = h.frame /\ g.reasIn = h.reasIn
            /\ g.partial = h.partial /\ g.error = h.error /\ g.seq = h.seq /\ g.ref = h.ref /\ g.freed = h.freed /\ g.torn
        BY <1>5, <3>3 DEF Tear, FragmentHead
      <4>2. FramesIn(g) = FramesIn(h) /\ g.gap \in 0..Len(g.items)
        BY <1>6, <4>1 DEF FramesIn, ListOK, GapExact
      <4> QED
        BY <1>5, <2>2, <3>2, <4>1, <4>2
    <3>4. CASE /\ g \in FragmentHead /\ ListOK(g) /\ Len(g.items) = Len(h.items)
               /\ g = Undone_(h, g)
               /\ \A i \in 1..Len(h.items) : g.items[i] = Restored(h, h.items[i])
      <4>1. /\ g.frame = h.frame /\ g.reasIn = 0 /\ ~g.partial /\ g.error = h.error /\ g.seq = h.seq /\ g.ref = h.ref
            /\ g.freed = h.freed /\ ~g.defrag
        BY <1>5, <3>4 DEF Undone_, FragmentHead
      <4>2. FramesIn(g) = FramesIn(h)
        <5>1. \A i \in 1..Len(h.items) : g.items[i].frame = h.items[i].frame
          <6> TAKE i \in 1..Len(h.items)
          <6>1. h.items[i] \in Item
            BY <1>5, LenProperties DEF FragmentHead
          <6> DEFINE f == h.items[i]
          <6>2. g.items[i] = Restored(h, f)
            BY <3>4
          <6> HIDE DEF f
          <6>3. Restored(h, f).frame = f.frame
            BY <6>1 DEF Restored, Item, f
          <6> QED
            BY <6>2, <6>3 DEF f
        <5> QED
          BY <1>5, <3>4, <5>1, SameFrames
      <4>3. g.gap \in 0..Len(g.items)
        BY <3>4 DEF ListOK, GapExact
      <4> QED
        BY <3>2, <3>4, <4>1, <4>2, <4>3
    <3> QED
      BY <3>1, <3>3, <3>4
  <2> QED
    BY <2>1, <2>2
<1> HIDE DEF r
<1>8. \/ x = h
      \/ x = r /\ r.torn
      \/ x = [r EXCEPT !.datalen = n, !.set = TRUE] /\ ~r.torn
  BY <1>4
<1>9. /\ x \in FragmentHead /\ x.ref = b.ref /\ x.freed = b.freed /\ x.frame = b.frame /\ x.seq = b.seq /\ ~x.partial
      /\ x.error = b.error /\ x.reasIn \in {0, b.reasIn} /\ FramesIn(x) = FramesIn(b) /\ x.gap \in 0..Len(x.items)
      /\ (~x.torn => ListOK(x)) /\ (x.defrag => b.defrag) /\ Sized(x)
  <2>1. CASE x = h
    BY <1>5, <1>6, <2>1 DEF ListOK, GapExact
  <2>2. CASE x = r /\ r.torn
    BY <1>5, <1>6, <1>7, <2>2 DEF Sized
  <2>3. CASE x = [r EXCEPT !.datalen = n, !.set = TRUE] /\ ~r.torn
    <3>1. /\ x \in FragmentHead /\ x.items = r.items /\ x.gap = r.gap /\ x.contig = r.contig /\ x.frame = r.frame
          /\ x.defrag = r.defrag /\ x.reasIn = r.reasIn /\ x.partial = r.partial
          /\ x.error = r.error /\ x.seq = r.seq /\ x.ref = r.ref /\ x.freed = r.freed /\ x.torn = r.torn
      BY <1>2, <1>7, <2>3 DEF FragmentHead
    <3>2. FramesIn(x) = FramesIn(r) /\ (ListOK(x) <=> ListOK(r))
      BY <3>1 DEF FramesIn, ListOK, Sorted, GapExact
    <3> QED
      BY <1>5, <1>6, <1>7, <2>3, <3>1, <3>2 DEF Sized
  <2> QED
    BY <1>8, <2>1, <2>2, <2>3
<1>10. HeadFine(setup.api, x, TRUE, num)
  <2>1. FramesIn(x) \cup {x.frame, x.reasIn} \subseteq 0..num
    <3>1. FramesIn(b) \cup {b.frame, b.reasIn} \subseteq 0..num
      BY <1>3 DEF HeadFine
    <3> QED
      BY <1>3, <1>9, <3>1
  <2>2. setup.api = "fallback" => FramesIn(x) \cup {x.reasIn} \subseteq 0..(num - 1)
    <3>1. setup.api = "fallback" => FramesIn(b) \cup {b.reasIn} \subseteq 0..(num - 1)
      BY <1>3 DEF HeadFine
    <3>2. num >= 1
      BY DEF Inv, Typed
    <3> QED
      BY <1>3, <1>9, <3>1, <3>2
  <2> QED
    BY <1>2, <1>3, <1>9, <2>1, <2>2 DEF HeadFine
<1> QED
  BY <1>2, <1>4, <1>9, <1>10, OnlyHead DEF b

LEMMA TruncateKeeps ==
    ASSUME Inv, Truncate
    PROVE  Inv'
<1> DEFINE h == heads[table]
<1>1. PICK n \in setup.lens :
         /\ Op("truncate") /\ h.defrag /\ h.datalen > n
         /\ heads' = [heads EXCEPT ![table] = Truncated(h, n)]
         /\ calls' = [k \in DOMAIN calls |-> IF calls[k].id = table THEN [calls[k] EXCEPT !.kept = Until(calls[k], n)]
                                                                     ELSE calls[k]]
         /\ given' = [given EXCEPT ![table] = [p \in DOMAIN given[table] \cap 1..n |-> given[table][p]]]
  BY DEF Truncate
<1>2. table # 0 /\ n \in Nat /\ Calm /\ setup.api \notin BySeq
  BY <1>1, SetupIs DEF Inv, Op
<1>3. h \in FragmentHead /\ HeadFine(setup.api, h, TRUE, num) /\ ~h.torn /\ ListOK(h) /\ num \in Nat
  BY <1>2, InTable
<1>4. n <= Len(h.data)
  <2>1. Sized(h)
    BY <1>2, <1>3 DEF HeadFine
  <2>2. h.datalen \in Nat
    BY <1>3 DEF FragmentHead
  <2> HIDE DEF h
  <2> QED
    BY <1>1, <1>2, <1>3, <2>1, <2>2 DEF Sized
<1>5. PICK x : x = Truncated(h, n)
  OBVIOUS
<1>6. heads' = [heads EXCEPT ![table] = x]
  BY <1>1, <1>5
<1>7. /\ x \in FragmentHead /\ ListOK(x) /\ x = CutTo(h, x, n)
      /\ Len(x.items) \in 0..Len(h.items)
      /\ \A i \in 1..Len(h.items) : i <= Len(x.items) <=> h.items[i].off < n
      /\ \A i \in 1..Len(x.items) : x.items[i] = Cut(h.items[i], n)
  <2> HIDE DEF h
  <2> QED
    BY <1>2, <1>3, <1>4, <1>5, TruncatedIs
<1>8. /\ x.frame = h.frame /\ x.defrag = h.defrag /\ x.reasIn = h.reasIn /\ ~x.partial /\ x.error = h.error
      /\ x.seq = h.seq /\ x.ref = h.ref /\ x.freed = h.freed /\ x.torn = h.torn /\ x.set = h.set
      /\ x.datalen = n /\ x.data = SubSeq(h.data, 1, n)
  <2> HIDE DEF h
  <2> QED
    BY <1>3, <1>7 DEF CutTo, FragmentHead
<1>9. FramesIn(x) \subseteq FramesIn(h)
  <2>1. /\ DOMAIN x.items = 1..Len(x.items) /\ DOMAIN h.items = 1..Len(h.items) /\ Len(h.items) \in Nat
        /\ h.items \in Seq(Item)
    BY <1>3, <1>7, LenProperties DEF FragmentHead
  <2>2. ASSUME NEW i \in 1..Len(x.items)
        PROVE  i \in 1..Len(h.items) /\ x.items[i].frame = h.items[i].frame
    <3>1. i \in 1..Len(h.items) /\ i <= Len(x.items) /\ Len(x.items) \in Nat
      BY <1>7, <2>1
    <3> DEFINE f == h.items[i]
    <3>2. f \in Item /\ f.off < n /\ x.items[i] = Cut(f, n)
      BY <1>7, <2>1, <3>1
    <3> HIDE DEF f
    <3>3. Cut(f, n).frame = f.frame
      BY <1>2, <3>2, CutIs
    <3> QED
      BY <3>1, <3>2, <3>3 DEF f
  <2> HIDE DEF h
  <2> QED
    BY <2>1, <2>2 DEF FramesIn
<1>10. HeadFine(setup.api, x, TRUE, num)
  <2>1. x.gap \in 0..Len(x.items)
    BY <1>7 DEF ListOK, GapExact
  <2>2. Sized(x)
    <3>1. h.set
      <4>1. Sized(h)
        BY <1>2, <1>3 DEF HeadFine
      <4> QED
        BY <1>1, <1>3, <4>1 DEF Sized
    <3>2. Len(x.data) = n
      <4>1. h.data \in Seq(Byte)
        BY <1>3 DEF FragmentHead, Data
      <4> DEFINE d == h.data
      <4>2. d \in Seq(Byte) /\ n <= Len(d) /\ Len(d) \in Nat
        BY <1>4, <4>1, LenProperties
      <4> HIDE DEF d
      <4>3. Len(SubSeq(d, 1, n)) = n
        BY <1>2, <4>2, SubSeqProperties
      <4> QED
        BY <1>8, <4>3 DEF d
    <3> QED
      BY <1>8, <3>1, <3>2 DEF Sized
  <2> HIDE DEF h
  <2> QED
    BY <1>2, <1>3, <1>7, <1>8, <1>9, <2>1, <2>2 DEF HeadFine
<1>11. /\ calls' \in Seq(CallOf) /\ Len(calls') = Len(calls)
       /\ \A k \in DOMAIN calls :
            /\ calls'[k].id = calls[k].id /\ calls'[k].num = calls[k].num /\ calls'[k].from = calls[k].from
            /\ calls'[k].short = calls[k].short /\ calls'[k].returned = calls[k].returned
  <2>1. calls \in Seq(CallOf) /\ Len(calls) \in Nat /\ DOMAIN calls = 1..Len(calls)
    BY LenProperties DEF Inv, Typed
  <2>2. ASSUME NEW k \in DOMAIN calls
        PROVE  /\ calls'[k] \in CallOf
               /\ calls'[k].id = calls[k].id /\ calls'[k].num = calls[k].num /\ calls'[k].from = calls[k].from
               /\ calls'[k].short = calls[k].short /\ calls'[k].returned = calls[k].returned
    <3> DEFINE c == calls[k]
               u == Until(c, n)
    <3>1. c \in CallOf
      BY <2>1, <2>2
    <3>2. calls'[k] = IF c.id = table THEN [c EXCEPT !.kept = u] ELSE c
      BY <1>1, <2>2
    <3> HIDE DEF c
    <3>3. u \in Length
      BY <1>2, <3>1, ModulusAssumption DEF Until, CallOf, Length
    <3> HIDE DEF u
    <3>4. CASE c.id = table
      <4>1. PICK e : e = [c EXCEPT !.kept = u]
        OBVIOUS
      <4>2. /\ e \in CallOf /\ e.id = c.id /\ e.num = c.num /\ e.from = c.from /\ e.short = c.short
            /\ e.returned = c.returned
        BY <3>1, <3>3, <4>1 DEF CallOf
      <4>3. calls'[k] = e
        BY <3>2, <3>4, <4>1
      <4> QED
        BY <4>2, <4>3 DEF c
    <3>5. CASE c.id # table
      BY <3>1, <3>2, <3>5 DEF c
    <3> QED
      BY <3>4, <3>5
  <2>3. calls' \in [1..Len(calls) -> CallOf]
    <3>1. DOMAIN calls' = 1..Len(calls)
      BY <1>1, <2>1
    <3>2. calls' = [k \in 1..Len(calls) |-> calls'[k]]
      BY <1>1, <2>1
    <3>3. \A k \in 1..Len(calls) : calls'[k] \in CallOf
      BY <2>1, <2>2
    <3> QED
      BY <3>2, <3>3
  <2> QED
    BY <2>1, <2>2, <2>3, FunctionIsSeq
<1>12. given' \in Seq(Data) /\ Len(given') = Len(given)
  <2>1. given \in Seq(Data) /\ table \in 1..Len(given)
    BY <1>2, InTable DEF Inv, Typed
  <2> DEFINE d == given[table]
             s == [p \in DOMAIN d \cap 1..n |-> d[p]]
  <2>2. d \in Seq(Byte) /\ Len(d) \in Nat /\ DOMAIN d = 1..Len(d)
    <3>1. d \in Data
      BY <2>1
    <3> QED
      BY <3>1, LenProperties DEF Data
  <2>3. given' = [given EXCEPT ![table] = s]
    BY <1>1
  <2> HIDE DEF d
  <2>4. s \in Data
    <3> DEFINE m == IF Len(d) < n THEN Len(d) ELSE n
    <3>1. DOMAIN d \cap 1..n = 1..m /\ m \in Nat
      BY <1>2, <2>2
    <3>2. \A p \in 1..m : d[p] \in Byte
      BY <2>2, <3>1
    <3> HIDE DEF m
    <3>3. s \in [1..m -> Byte]
      BY <3>1, <3>2
    <3> QED
      BY <3>1, <3>3, FunctionIsSeq DEF Data
  <2> HIDE DEF s
  <2> QED
    BY <2>1, <2>3, <2>4, ExceptSeq
<1>13. setup' = setup /\ table' = table /\ done' = done /\ num' = num
  BY DEF Truncate
<1> QED
  BY <1>2, <1>6, <1>7, <1>8, <1>10, <1>11, <1>12, <1>13, ChangeKeeps

LEMMA EndSeqNextKeeps ==
    ASSUME Inv, EndSeqNext
    PROVE  Inv'
<1> DEFINE h == heads[table]
           len == IF h.items = <<>> THEN 0 ELSE Last(h.items).off
<1>1. PICK g, r, frames :
         /\ g = [h EXCEPT !.set = TRUE, !.datalen = len]
         /\ r = SeqAssemble(g, num)
         /\ frames = FramesOf(r.h) \cup {num}
         /\ heads' = Insert([heads EXCEPT ![table] = r.h], frames, table)
         /\ done' = [f \in Frames |-> IF f \in frames THEN table ELSE done[f]]
         /\ given' = [given EXCEPT ![table] = r.h.data]
  BY DEF EndSeqNext
<1>2. /\ Op("end") /\ table # 0 /\ Calm /\ setup.api \in BySeq \cap Checks /\ table' = 0 /\ num' = num + 1
      /\ setup' = setup /\ calls' = calls
  BY SetupIs DEF Inv, EndSeqNext, Op
<1>3. h \in FragmentHead /\ HeadFine(setup.api, h, TRUE, num) /\ ~h.torn /\ ListOK(h) /\ num \in Nat
  BY <1>2, InTable
<1>4. Base = heads /\ Current = table
  BY <1>2 DEF Base, Current
<1>5. h.ref = 0 /\ ~h.freed
  BY <1>4, BaseIs
<1>6. len \in Nat
  <2> HIDE DEF h
  <2>1. h.items \in Seq(Item)
    BY <1>3 DEF FragmentHead
  <2>2. ASSUME h.items # <<>>
        PROVE  Last(h.items).off \in Nat
    <3> DEFINE items == h.items
    <3>1. Len(items) \in 1..Len(items)
      BY <2>1, <2>2, EmptySeq, LenProperties
    <3>2. items[Len(items)] \in Item
      BY <2>1, <3>1
    <3> QED
      BY <3>2 DEF Last, Item
  <2> QED
    BY <2>2
<1> HIDE DEF h, len
<1>7. /\ g \in FragmentHead /\ g.items = h.items /\ g.gap = h.gap /\ g.contig = h.contig /\ g.frame = h.frame
      /\ g.partial = h.partial /\ g.error = h.error /\ g.seq = h.seq /\ g.ref = h.ref /\ g.freed = h.freed
      /\ g.torn = h.torn
  BY <1>1, <1>3, <1>6 DEF FragmentHead
<1>8. FramesIn(g) = FramesIn(h) /\ ListOK(g) /\ Backed(g)
  <2>1. Backed(h)
    BY <1>2, <1>3 DEF HeadFine
  <2> QED
    BY <1>3, <1>7, <2>1 DEF FramesIn, ListOK, Sorted, GapExact, Backed
<1>9. PICK x : x = r.h
  OBVIOUS
<1>10. x \in FragmentHead /\ ListOK(x) /\ x = SeqRemade(g, x, num) /\ FramesIn(x) = FramesIn(h)
  <2>1. r = Whole(r.h)
    BY <1>1, <1>8, <1>7, SeqAssembleBacked
  <2>2. r # Throw(Tear(g))
    BY <2>1 DEF Whole, Throw
  <2>3. r.h \in FragmentHead /\ ListOK(r.h) /\ r.h = SeqRemade(g, r.h, num) /\ FramesIn(r.h) = FramesIn(g)
    BY <1>1, <1>3, <1>7, <1>8, <2>2, SeqAssembleIs
  <2> QED
    BY <1>8, <1>9, <2>3
<1>11. /\ x.frame = h.frame /\ x.partial = h.partial /\ x.error = h.error /\ x.seq = h.seq /\ x.ref = h.ref
       /\ x.freed = h.freed /\ x.torn = h.torn /\ x.defrag /\ x.reasIn = num
  <2>1. /\ x.frame = g.frame /\ x.partial = g.partial /\ x.error = g.error /\ x.seq = g.seq /\ x.ref = g.ref
        /\ x.freed = g.freed /\ x.torn = g.torn /\ x.defrag /\ x.reasIn = num
    BY <1>7, <1>10 DEF SeqRemade, FragmentHead
  <2> QED
    BY <1>7, <2>1
<1>12. FramesIn(h) \cup {h.frame, h.reasIn} \subseteq 0..num /\ x.gap \in 0..Len(x.items)
  BY <1>3, <1>10 DEF HeadFine, ListOK, GapExact
<1>13. HeadFine(setup.api, x, FALSE, num')
  <2>1. FramesIn(x) \cup {x.frame, x.reasIn} \subseteq 0..num'
    BY <1>2, <1>3, <1>10, <1>11, <1>12
  <2>2. setup.api # "fallback"
    BY <1>2 DEF BySeq
  <2> QED
    BY <1>2, <1>3, <1>10, <1>11, <1>12, <2>1, <2>2 DEF HeadFine
<1>14. FramesOf(x) = Members(x) /\ Members(x) \subseteq 0..num
  <2>1. Members(x) \subseteq FramesIn(x) \cup {num}
    BY <1>11 DEF Members, FramesIn
  <2>2. FramesOf(x) = Members(x)
    BY <1>11 DEF Members, FramesOf
  <2> QED
    BY <1>3, <1>10, <1>12, <2>1, <2>2
<1>15. /\ frames \in SUBSET (0..num) /\ Members(x) \subseteq frames /\ frames \subseteq Members(x) \cup {x.reasIn}
  BY <1>1, <1>3, <1>9, <1>11, <1>14
<1>16. heads' = Insert([Base EXCEPT ![Current] = x], frames, Current)
  BY <1>1, <1>4, <1>9
<1>17. heads' \in Seq(FragmentHead) /\ Len(heads') = Len(heads)
  <2> DEFINE hs == [Base EXCEPT ![Current] = x]
  <2>1. x.ref = 0 /\ ~x.freed
    BY <1>5, <1>11
  <2>2. Insertion(hs, Insert(hs, frames, Current), Led(done, frames, Current))
    BY <1>10, <1>15, <2>1, CurrentInserted
  <2>3. Len(hs) = Len(heads)
    <3>1. Base \in Seq(FragmentHead) /\ Current \in 1..Len(Base)
      BY BaseIs
    <3> QED
      BY <1>4, <1>10, <3>1, ExceptSeq
  <2> HIDE DEF hs
  <2> QED
    BY <1>16, <2>2, <2>3 DEF Insertion, hs
<1>18. Told(Current, x.frame)
  <2>1. given \in Seq(Data) /\ table \in 1..Len(given) /\ Len(given) = Len(heads)
    BY <1>2, InTable DEF Inv, Typed
  <2>2. x.data \in Data
    BY <1>10 DEF FragmentHead
  <2>3. given' \in Seq(Data) /\ Len(given') = Len(given)
    BY <1>1, <1>9, <2>1, <2>2, ExceptSeq
  <2>4. calls \in Seq(CallOf) /\ Len(calls) <= setup.calls /\ Len(calls) \in Nat
    BY LenProperties DEF Inv, Typed
  <2> QED
    BY <1>2, <1>17, <2>1, <2>3, <2>4 DEF Told
<1>19. Passes
  <2>1. num + (IF table # 0 THEN 1 ELSE 0) <= 2 * Len(calls) + 1 /\ Len(calls) \in Nat
    BY LenProperties DEF Inv, Typed
  <2>2. num' + (IF table' # 0 THEN 1 ELSE 0) <= 2 * Len(calls') + 1
    BY <1>2, <1>3, <2>1
  <2> QED
    BY <1>2, <1>3, <2>2 DEF Passes
<1>20. /\ x.ref = 0 /\ ~x.freed /\ Base[Current].frame <= x.frame
       /\ done' = [f \in Frames |-> IF f \in frames THEN Current ELSE done[f]]
  <2>1. h.frame \in Nat /\ Base[Current] = h
    BY <1>3, <1>4 DEF FragmentHead, h
  <2> QED
    BY <1>1, <1>4, <1>5, <1>11, <2>1
<1> QED
  BY <1>2, <1>10, <1>11, <1>13, <1>15, <1>16, <1>18, <1>19, <1>20, Leaves

(* fragment_delete: nothing leads to the head in progress.                 *)
Freed(h) == [h EXCEPT !.freed = TRUE]

LEMMA DeleteKeeps ==
    ASSUME Inv, Delete
    PROVE  Inv'
<1>1. /\ table # 0 /\ heads' = [heads EXCEPT ![table].freed = TRUE] /\ table' = 0
      /\ setup' = setup /\ done' = done /\ num' = num /\ calls' = calls /\ given' = given
  BY DEF Delete, Op
<1>2. /\ table \in 1..Len(heads) /\ heads[table] \in FragmentHead /\ num \in Nat
      /\ HeadFine(setup.api, heads[table], TRUE, num)
  BY <1>1, InTable
<1>3. heads \in Seq(FragmentHead) /\ DOMAIN heads = 1..Len(heads) /\ Len(heads) \in Nat
  BY LenProperties DEF Inv, Typed
<1>4. PICK x : x = Freed(heads[table])
  OBVIOUS
<1>5. x = Referred(heads[table], x) /\ x.ref = heads[table].ref /\ x.freed = TRUE /\ x.ref \in Nat
  BY <1>2, <1>4 DEF Freed, Referred, FragmentHead
<1>6. /\ x \in FragmentHead /\ x.frame = heads[table].frame /\ x.error = heads[table].error
      /\ x.defrag = heads[table].defrag /\ HeadFine(setup.api, x, TRUE, num)
  BY <1>2, <1>5, ReferredIs
<1>7. heads' = [heads EXCEPT ![table] = x]
  BY <1>1, <1>3, <1>4 DEF Freed
<1>8. /\ heads' \in Seq(FragmentHead) /\ Len(heads') = Len(heads) /\ heads'[table] = x
      /\ \A i \in 1..Len(heads) : i # table => heads'[i] = heads[i]
  BY <1>2, <1>3, <1>6, <1>7, ExceptSeq
<1>9. DOMAIN heads' = 1..Len(heads)
  BY <1>8, LenProperties
<1>10. Frames' = Frames /\ Seq_' = Seq_
  BY <1>1 DEF Frames, Seq_
<1>11. Typed'
  <2>1. 1 \in Int /\ num \in Int /\ num + 0 <= 2 * Len(calls) + 1
    <3>1. num + 1 <= 2 * Len(calls) + 1 /\ Len(calls) \in Nat
      BY <1>1, LenProperties DEF Inv, Typed
    <3> QED
      BY <3>1, <1>2
  <2>2. /\ setup' \in Setups /\ num' \in Nat /\ calls' \in Seq(CallOf) /\ Len(calls') <= setup'.calls
        /\ table' \in 0..Len(heads') /\ done' \in [Frames' -> 0..Len(heads')]
        /\ given' \in Seq(Data) /\ Len(given') = Len(heads') /\ num' >= 1
    BY <1>1, <1>3, <1>8, <1>10 DEF Inv, Typed
  <2> QED
    BY <2>1, <2>2, <1>1, <1>8 DEF Typed
<1>12. HeadsOK'
  <2> SUFFICES ASSUME NEW i \in 1..Len(heads)
               PROVE  HeadFine(setup.api, heads'[i], FALSE, num)
    <3>1. \A i \in 1..Len(heads) : (i = table') = FALSE
      BY <1>1, <1>3
    <3> QED
      BY <1>1, <1>9, <3>1 DEF HeadsOK
  <2>1. CASE i = table
    <3>1. num <= num /\ TRUE \in BOOLEAN
      BY <1>2
    <3>2. HeadFine(setup.api, x, FALSE, num)
      BY <1>2, <1>6, <3>1, FineLater, Zenon
    <3> QED
      BY <2>1, <3>2, <1>8
  <2>2. CASE i # table
    <3>1. HeadFine(setup.api, heads[i], FALSE, num)
      <4>1. HeadFine(setup.api, heads[i], i = table, num)
        BY <1>3 DEF Inv, HeadsOK
      <4>2. (i = table) = FALSE
        BY <2>2
      <4> QED
        BY <4>1, <4>2
    <3> QED
      BY <2>2, <3>1, <1>8
  <2> QED
    BY <2>1, <2>2
<1>13. TableOK'
  BY <1>1, <1>10 DEF Inv, TableOK
<1>14. \A f \in Frames : done[f] # table
  BY <1>1 DEF Inv, TableOK
<1>15. CallsOK'
  <2> SUFFICES ASSUME NEW k \in DOMAIN calls
               PROVE  LET c == calls[k] IN
                      /\ c.id \in 1..Len(heads)
                      /\ c.returned /\ ~Seq_ => c.from <= heads'[c.id].frame
                      /\ c.returned /\ setup.api \in Checks => c.id # 0
    BY <1>1, <1>8, <1>10 DEF CallsOK
  <2>1. /\ calls[k].id \in 1..Len(heads)
        /\ calls[k].returned /\ ~Seq_ => calls[k].from <= heads[calls[k].id].frame
    BY DEF Inv, CallsOK
  <2>2. heads'[calls[k].id].frame = heads[calls[k].id].frame
    BY <2>1, <1>6, <1>8
  <2> QED
    BY <2>1, <2>2, <1>3
<1>16. RefsExact'
  <2> SUFFICES ASSUME NEW i \in 1..Len(heads)
               PROVE  LET frames == {f \in Frames : done[f] = i} IN
                      IF heads'[i].freed THEN frames = {} ELSE heads'[i].ref = Cardinality(frames)
    BY <1>1, <1>9, <1>10 DEF RefsExact
  <2>1. CASE i = table
    BY <2>1, <1>5, <1>8, <1>14
  <2>2. CASE i # table
    BY <2>2, <1>3, <1>8 DEF Inv, RefsExact
  <2> QED
    BY <2>1, <2>2
<1>17. FramesFindTheirs'
  <2>1. \A i : GivenUp(i)' = GivenUp(i)
    BY <1>1 DEF GivenUp
  <2>2. ASSUME NEW f \in Frames, done[f] # 0
        PROVE  heads'[done[f]].defrag /\ f \in Members(heads'[done[f]]) \cup {heads'[done[f]].reasIn} \cup GivenUp(done[f])
    <3>1. done[f] \in 1..Len(heads) /\ done[f] # table
      BY <2>2, <1>3, <1>14 DEF Inv, Typed
    <3> QED
      BY <2>2, <3>1, <1>8 DEF Inv, FramesFindTheirs
  <2>3. ASSUME setup.api \in Checks, NEW i \in 1..Len(heads), i # 0, heads'[i].defrag, ~(heads'[i].error /\ heads'[i].freed)
        PROVE  \A f \in Members(heads'[i]) : done[f] >= i
    <3>1. CASE i = table
      BY <3>1, <2>3, <1>2, <1>5, <1>6, <1>8 DEF HeadFine
    <3>2. CASE i # table
      BY <3>2, <2>3, <1>3, <1>8 DEF Inv, FramesFindTheirs
    <3> QED
      BY <3>1, <3>2
  <2>4. ASSUME NEW f \in Frames', done'[f] # 0
        PROVE  heads'[done'[f]].defrag /\ f \in Members(heads'[done'[f]]) \cup {heads'[done'[f]].reasIn} \cup GivenUp(done[f])'
    BY <2>1, <2>2, <2>4, <1>1, <1>10
  <2>5. ASSUME setup'.api \in Checks, NEW i \in DOMAIN heads', i # table', heads'[i].defrag, ~(heads'[i].error /\ heads'[i].freed)
        PROVE  \A f \in Members(heads'[i]) : done'[f] >= i
    BY <2>3, <2>5, <1>1, <1>9
  <2> QED
    BY <2>4, <2>5, <1>1 DEF FramesFindTheirs
<1> QED
  BY <1>11, <1>12, <1>13, <1>15, <1>16, <1>17 DEF Inv

--------------------------------------------------------------------------------
LEMMA InitInv ==
    ASSUME Init
    PROVE  Inv
<1>1. /\ setup \in Setups /\ heads = <<>> /\ table = 0 /\ done = [f \in Frames |-> 0] /\ num = 1
      /\ calls = <<>> /\ given = <<>>
  BY DEF Init
<1>2. setup.calls \in Nat
  BY <1>1, SetupAssumption
<1>3. /\ heads \in Seq(FragmentHead) /\ Len(heads) = 0 /\ calls \in Seq(CallOf) /\ Len(calls) = 0
      /\ given \in Seq(Data) /\ Len(given) = 0
  BY <1>1, EmptySeq
<1>4. DOMAIN heads = {} /\ DOMAIN calls = {}
  BY <1>1
<1>5. \A f \in Frames : done[f] = 0
  BY <1>1
<1>6. Typed
  BY <1>1, <1>2, <1>3 DEF Typed
<1> QED
  BY <1>1, <1>4, <1>5, <1>6 DEF Inv, HeadsOK, TableOK, CallsOK, RefsExact, FramesFindTheirs

LEMMA NextKeeps ==
    ASSUME Inv, [Next]_vars
    PROVE  Inv'
<1>1. CASE AddFragment
  BY <1>1, AddFragmentKeeps
<1>2. CASE SetPartialReassembly
  BY <1>2, SetPartialReassemblyKeeps
<1>3. CASE SetTotLen
  BY <1>3, SetTotLenKeeps
<1>4. CASE ResetTotLen
  BY <1>4, ResetTotLenKeeps
<1>5. CASE Truncate
  BY <1>5, TruncateKeeps
<1>6. CASE EndSeqNext
  BY <1>6, EndSeqNextKeeps
<1>7. CASE Delete
  BY <1>7, DeleteKeeps
<1>8. CASE UNCHANGED vars
  <2>1. /\ setup' = setup /\ heads' = heads /\ table' = table /\ done' = done /\ num' = num /\ calls' = calls
        /\ given' = given /\ Frames' = Frames /\ Seq_' = Seq_
    BY <1>8 DEF vars, Frames, Seq_
  <2>2. \A i : GivenUp(i)' = GivenUp(i)
    BY <2>1 DEF GivenUp
  <2>3. Typed' /\ TableOK' /\ CallsOK' /\ RefsExact'
    BY <2>1 DEF Inv, Typed, TableOK, CallsOK, RefsExact
  <2>4. HeadsOK'
    BY <2>1 DEF Inv, HeadsOK
  <2>5. FramesFindTheirs'
    BY <2>1, <2>2 DEF Inv, FramesFindTheirs
  <2> QED
    BY <2>3, <2>4, <2>5 DEF Inv
<1> QED
  BY <1>1, <1>2, <1>3, <1>4, <1>5, <1>6, <1>7, <1>8 DEF Next, Over

(* The inductive invariant: the head in progress is the youngest and no    *)
(* frame leads to it, each head is fine for the way it is used, a call     *)
(* that was returned is not later than what its head saw last.             *)
THEOREM SpecInv == Spec => []Inv
<1>1. Init => Inv
  BY InitInv
<1>2. Inv /\ [Next]_vars => Inv'
  BY NextKeeps
<1> QED
  BY <1>1, <1>2, PTL DEF Spec

(* What the tables point to is what they say, by the types of the module.  *)
LEMMA InvTyped ==
    ASSUME Inv
    PROVE  TypeOK
<1>1. num \in Frames /\ 0..num \subseteq Frames /\ num \in Nat
  <2>1. num \in 0..num
    BY InFrames DEF Inv
  <2> QED
    BY <2>1, InFrames DEF Inv
<1>2. ASSUME NEW i \in DOMAIN heads
      PROVE  HeadOK(heads[i])
  <2>1. i \in 1..Len(heads) /\ heads[i] \in FragmentHead
    BY LenProperties DEF Inv, Typed
  <2>2. HeadFine(setup.api, heads[i], i = table, num)
    BY DEF Inv, HeadsOK
  <2>3. FramesIn(heads[i]) \cup {heads[i].frame, heads[i].reasIn} \subseteq Frames /\ heads[i].gap \in 0..Len(heads[i].items)
    BY <1>1, <2>2 DEF HeadFine
  <2>4. heads[i].items \in Seq(Item)
    BY <2>1 DEF FragmentHead
  <2>5. ASSUME NEW k \in DOMAIN heads[i].items
        PROVE  /\ heads[i].items[k].off \in Nat /\ heads[i].items[k].frame \in Frames
               /\ heads[i].items[k].flags \subseteq ItemFlags
    <3>1. heads[i].items[k] \in Item
      BY <2>4, LenProperties
    <3>2. heads[i].items[k].frame \in FramesIn(heads[i])
      BY DEF FramesIn
    <3> QED
      BY <3>1, <3>2, <2>3 DEF Item
  <2>6. /\ heads[i].contig \in Nat /\ heads[i].datalen \in Nat /\ heads[i].len \in Nat /\ heads[i].ref \in Nat
        /\ heads[i].flags \subseteq ItemFlags
        /\ {heads[i].set, heads[i].defrag, heads[i].partial, heads[i].error, heads[i].seq, heads[i].freed, heads[i].torn}
             \subseteq BOOLEAN
    BY <2>1 DEF FragmentHead
  <2> QED
    BY <2>3, <2>5, <2>6 DEF HeadOK
<1> QED
  BY <1>1, <1>2 DEF Inv, Typed, TypeOK

(* The tables own what they point to: a head's count is the number of the  *)
(* frames that lead to it, a head that nothing leads to is freed and no    *)
(* other, a frame leads to what it has a part of (fragment_reassembled,    *)
(* reassembled_table_insert, fragment_delete).                             *)
THEOREM SpecTablesExact == Spec => []TablesExact
<1>1. Inv => TablesExact
  BY InvTyped DEF Inv, TablesExact
<1> QED
  BY <1>1, SpecInv, PTL

(* The lists are sorted, first_gap and contiguous_len those of the         *)
(* fragments, whatever was added, cut off, begun again (LINK_FRAG,         *)
(* update_first_gap, fragment_items_removed).                              *)
THEOREM SpecListsExact == Spec => []ListsExact
<1>1. Inv => ListsExact
  <2> SUFFICES ASSUME Inv, NEW i \in DOMAIN heads, ~heads[i].torn
               PROVE  Sorted(heads[i]) /\ GapExact(heads[i])
    BY DEF ListsExact
  <2>1. HeadFine(setup.api, heads[i], i = table, num)
    BY DEF Inv, HeadsOK
  <2> QED
    BY <2>1 DEF HeadFine, ListOK
<1> QED
  BY <1>1, SpecInv, PTL

(* The call that completed a reassembly is answered with it when its       *)
(* packet is dissected again (the lookups at the head of fragment_add_     *)
(* common and fragment_add_seq_common).                                    *)
THEOREM SpecAnsweredAgain == Spec => []AnsweredAgain
<1>1. Inv => AnsweredAgain
  <2> SUFFICES ASSUME Inv, NEW k \in Completed, Sound(heads[table]), Seq_ \/ ~Beyond(heads[table], calls[k])
               PROVE  Revisit(calls[k]) = Answer(table, FALSE)
    BY DEF AnsweredAgain
  <2>1. k \in DOMAIN calls /\ calls[k].returned /\ calls[k].id = table
    BY DEF Completed
  <2>2. /\ calls[k].id \in 1..Len(heads) /\ (~Seq_ => calls[k].from <= heads[table].frame)
        /\ setup.api \notin Checks
    BY <2>1 DEF Inv, CallsOK
  <2>3. table # 0 /\ table \in DOMAIN heads /\ Len(heads) \in Nat
    BY <2>1, <2>2, LenProperties DEF Inv, Typed
  <2>4. heads[table] \in FragmentHead /\ HeadFine(setup.api, heads[table], TRUE, num)
    BY <2>3, InTable
  <2>5. Seq_ <=> heads[table].seq
    BY <2>4 DEF HeadFine, Seq_
  <2>6. heads[table].defrag /\ ~heads[table].error
    BY DEF Sound
  <2>7. calls[k] \in CallOf
    BY <2>1, LenProperties DEF Inv, Typed
  <2>8. heads[table].seq \/ ~(calls[k].from > heads[table].frame)
    <3>1. calls[k].from \in Int /\ heads[table].frame \in Int
      BY <2>4, <2>7 DEF CallOf, FragmentHead
    <3> QED
      BY <3>1, <2>2, <2>5
  <2>9. ~(~heads[table].seq /\ (heads[table].error \/ calls[k].from > heads[table].frame \/ Beyond(heads[table], calls[k])))
    BY <2>5, <2>6, <2>8
  <2> QED
    BY <2>2, <2>3, <2>6, <2>9 DEF Revisit, Answer
<1> QED
  BY <1>1, SpecInv, PTL

--------------------------------------------------------------------------------
(* The bytes.  The pieces of a head are the calls that added a fragment to  *)
(* it that does not wrap; of each as much is held as was not cut off.       *)
PiecesOf(i)    == {calls[k] : k \in AddedTo(i)}
Holds(c, p)  == c.off <= p /\ p < c.off + c.kept
HeldBy(R, p, byte) == \E c \in R : Holds(c, p) /\ byte = <<p, 0, c.v>>

Clash(R) == \E c, d \in R : \E p \in 0..(Modulus - 1) : c.v # d.v /\ Has(c, p) /\ Has(d, p)

Agrees(data, c) == \A q \in 1..c.kept : q <= Len(data) => data[q] = <<c.off + q - 1, 0, c.v>>

(* A piece is in the list, and agrees with the data, is marked, or came     *)
(* late and was not looked at.                                              *)
Stood(h, c, late) ==
    \E f \in Elems(h) :
        /\ f.off = c.off /\ f.len = c.kept
        /\ "conflict" \in f.flags \/ Agrees(Rest(h, f), c) \/ (late /\ c.toolong /\ c.off + c.kept > h.datalen)

ItemMade(h, R, f) ==
    /\ "conflict" \in f.flags => "conflict" \in h.flags
    /\ h.defrag /\ f.len > 0 => f.data = NoData
    /\ ~h.defrag => f.data # NoData
    /\ ~Wraps(f) => \A q \in 1..Len(Rest(h, f)) : HeldBy(R, f.off + q - 1, Rest(h, f)[q])

Made(h, R, late) ==
    /\ h.defrag => \A p \in 1..Len(h.data) : HeldBy(R, p - 1, h.data[p])
    /\ \A f \in Elems(h) : ItemMade(h, R, f)
    /\ "conflict" \in h.flags => Clash(R)
    /\ \A c \in R : c.kept > 0 => Stood(h, c, late)

AsLate(i) == setup.api = "fallback" /\ i # table

BytesOK ==
    ~Seq_ =>
        /\ \A k \in DOMAIN calls : calls[k].kept <= calls[k].len
        /\ \A i \in DOMAIN heads : ~heads[i].torn => Made(heads[i], PiecesOf(i), AsLate(i))

Proper(R) == R \subseteq CallOf /\ \A c \in R : ~Wraps(c) /\ c.kept <= c.len

LEMMA PieceIs ==
    ASSUME NEW R, Proper(R), NEW c \in R
    PROVE  /\ c \in CallOf /\ c.off \in Nat /\ c.len \in Nat /\ c.kept \in Nat /\ c.kept <= c.len
           /\ c.off + c.len < Modulus
           /\ \A p \in Int : Holds(c, p) => Has(c, p) /\ p \in 0..(Modulus - 1)
<1>1. c \in CallOf /\ ~Wraps(c) /\ c.kept <= c.len /\ c.off \in Nat /\ c.len \in Length /\ c.kept \in Length
  BY DEF Proper, CallOf
<1>2. Fragment(c)
  BY <1>1 DEF Fragment, Length
<1>3. End(c) = c.off + c.len /\ End(c) \in 0..(Modulus - 1)
  BY <1>1, <1>2, EndIs
<1>4. Modulus \in Nat /\ c.len \in Nat /\ c.kept \in Nat
  BY <1>1, ModulusAssumption DEF Length
<1>5. c.off + c.len < Modulus
  BY <1>1, <1>3, <1>4
<1> QED
  BY <1>1, <1>4, <1>5 DEF Holds, Has

LEMMA HeldMore ==
    ASSUME NEW R, NEW S, R \subseteq S
    PROVE  /\ \A p, byte : HeldBy(R, p, byte) => HeldBy(S, p, byte)
           /\ Clash(R) => Clash(S)
  BY DEF HeldBy, Clash

LEMMA ClashIs ==
    ASSUME NEW R, Proper(R), NEW p \in Int, NEW a, NEW b, a # b, HeldBy(R, p, a), HeldBy(R, p, b)
    PROVE  Clash(R)
<1>1. PICK c \in R : Holds(c, p) /\ a = <<p, 0, c.v>>
  BY DEF HeldBy
<1>2. PICK d \in R : Holds(d, p) /\ b = <<p, 0, d.v>>
  BY DEF HeldBy
<1>3. c.v # d.v
  BY <1>1, <1>2
<1>4. Has(c, p) /\ Has(d, p) /\ p \in 0..(Modulus - 1)
  BY <1>1, <1>2, PieceIs
<1> QED
  BY <1>3, <1>4 DEF Clash

LEMMA NoByte == \A p, v : <<p, 0, v>> # <<>>
  OBVIOUS

(* What a fragment brings is its own.                                      *)
LEMMA BytesHeld ==
    ASSUME ~Seq_, NEW c \in CallOf, NEW e \in CallOf, e.off = c.off, e.len = c.len, e.kept = c.len, e.v = c.v
    PROVE  /\ Bytes(c, c.off) \in Data /\ Len(Bytes(c, c.off)) = c.len /\ Bytes(c, c.off) # NoData
           /\ \A q \in 1..c.len : HeldBy({e}, c.off + q - 1, Bytes(c, c.off)[q])
           /\ Agrees(Bytes(c, c.off), e)
<1> DEFINE b == Bytes(c, c.off)
<1>1. c.off \in Nat /\ c.len \in Nat
  BY ModulusAssumption DEF CallOf, Length
<1>2. b \in Data /\ Len(b) = c.len /\ \A q \in 1..c.len : b[q] = <<c.off + q - 1, 0, c.v>>
  BY <1>1, BytesType
<1> HIDE DEF b
<1>3. b # NoData
  <2> SUFFICES ASSUME b = NoData PROVE FALSE
    OBVIOUS
  <2>1. Len(b) = 1 /\ b[1] = <<>>
    BY NoDataType
  <2>2. 1 \in 1..c.len
    BY <1>2, <2>1
  <2>3. PICK p : b[1] = <<p, 0, c.v>>
    BY <1>2, <2>2
  <2> QED
    BY <2>1, <2>3, NoByte
<1>4. ASSUME NEW q \in 1..c.len
      PROVE  Holds(e, c.off + q - 1)
  BY <1>1 DEF Holds
<1> QED
  BY <1>2, <1>3, <1>4 DEF HeldBy, Agrees, b

(* A head that only gets more fragments, its data and marks as before.     *)
LEMMA MadeGrows ==
    ASSUME NEW h, NEW x, NEW R, NEW S, R \subseteq S, NEW late \in BOOLEAN, Made(h, R, late),
           x.defrag = h.defrag, x.data = h.data, late => x.datalen = h.datalen,
           "conflict" \in h.flags => "conflict" \in x.flags,
           Elems(h) \subseteq Elems(x), \A f \in Elems(x) \ Elems(h) : ItemMade(x, S, f),
           "conflict" \in x.flags /\ "conflict" \notin h.flags => Clash(S),
           \A c \in S \ R : c.kept > 0 => Stood(x, c, late)
    PROVE  Made(x, S, late)
<1>1. \A f : Rest(x, f) = Rest(h, f)
  BY DEF Rest
<1>2. x.defrag => \A p \in 1..Len(x.data) : HeldBy(S, p - 1, x.data[p])
  BY HeldMore DEF Made
<1>3. ASSUME NEW f \in Elems(x)
      PROVE  ItemMade(x, S, f)
  <2>1. CASE f \in Elems(h)
    <3>1. ItemMade(h, R, f)
      BY <2>1 DEF Made
    <3>2. \A p, byte : HeldBy(R, p, byte) => HeldBy(S, p, byte)
      BY HeldMore
    <3>3. ~Wraps(f) => \A q \in 1..Len(Rest(x, f)) : HeldBy(S, f.off + q - 1, Rest(x, f)[q])
      BY <3>1, <3>2, <1>1 DEF ItemMade
    <3> QED
      BY <3>1, <3>3 DEF ItemMade
  <2> QED
    BY <2>1
<1>4. "conflict" \in x.flags => Clash(S)
  BY HeldMore DEF Made
<1>5. ASSUME NEW c \in S, c.kept > 0
      PROVE  Stood(x, c, late)
  <2>1. CASE c \in R
    <3>1. Stood(h, c, late)
      BY <1>5, <2>1 DEF Made
    <3>2. PICK f \in Elems(h) :
             /\ f.off = c.off /\ f.len = c.kept
             /\ "conflict" \in f.flags \/ Agrees(Rest(h, f), c) \/ (late /\ c.toolong /\ c.off + c.kept > h.datalen)
      BY <3>1 DEF Stood
    <3>3. "conflict" \in f.flags \/ Agrees(Rest(x, f), c) \/ (late /\ c.toolong /\ c.off + c.kept > x.datalen)
      BY <3>2, <1>1
    <3> QED
      BY <3>2, <3>3 DEF Stood
  <2> QED
    BY <1>5, <2>1
<1> QED
  BY <1>2, <1>3, <1>4, <1>5 DEF Made

(* The call that is logged, and the pieces with it.                        *)
Copy(c, e)    == e \in CallOf /\ e.off = c.off /\ e.len = c.len /\ e.kept = c.len /\ e.v = c.v
With(R, c, e) == IF Wraps(c) THEN R ELSE R \cup {e}

LEMMA CopyIs ==
    ASSUME NEW c \in CallOf, NEW e, Copy(c, e), NEW R, Proper(R)
    PROVE  /\ Wraps(e) = Wraps(c) /\ Proper(With(R, c, e)) /\ R \subseteq With(R, c, e)
           /\ c.off \in Nat /\ c.len \in Nat /\ c.len < Modulus /\ e.off \in Nat /\ e.len \in Nat
<1>1. Wraps(e) = Wraps(c)
  BY DEF Copy, Wraps, End
<1>2. c.off \in Nat /\ c.len \in Nat /\ c.len < Modulus
  BY ModulusAssumption DEF CallOf, Length
<1>3. ~Wraps(c) => ~Wraps(e) /\ e.kept <= e.len /\ e \in CallOf
  BY <1>1, <1>2 DEF Copy
<1>4. Proper(With(R, c, e))
  BY <1>3 DEF Proper, With
<1> QED
  BY <1>1, <1>2, <1>4 DEF With, Copy

(* A place of the data of a completed head.                                *)
LEMMA RestHeld ==
    ASSUME NEW data \in Data, NEW S, \A p \in 1..Len(data) : HeldBy(S, p - 1, data[p]), NEW off \in Nat
    PROVE  \A q \in 1..Len(Remaining(data, off)) :
              /\ q <= Len(data) - off /\ off + q \in 1..Len(data) /\ Remaining(data, off)[q] = data[off + q]
              /\ HeldBy(S, off + q - 1, Remaining(data, off)[q])
<1>1. Len(data) \in Nat
  BY LenProperties DEF Data
<1>2. Len(Remaining(data, off)) = (IF off <= Len(data) THEN Len(data) - off ELSE 0)
  BY RemainingType
<1> SUFFICES ASSUME NEW q \in 1..Len(Remaining(data, off))
             PROVE  /\ q <= Len(data) - off /\ off + q \in 1..Len(data) /\ Remaining(data, off)[q] = data[off + q]
                    /\ HeldBy(S, off + q - 1, Remaining(data, off)[q])
  OBVIOUS
<1>3. q \in 1..(Len(data) - off) /\ off + q \in 1..Len(data)
  BY <1>1, <1>2
<1>4. Remaining(data, off)[q] = data[off + q]
  BY <1>3, RemainingType
<1> QED
  BY <1>3, <1>4

LEMMA FrontIs ==
    ASSUME NEW b \in Data, NEW n \in Nat, n <= Len(b), NEW t, t = SubSeq(b, 1, n)
    PROVE  t \in Data /\ Len(t) = n /\ \A q \in 1..n : t[q] = b[q]
<1>1. 1 \in Int /\ n \in Int /\ \A i \in 1..n : b[i] \in Byte
  BY LenProperties DEF Data
<1>2. /\ t \in Seq(Byte)
      /\ Len(t) = IF 1 <= n THEN n - 1 + 1 ELSE 0
      /\ \A i \in 1..(n - 1 + 1) : t[i] = b[1 + i - 1]
  BY <1>1, SubSeqProperties
<1>3. \A q \in 1..n : q \in 1..(n - 1 + 1) /\ 1 + q - 1 = q
  OBVIOUS
<1>4. (1 <= n => n - 1 + 1 = n) /\ (~ (1 <= n) => n = 0)
  OBVIOUS
<1> QED
  BY <1>2, <1>3, <1>4 DEF Data

(* Two parts of data that differ do so somewhere.                          *)
LEMMA DifferSomewhere ==
    ASSUME NEW a \in Data, NEW b \in Data, NEW m \in Nat, NEW n \in Nat, m + n <= Len(a), n <= Len(b),
           SubSeq(a, m + 1, m + n) # SubSeq(b, 1, n)
    PROVE  \E q \in 1..n : a[m + q] # b[q]
<1> DEFINE s == SubSeq(a, m + 1, m + n)
           t == SubSeq(b, 1, n)
<1>1. Len(a) \in Nat /\ Len(b) \in Nat /\ (\A i \in 1..Len(a) : a[i] \in Byte) /\ (\A i \in 1..Len(b) : b[i] \in Byte)
  BY LenProperties DEF Data
<1>2. s \in Seq(Byte) /\ Len(s) = n /\ \A q \in 1..n : s[q] = a[m + q]
  <2>1. m + 1 \in Int /\ m + n \in Int /\ \A i \in (m + 1)..(m + n) : a[i] \in Byte
    BY <1>1
  <2>2. /\ s \in Seq(Byte)
        /\ Len(s) = IF m + 1 <= m + n THEN m + n - (m + 1) + 1 ELSE 0
        /\ \A i \in 1..(m + n - (m + 1) + 1) : s[i] = a[(m + 1) + i - 1]
    BY <2>1, SubSeqProperties
  <2>3. \A q \in 1..n : q \in 1..(m + n - (m + 1) + 1) /\ (m + 1) + q - 1 = m + q
    OBVIOUS
  <2>4. (m + 1 <= m + n => m + n - (m + 1) + 1 = n) /\ (~ (m + 1 <= m + n) => n = 0)
    OBVIOUS
  <2> HIDE DEF s
  <2> QED
    BY <2>2, <2>3, <2>4
<1>3. t \in Seq(Byte) /\ Len(t) = n /\ \A q \in 1..n : t[q] = b[q]
  BY FrontIs DEF Data
<1> HIDE DEF s, t
<1>4. s # t
  BY DEF s, t
<1>5. \E q \in 1..n : s[q] # t[q]
  BY <1>2, <1>3, <1>4, SeqEqual
<1> QED
  BY <1>2, <1>3, <1>5

(* And those that do not, nowhere.                                         *)
LEMMA SameEverywhere ==
    ASSUME NEW a \in Data, NEW b \in Data, NEW m \in Nat, NEW n \in Nat, m + n <= Len(a), n <= Len(b),
           SubSeq(a, m + 1, m + n) = SubSeq(b, 1, n)
    PROVE  \A q \in 1..n : a[m + q] = b[q]
<1> DEFINE s == SubSeq(a, m + 1, m + n)
           t == SubSeq(b, 1, n)
<1>1. Len(a) \in Nat /\ Len(b) \in Nat /\ (\A i \in 1..Len(a) : a[i] \in Byte) /\ (\A i \in 1..Len(b) : b[i] \in Byte)
  BY LenProperties DEF Data
<1>2. \A q \in 1..n : s[q] = a[m + q]
  <2>1. m + 1 \in Int /\ m + n \in Int /\ \A i \in (m + 1)..(m + n) : a[i] \in Byte
    BY <1>1
  <2>2. \A i \in 1..(m + n - (m + 1) + 1) : s[i] = a[(m + 1) + i - 1]
    BY <2>1, SubSeqProperties
  <2>3. \A q \in 1..n : q \in 1..(m + n - (m + 1) + 1) /\ (m + 1) + q - 1 = m + q
    OBVIOUS
  <2> HIDE DEF s
  <2> QED
    BY <2>2, <2>3
<1>3. \A q \in 1..n : t[q] = b[q]
  BY FrontIs
<1> HIDE DEF s, t
<1> QED
  BY <1>2, <1>3 DEF s, t

LEMMA WholeSeq ==
    ASSUME NEW b \in Data
    PROVE  SubSeq(b, 1, Len(b)) = b
<1>1. PICK n : n = Len(b)
  OBVIOUS
<1>2. PICK t : t = SubSeq(b, 1, n)
  OBVIOUS
<1>3. n \in Nat /\ n <= Len(b) /\ b \in Seq(Byte)
  BY <1>1, LenProperties DEF Data
<1>4. t \in Seq(Byte) /\ Len(t) = n /\ \A q \in 1..n : t[q] = b[q]
  BY <1>2, <1>3, FrontIs DEF Data
<1>5. t = b
  BY <1>1, <1>3, <1>4, SeqEqual
<1> QED
  BY <1>1, <1>2, <1>5

(* A fragment of a completed head is compared and listed.                  *)
LEMMA OverlapMade ==
    ASSUME ~Seq_, NEW h \in FragmentHead, h.defrag, ~h.torn, Sized(h), NEW R, Proper(R),
           NEW late \in BOOLEAN, Made(h, R, late), NEW c \in CallOf, NEW r, OverlapOf(h, c, r), Beyond(h, c) => late,
           NEW e, Copy(c, e), "toolong" \in r.h.flags => e.toolong
    PROVE  Len(r.h.items) = Len(h.items) + 1 /\ Made(r.h, With(R, c, e), late)
<1> DEFINE S == With(R, c, e)
           b == Bytes(c, c.off)
<1>1. PICK fs, k, m :
         /\ fs \in SUBSET {"tails"} /\ k = TailOf(h, c, fs) /\ m = Flag(NewItem(c), fs)
         /\ k \in FragmentHead /\ ListOK(k) /\ m \in Item /\ r = AddOverlap(k, m, b)
  BY DEF OverlapOf
<1>2. h.set /\ (Len(h.data) = h.datalen \/ h.datalen = 0) /\ h.data \in Data /\ Len(h.data) \in Nat /\ h.datalen \in Nat
  BY LenProperties DEF Sized, FragmentHead, Data
<1>3. /\ k.data = h.data /\ k.datalen = h.datalen /\ k.defrag /\ k.items = h.items /\ k.flags = h.flags \cup fs
  BY <1>1, <1>2 DEF TailOf, FragmentHead
<1>4. /\ c.off \in Nat /\ c.len \in Nat /\ Wraps(e) = Wraps(c) /\ Proper(S) /\ R \subseteq S
      /\ e.off = c.off /\ e.len = c.len /\ e.kept = c.len /\ e.v = c.v /\ e \in CallOf
  BY CopyIs DEF Copy
<1>5. /\ m.off = c.off /\ m.len = c.len /\ m.data = NoData /\ m.flags = fs /\ End(m) = Plus(c.off, c.len)
      /\ Wraps(m) = Wraps(c)
  BY <1>1 DEF NewItem, Flag, End, Wraps
<1>6. /\ b \in Data /\ Len(b) = c.len /\ \A q \in 1..c.len : HeldBy({e}, c.off + q - 1, b[q])
      /\ Agrees(b, e)
  BY <1>4, BytesHeld
<1> HIDE DEF S, b
<1>7. PICK ms, w, x : ms = Marked(k, m, b) /\ w = Flag(m, ms) /\ x = r.h
  OBVIOUS
<1>8. /\ x \in FragmentHead /\ x = Relisted(Flag(k, ms), x) /\ w \in Item
      /\ Len(x.items) = Len(k.items) + 1 /\ Elems(x) = Elems(k) \cup {w}
  <2>1. /\ r.h \in FragmentHead /\ r.h = Relisted(Flag(k, ms), r.h) /\ w \in Item
        /\ Len(r.h.items) = Len(k.items) + 1 /\ Elems(r.h) = Elems(k) \cup {w}
    <3>1. k \in FragmentHead /\ m \in Item /\ ListOK(k) /\ r = AddOverlap(k, m, b) /\ ms = Marked(k, m, b) /\ w = Flag(m, ms)
      BY <1>1, <1>7
    <3> QED
      BY ONLY <3>1, AddOverlapIs
  <2> QED
    BY <1>7, <2>1
<1>9. x.data = h.data /\ x.datalen = h.datalen /\ x.defrag /\ x.flags = h.flags \cup fs \cup ms
  <2>1. k \in FragmentHead /\ x = Relisted(Flag(k, ms), x)
    BY <1>1, <1>8
  <2>2. x.data = k.data /\ x.datalen = k.datalen /\ x.defrag = k.defrag /\ x.flags = k.flags \cup ms
    BY ONLY <2>1 DEF Relisted, Flag, FragmentHead
  <2> QED
    BY <1>3, <2>2
<1>10. w.off = c.off /\ w.len = c.len /\ w.data = NoData /\ w.flags = fs \cup ms /\ Wraps(w) = Wraps(c)
  <2>1. m \in Item /\ w = [m EXCEPT !.flags = @ \cup ms]
    BY <1>1, <1>7 DEF Flag
  <2>2. w.off = m.off /\ w.len = m.len /\ w.data = m.data /\ w.flags = m.flags \cup ms
    BY <2>1 DEF Item
  <2>3. Wraps(w) = Wraps(m)
    BY <2>2 DEF Wraps, End
  <2> QED
    BY <1>5, <2>2, <2>3
<1>11. Elems(x) = Elems(h) \cup {w}
  BY <1>3, <1>8 DEF Elems
<1>12. \A p \in 1..Len(h.data) : HeldBy(S, p - 1, h.data[p])
  BY <1>4, HeldMore DEF Made
<1>13. Rest(x, w) = Remaining(h.data, c.off)
  BY <1>9, <1>10 DEF Rest
<1>14. \A q \in 1..Len(Rest(x, w)) :
          /\ q <= Len(h.data) - c.off /\ c.off + q \in 1..Len(h.data) /\ Rest(x, w)[q] = h.data[c.off + q]
          /\ HeldBy(S, c.off + q - 1, Rest(x, w)[q])
  <2>1. PICK rest : rest = Remaining(h.data, c.off)
    OBVIOUS
  <2>2. \A q \in 1..Len(rest) :
          /\ q <= Len(h.data) - c.off /\ c.off + q \in 1..Len(h.data) /\ rest[q] = h.data[c.off + q]
          /\ HeldBy(S, c.off + q - 1, rest[q])
    BY <1>2, <1>4, <1>12, <2>1, RestHeld
  <2> QED
    BY <1>13, <2>1, <2>2
<1>15. ItemMade(x, S, w)
  BY <1>9, <1>10, <1>14 DEF ItemMade
<1>16. ASSUME "conflict" \in ms
       PROVE  /\ ~Wraps(c) /\ c.off + c.len <= Len(h.data) /\ SubSeq(h.data, c.off + 1, c.off + c.len) # b
  <2>1. ~ (End(m) > k.datalen \/ Wraps(m)) /\ SubSeq(k.data, m.off + 1, m.off + m.len) # b
    BY <1>7, <1>16 DEF Marked
  <2>2. SubSeq(h.data, c.off + 1, c.off + c.len) # b /\ ~Wraps(c)
    BY <2>1, <1>3, <1>5
  <2>3. End(m) = c.off + c.len
    <3>1. Fragment(m)
      BY <1>1, ItemsAreFragments
    <3> QED
      BY <3>1, <1>5, <2>2, EndIs
  <2>4. c.off + c.len <= h.datalen
    BY <1>2, <1>3, <1>4, <2>1, <2>3
  <2>5. h.datalen <= Len(h.data)
    BY <1>2
  <2> QED
    BY <1>2, <1>4, <2>2, <2>4, <2>5
<1>17. ASSUME "conflict" \in ms
       PROVE  Clash(S)
  <2>1. SubSeq(b, 1, c.len) = b
    BY <1>6, WholeSeq
  <2>2. SubSeq(h.data, c.off + 1, c.off + c.len) # SubSeq(b, 1, c.len)
    BY <2>1, <1>16, <1>17
  <2>3. PICK q \in 1..c.len : h.data[c.off + q] # b[q]
    <3>1. c.off + c.len <= Len(h.data) /\ c.len <= Len(b)
      BY <1>4, <1>6, <1>16, <1>17
    <3>2. PICK a, m1, n1 : a = h.data /\ m1 = c.off /\ n1 = c.len
      OBVIOUS
    <3>3. /\ a \in Data /\ b \in Data /\ m1 \in Nat /\ n1 \in Nat /\ m1 + n1 <= Len(a) /\ n1 <= Len(b)
          /\ SubSeq(a, m1 + 1, m1 + n1) # SubSeq(b, 1, n1)
      BY <1>2, <1>4, <1>6, <2>2, <3>1, <3>2
    <3>4. \E q \in 1..n1 : a[m1 + q] # b[q]
      BY ONLY <3>3, DifferSomewhere
    <3> QED
      BY ONLY <3>2, <3>4
  <2>4. c.off + q \in 1..Len(h.data) /\ c.off + q - 1 \in Int
    BY <1>2, <1>4, <1>16, <1>17
  <2>5. HeldBy(S, c.off + q - 1, h.data[c.off + q])
    <3>1. PICK p \in 1..Len(h.data) : p = c.off + q
      BY <2>4
    <3>2. HeldBy(S, p - 1, h.data[p])
      BY <1>12
    <3> QED
      BY <3>1, <3>2, <1>4
  <2>6. HeldBy({e}, c.off + q - 1, b[q]) /\ {e} \subseteq S
    BY <1>6, <1>16, <1>17 DEF S, With
  <2>7. HeldBy(S, c.off + q - 1, b[q])
    BY <2>6, HeldMore
  <2> QED
    BY <1>4, <2>3, <2>4, <2>5, <2>7, ClashIs
<1>18. ASSUME e.kept > 0, ~Wraps(c)
       PROVE  Stood(x, e, late)
  <2>1. CASE "conflict" \in ms
    BY <2>1, <1>4, <1>10, <1>11 DEF Stood
  <2>2. CASE "conflict" \notin ms
    <3>0. End(m) = c.off + c.len
      <4>1. Fragment(m)
        BY <1>1, ItemsAreFragments
      <4> QED
        BY <4>1, <1>5, <1>18, EndIs
    <3>1. CASE End(m) > k.datalen
      <4>1. Beyond(h, c) /\ e.off + e.kept > x.datalen
        BY <3>0, <3>1, <1>3, <1>4, <1>5, <1>9 DEF Beyond
      <4>2. "toolong" \in ms
        BY <3>1, <1>7 DEF Marked
      <4>3. e.toolong
        BY <4>2, <1>7, <1>9
      <4> QED
        BY <4>1, <4>3, <1>4, <1>10, <1>11 DEF Stood
    <3>2. CASE ~ (End(m) > k.datalen)
      <4>1. SubSeq(h.data, c.off + 1, c.off + c.len) = b
        BY <2>2, <3>2, <1>3, <1>5, <1>7, <1>18 DEF Marked
      <4>2. SubSeq(h.data, c.off + 1, c.off + c.len) = SubSeq(b, 1, c.len)
        <5>1. SubSeq(b, 1, c.len) = b
          BY <1>6, WholeSeq
        <5> QED
          BY <4>1, <5>1, Zenon
      <4>3. c.off + c.len <= Len(h.data)
        BY <3>0, <3>2, <1>2, <1>3, <1>4, <1>18
      <4>4. \A q \in 1..c.len : h.data[c.off + q] = b[q]
        <5>1. h.data \in Data /\ b \in Data /\ c.off \in Nat /\ c.len \in Nat /\ c.len <= Len(b)
          BY <1>2, <1>4, <1>6
        <5>2. PICK a, off, n : a = h.data /\ off = c.off /\ n = c.len
          OBVIOUS
        <5>3. /\ a \in Data /\ b \in Data /\ off \in Nat /\ n \in Nat /\ off + n <= Len(a) /\ n <= Len(b)
              /\ SubSeq(a, off + 1, off + n) = SubSeq(b, 1, n)
          BY ONLY <4>2, <4>3, <5>1, <5>2
        <5>4. \A q \in 1..n : a[off + q] = b[q]
          BY ONLY <5>3, SameEverywhere
        <5> QED
          BY <5>2, <5>4
      <4>5. Agrees(Rest(x, w), e)
        <5> SUFFICES ASSUME NEW q \in 1..c.len, q <= Len(Rest(x, w))
                     PROVE  Rest(x, w)[q] = <<c.off + q - 1, 0, e.v>>
          BY <1>4 DEF Agrees
        <5>1. q \in 1..Len(Rest(x, w))
          <6>1. Len(Rest(x, w)) \in Nat
            <7>1. Remaining(h.data, c.off) \in Data
              BY <1>2, <1>4, RemainingType
            <7> QED
              BY <7>1, <1>13, LenProperties DEF Data
          <6> QED
            BY <6>1
        <5>2. b[q] = <<c.off + q - 1, 0, e.v>>
          BY <1>4, <1>6 DEF Agrees
        <5> QED
          BY <5>1, <5>2, <4>4, <1>14
      <4> QED
        BY <4>5, <1>4, <1>10, <1>11 DEF Stood
    <3> QED
      BY <3>1, <3>2
  <2> QED
    BY <2>1, <2>2
<1>19. "conflict" \in x.flags /\ "conflict" \notin h.flags => Clash(S)
  <2>1. "conflict" \notin fs
    BY <1>1
  <2> QED
    BY <1>9, <1>17, <2>1
<1>20. \A d \in S \ R : d.kept > 0 => Stood(x, d, late)
  BY <1>18 DEF S, With
<1>21. /\ x.defrag = h.defrag /\ \A f \in Elems(x) \ Elems(h) : ItemMade(x, S, f)
       /\ Elems(h) \subseteq Elems(x) /\ ("conflict" \in h.flags => "conflict" \in x.flags)
  BY <1>9, <1>11, <1>15 DEF FragmentHead
<1>22. Made(x, S, late)
  <2>1. /\ R \subseteq S /\ Made(h, R, late) /\ x.data = h.data /\ (late => x.datalen = h.datalen)
        /\ late \in BOOLEAN
    BY <1>4, <1>9
  <2> QED
    BY ONLY <1>19, <1>20, <1>21, <2>1, MadeGrows
<1> QED
  BY <1>3, <1>7, <1>8, <1>22 DEF S

(* The loop that puts the data together.                                   *)
LEMMA UsedHas ==
    ASSUME NEW l \in FragmentHead, NEW i \in 1..Len(l.items), NEW f, f = l.items[i], ~Wraps(f), f.data # NoData,
           NEW q \in 1..f.len, f.off + q <= l.datalen
    PROVE  i \in Used(l) /\ q <= Fits(l, f) /\ i \in Having(l, f.off + q)
<1>1. l.items \in Seq(Item) /\ l.datalen \in Nat
  BY DEF FragmentHead
<1>2. f \in Item /\ i \in DOMAIN l.items
  BY <1>1, LenProperties
<1>3. f.off \in Nat /\ f.len \in Nat
  BY <1>2, ItemIs
<1>4. f.len > 0 /\ f.off < l.datalen
  BY <1>1, <1>3
<1>5. i \in Used(l)
  BY <1>2, <1>4 DEF Used, Lost
<1>6. /\ Fits(l, f) \in Nat
      /\ f.off + f.len <= l.datalen => Fits(l, f) = f.len
      /\ f.off + f.len > l.datalen => f.off + Fits(l, f) = l.datalen
  BY <1>5, FitsIs
<1>7. q <= Fits(l, f)
  <2>1. q \in Nat
    BY <1>3
  <2> QED
    BY ONLY <2>1, <1>1, <1>3, <1>6, q <= f.len, f.off + q <= l.datalen
<1>8. f.off < f.off + q /\ f.off + q <= f.off + Fits(l, f)
  BY <1>3, <1>6, <1>7
<1> QED
  BY <1>5, <1>7, <1>8 DEF Having

LEMMA AllHeld ==
    ASSUME NEW l \in FragmentHead, ListOK(l), ~l.defrag, l.contig >= l.datalen, NEW S, NEW late, Made(l, S, late),
           \A i \in Used(l) : ~ReadsPast(l, i), NEW p \in 1..l.datalen
    PROVE  HeldBy(S, p - 1, Assembled(l)[p])
<1>1. l.items \in Seq(Item) /\ l.datalen \in Nat /\ l.contig \in Nat /\ DOMAIN l.items = 1..Len(l.items)
  BY LenProperties DEF FragmentHead
<1>2. p - 1 \in 0..(l.contig - 1)
  BY <1>1
<1>3. PICK i \in 1..l.gap : Covers(l.items[i], p - 1)
  BY <1>2 DEF ListOK, GapExact
<1>4. i \in 1..Len(l.items) /\ l.items[i] \in Item
  <2>1. l.gap \in 0..Len(l.items) /\ Len(l.items) \in Nat
    BY <1>1, LenProperties DEF ListOK, GapExact
  <2> QED
    BY <1>1, <2>1
<1>5. PICK f : f = l.items[i]
  OBVIOUS
<1>6. ~Wraps(f) /\ f.off <= p - 1 /\ p - 1 < f.off + f.len /\ f.off \in Nat /\ f.len \in Nat
  <2>1. Fragment(f)
    BY <1>4, <1>5, ItemsAreFragments
  <2>2. Covers(f, p - 1) /\ p - 1 \in Int
    BY <1>1, <1>3, <1>5
  <2> QED
    BY <2>1, <2>2, EndIs
<1>7. f \in Elems(l) /\ f.data # NoData
  <2>1. f \in Elems(l)
    BY <1>1, <1>4, <1>5 DEF Elems
  <2> QED
    BY <2>1 DEF Made, ItemMade
<1>8. PICK q : q = p - f.off
  OBVIOUS
<1>9. q \in 1..f.len /\ f.off + q = p
  BY <1>1, <1>6, <1>8
<1>10. i \in Having(l, p)
  <2>1. f.off + q <= l.datalen
    BY <1>1, <1>9
  <2>2. i \in Having(l, f.off + q)
    BY <1>4, <1>5, <1>6, <1>7, <1>9, <2>1, UsedHas
  <2> QED
    BY <1>9, <2>2
<1>11. PICK j : j = Min(Having(l, p))
  OBVIOUS
<1>12. /\ j \in Used(l) /\ j \in 1..Len(l.items) /\ l.items[j] \in Item
       /\ p - l.items[j].off \in 1..Len(l.items[j].data)
  BY <1>10, <1>11, FirstHaving DEF ListOK
<1>13. PICK g : g = l.items[j]
  OBVIOUS
<1>14. Assembled(l)[p] = g.data[p - g.off]
  <2>1. Having(l, p) # {} /\ Sorted(l)
    BY <1>10 DEF ListOK
  <2> QED
    BY <1>11, <1>13, <2>1, AssembledIs
<1>15. ~Wraps(g) /\ g.data # NoData /\ g \in Elems(l) /\ g.off \in Nat
  <2>1. g \in Elems(l)
    BY <1>1, <1>12, <1>13 DEF Elems
  <2>2. g.off \in Nat
    BY <1>12, <1>13, ItemIs
  <2> QED
    BY <1>12, <1>13, <2>1, <2>2 DEF Used, Lost
<1>16. Rest(l, g) = g.data /\ ItemMade(l, S, g)
  BY <1>15 DEF Rest, Made
<1>17. PICK d : d = p - g.off
  OBVIOUS
<1>18. d \in 1..Len(g.data)
  BY <1>12, <1>13, <1>17
<1>19. HeldBy(S, g.off + d - 1, g.data[d])
  BY <1>15, <1>16, <1>18 DEF ItemMade
<1>20. g.off + d - 1 = p - 1
  BY <1>1, <1>15, <1>17
<1> QED
  BY <1>14, <1>17, <1>19, <1>20

(* Where a fragment is used, its bytes are taken or those that are there   *)
(* are compared with them.                                                 *)
LEMMA ComparedIs ==
    ASSUME NEW l \in FragmentHead, Sorted(l), \A k \in Used(l) : ~ReadsPast(l, k), NEW i \in Used(l)
    PROVE  LET f == l.items[i] IN
           /\ Compared(l, i) \in Int /\ Overlap(l, i) \in Int /\ Compared(l, i) <= f.len
           /\ Compared(l, i) <= Overlap(l, i) /\ Compared(l, i) <= Len(f.data)
           /\ f.off + Compared(l, i) <= l.datalen
           /\ \A q \in 1..f.len : q <= Overlap(l, i) => q <= Compared(l, i)
<1>1. PICK f : f = l.items[i]
  OBVIOUS
<1>2. i \in 1..Len(l.items) /\ f \in Item
  BY <1>1, FitsIs
<1>3. f.off \in Nat /\ f.len \in Nat /\ Len(f.data) \in Nat
  BY <1>2, ItemIs
<1>4. Filled(l, i) \in Nat /\ Filled(l, i) <= l.datalen /\ l.datalen \in Nat
  BY <1>2, FilledIs DEF FragmentHead
<1>5. ~ (Len(f.data) < Compared(l, i))
  BY <1>1 DEF ReadsPast
<1>6. Overlap(l, i) = Filled(l, i) - f.off /\ Compared(l, i) = IF f.len < Overlap(l, i) THEN f.len ELSE Overlap(l, i)
  BY <1>1 DEF Overlap, Compared
<1>7. PICK o, m : o = Overlap(l, i) /\ m = Compared(l, i)
  OBVIOUS
<1>8. /\ m \in Int /\ o \in Int /\ m <= f.len /\ m <= o /\ m <= Len(f.data) /\ f.off + m <= l.datalen
      /\ \A q \in 1..f.len : q <= o => q <= m
  BY <1>3, <1>4, <1>5, <1>6, <1>7
<1> QED
  BY <1>1, <1>7, <1>8

Agreeing(l, i) ==
    /\ l \in FragmentHead /\ ListOK(l) /\ i \in Used(l) /\ "conflict" \notin Marks(l, Assembled(l), i)
    /\ \A k \in Used(l) : ~ReadsPast(l, k)

LEMMA Taken ==
    ASSUME NEW l, NEW i, Agreeing(l, i), NEW f, f = l.items[i]
    PROVE  \A q \in 1..f.len : f.off + q <= l.datalen => Assembled(l)[f.off + q] = f.data[q] /\ q <= Len(f.data)
<1> SUFFICES ASSUME l \in FragmentHead, ListOK(l), \A k \in Used(l) : ~ReadsPast(l, k), i \in Used(l),
                    "conflict" \notin Marks(l, Assembled(l), i), NEW q \in 1..f.len, f.off + q <= l.datalen
             PROVE  Assembled(l)[f.off + q] = f.data[q] /\ q <= Len(f.data)
  BY DEF Agreeing
<1> DEFINE p == f.off + q
<1>1. i \in 1..Len(l.items) /\ f \in Item /\ ~Wraps(f) /\ f.data # NoData /\ l.datalen \in Nat
  BY FitsIs DEF FragmentHead
<1>2. f.off \in Nat /\ f.len \in Nat /\ f.data \in Data /\ Len(f.data) \in Nat
  BY <1>1, ItemIs DEF Data
<1>3. Assembled(l) \in Data /\ Len(Assembled(l)) = l.datalen
  BY AssembledIs DEF ListOK
<1>4. PICK o, m : o = Overlap(l, i) /\ m = Compared(l, i)
  OBVIOUS
<1>5. /\ m \in Int /\ o \in Int /\ m <= f.len /\ m <= o /\ m <= Len(f.data) /\ f.off + m <= l.datalen
      /\ \A x \in 1..f.len : x <= o => x <= m
  BY <1>4, ComparedIs DEF ListOK
<1>6. CASE q <= o
  <2>1. q <= m /\ o > 0 /\ m \in Nat
    BY <1>2, <1>5, <1>6
  <2>2. SubSeq(Assembled(l), f.off + 1, f.off + m) = SubSeq(f.data, 1, m)
    BY <2>1, <1>4 DEF Marks
  <2>3. PICK a, b, off : a = Assembled(l) /\ b = f.data /\ off = f.off
    OBVIOUS
  <2>4. /\ a \in Data /\ b \in Data /\ off \in Nat /\ m \in Nat /\ off + m <= Len(a) /\ m <= Len(b)
        /\ SubSeq(a, off + 1, off + m) = SubSeq(b, 1, m)
    BY ONLY <1>2, <1>3, <1>5, <2>1, <2>2, <2>3
  <2>5. \A x \in 1..m : a[off + x] = b[x]
    BY ONLY <2>4, SameEverywhere
  <2>6. q \in 1..m /\ q <= Len(f.data)
    BY <1>2, <1>5, <2>1
  <2> QED
    BY <2>3, <2>5, <2>6
<1>7. CASE ~ (q <= o)
  <2>1. p \in 1..l.datalen
    BY <1>1, <1>2
  <2>2. i \in Having(l, p)
    BY <1>1, UsedHas
  <2> HIDE DEF p
  <2>3. PICK j : j = Min(Having(l, p))
    OBVIOUS
  <2>4. /\ j \in Used(l) /\ j \in 1..Len(l.items) /\ l.items[j].off < p /\ p <= l.items[j].off + Fits(l, l.items[j])
        /\ j <= i
    BY <2>1, <2>2, <2>3, FirstHaving DEF ListOK
  <2>5. j = i
    <3> SUFFICES ASSUME j # i PROVE FALSE
      OBVIOUS
    <3>1. j \in Used(l) \cap 1..(i - 1)
      BY <1>1, <2>4
    <3>2. l.items[j].off + Fits(l, l.items[j]) <= Filled(l, i) /\ Filled(l, i) \in Nat
      BY <1>1, <3>1, FilledIs
    <3>3. l.items[j].off \in Nat /\ Fits(l, l.items[j]) \in Nat
      BY <2>4, FitsIs, ItemIs
    <3>4. Filled(l, i) = f.off + o
      BY <1>2, <1>4, <3>2 DEF Overlap
    <3>5. p = f.off + q /\ q \in Nat
      BY <1>2 DEF p
    <3>6. p <= f.off + o
      <4>1. PICK e : e = l.items[j].off + Fits(l, l.items[j])
        OBVIOUS
      <4>2. p <= e /\ e <= f.off + o /\ e \in Nat
        BY <2>4, <3>2, <3>3, <3>4, <4>1
      <4> QED
        BY ONLY <3>5, <4>2, <1>2, <1>5
    <3> QED
      BY ONLY <3>5, <3>6, <1>2, <1>5, <1>7
  <2>6. Assembled(l)[p] = f.data[p - f.off]
    <3>1. Having(l, p) # {} /\ Sorted(l)
      BY <2>2 DEF ListOK
    <3>2. Assembled(l)[p] = l.items[Min(Having(l, p))].data[p - l.items[Min(Having(l, p))].off]
      BY ONLY l \in FragmentHead, \A k \in Used(l) : ~ReadsPast(l, k), <2>1, <3>1, AssembledIs
    <3>3. l.items[Min(Having(l, p))] = f
      BY <2>3, <2>5
    <3> QED
      BY ONLY <3>2, <3>3
  <2>7. p - f.off = q
    BY <1>2 DEF p
  <2>8. p - f.off \in 1..Len(f.data)
    BY <2>1, <2>2, <2>3, <2>5, FirstHaving DEF ListOK
  <2>9. q <= Len(f.data)
    BY ONLY <2>7, <2>8, <1>2
  <2> QED
    BY <2>6, <2>7, <2>9 DEF p
<1> QED
  BY <1>6, <1>7

(* Fragments that are found to differ do.                                  *)
LEMMA MarkedClash ==
    ASSUME NEW l \in FragmentHead, ListOK(l), ~l.defrag, l.contig >= l.datalen, NEW S, Proper(S), NEW late, Made(l, S, late),
           \A k \in Used(l) : ~ReadsPast(l, k), NEW i \in 1..Len(l.items), "conflict" \in Marks(l, Assembled(l), i)
    PROVE  Clash(S)
<1>1. i \in Used(l)
  BY DEF Marks
<1>2. PICK f : f = l.items[i]
  OBVIOUS
<1>3. f \in Item /\ ~Wraps(f) /\ f.data # NoData /\ l.datalen \in Nat /\ DOMAIN l.items = 1..Len(l.items)
  BY <1>1, <1>2, FitsIs, LenProperties DEF FragmentHead
<1>4. f.off \in Nat /\ f.len \in Nat /\ f.data \in Data /\ Len(f.data) \in Nat
  BY <1>3, ItemIs DEF Data
<1>5. Assembled(l) \in Data /\ Len(Assembled(l)) = l.datalen
  BY AssembledIs DEF ListOK
<1>6. PICK o, m : o = Overlap(l, i) /\ m = Compared(l, i)
  OBVIOUS
<1>7. /\ m \in Int /\ o \in Int /\ m <= f.len /\ m <= o /\ m <= Len(f.data) /\ f.off + m <= l.datalen
  BY <1>1, <1>2, <1>6, ComparedIs DEF ListOK
<1>8. o > 0 /\ SubSeq(Assembled(l), f.off + 1, f.off + m) # SubSeq(f.data, 1, m)
  BY <1>1, <1>2, <1>6 DEF Marks
<1>9. m = IF f.len < o THEN f.len ELSE o
  BY <1>2, <1>6 DEF Compared
<1>10. m \in Nat
  BY <1>4, <1>7, <1>8, <1>9
<1>11. PICK q \in 1..m : Assembled(l)[f.off + q] # f.data[q]
  <2>1. PICK a, b, off : a = Assembled(l) /\ b = f.data /\ off = f.off
    OBVIOUS
  <2>2. /\ a \in Data /\ b \in Data /\ off \in Nat /\ m \in Nat /\ off + m <= Len(a) /\ m <= Len(b)
        /\ SubSeq(a, off + 1, off + m) # SubSeq(b, 1, m)
    BY ONLY <1>4, <1>5, <1>7, <1>8, <1>10, <2>1
  <2>3. \E q \in 1..m : a[off + q] # b[q]
    BY ONLY <2>2, DifferSomewhere
  <2> QED
    BY <2>1, <2>3
<1>12. f.off + q \in 1..l.datalen /\ q \in 1..Len(f.data)
  BY <1>3, <1>4, <1>7, <1>10
<1>13. HeldBy(S, f.off + q - 1, Assembled(l)[f.off + q])
  <2>1. PICK p \in 1..l.datalen : p = f.off + q
    BY <1>12
  <2>2. HeldBy(S, p - 1, Assembled(l)[p])
    BY ONLY l \in FragmentHead, ListOK(l), ~l.defrag, l.contig >= l.datalen, Made(l, S, late),
            \A k \in Used(l) : ~ReadsPast(l, k), p \in 1..l.datalen, AllHeld, Zenon
  <2>3. p - 1 = f.off + q - 1
    <3>1. q \in Nat /\ f.off \in Nat /\ p \in Nat
      BY <1>3, <1>4, <1>10
    <3> QED
      BY ONLY <2>1, <3>1
  <2> QED
    BY ONLY <2>1, <2>2, <2>3
<1>14. HeldBy(S, f.off + q - 1, f.data[q])
  <2>1. f \in Elems(l)
    BY <1>2, <1>3 DEF Elems
  <2>2. Rest(l, f) = f.data /\ ItemMade(l, S, f)
    BY <2>1, <1>3 DEF Rest, Made
  <2> QED
    BY <2>2, <1>3, <1>12 DEF ItemMade
<1>15. f.off + q - 1 \in Int
  BY <1>4
<1> QED
  BY <1>11, <1>13, <1>14, <1>15, ClashIs

LEMMA NotWrapping ==
    ASSUME NEW R, Proper(R), NEW c \in R, NEW f \in Item, f.off = c.off, f.len = c.kept
    PROVE  ~Wraps(f)
<1>1. c.off \in Nat /\ c.kept \in Nat /\ c.kept <= c.len /\ c.len \in Nat /\ c.off + c.len < Modulus
  BY PieceIs
<1>2. f.off + f.len \in 0..(Modulus - 1) /\ Modulus \in Nat \ {0}
  BY <1>1, ModulusAssumption
<1>3. (f.off + f.len) % Modulus = f.off + f.len
  BY <1>2, Z3
<1> QED
  BY <1>1, <1>3 DEF Wraps, End, Plus

(* The data that are put together are made of the fragments.               *)
LEMMA AssembleMade ==
    ASSUME NEW l \in FragmentHead, ListOK(l), ~l.defrag, l.contig >= l.datalen, NEW S, Proper(S), NEW late, Made(l, S, late),
           NEW in \in Nat, NEW r, r = Assemble(l, in), ~r.h.torn
    PROVE  Len(r.h.items) = Len(l.items) /\ Made(r.h, S, late)
<1> DEFINE Mark(i) == Marks(l, Assembled(l), i)
<1>1. PICK x : x = r.h
  OBVIOUS
<1>2. /\ \A i \in Used(l) : ~ReadsPast(l, i)
      /\ x \in FragmentHead /\ Len(x.items) = Len(l.items) /\ x = Remade(l, x, in)
      /\ \A i \in 1..Len(l.items) : x.items[i] = Flag(Spent(l.items[i]), Mark(i))
  <2> DEFINE o == Assemble(l, in)
  <2>1. \/ o = Throw(Tear(l))
        \/ /\ \A i \in Used(l) : ~ReadsPast(l, i)
           /\ o.h \in FragmentHead /\ ListOK(o.h) /\ Len(o.h.items) = Len(l.items)
           /\ o = IF l.error \/ LostSome(l) THEN Throw(o.h) ELSE Whole(o.h)
           /\ o.h = Remade(l, o.h, in)
           /\ \A i \in 1..Len(l.items) : o.h.items[i] = Flag(Spent(l.items[i]), Marks(l, Assembled(l), i))
    BY AssembleIs, Zenon
  <2> HIDE DEF o
  <2>2. o # Throw(Tear(l))
    <3>1. Tear(l).torn /\ Throw(Tear(l)).h = Tear(l)
      BY DEF Tear, Throw, FragmentHead
    <3> QED
      BY <3>1 DEF o
  <2>3. o.h = x
    BY <1>1 DEF o
  <2> QED
    BY <2>1, <2>2, <2>3
<1>3. x.defrag /\ x.data = Assembled(l) /\ x.datalen = l.datalen /\ x.flags = l.flags \cup MarksOf(l)
  BY <1>2 DEF Remade, FragmentHead
<1>4. Assembled(l) \in Data /\ Len(Assembled(l)) = l.datalen /\ l.datalen \in Nat
  BY <1>2, AssembledIs DEF ListOK, FragmentHead
<1>5. /\ DOMAIN l.items = 1..Len(l.items) /\ DOMAIN x.items = 1..Len(l.items)
      /\ \A i \in 1..Len(l.items) : l.items[i] \in Item
  BY <1>2, LenProperties DEF FragmentHead
<1>6. \A p \in 1..l.datalen : HeldBy(S, p - 1, Assembled(l)[p])
  BY <1>2, AllHeld, Zenon
<1>7. ASSUME NEW i \in 1..Len(l.items), NEW f, NEW g, f = x.items[i], g = l.items[i]
      PROVE  /\ g \in Item /\ g \in Elems(l) /\ ItemMade(l, S, g) /\ g.data # NoData /\ Rest(l, g) = g.data
             /\ f.off = g.off /\ f.len = g.len /\ f.flags = g.flags \cup Mark(i) /\ (Wraps(f) <=> Wraps(g))
             /\ (g.len > 0 => f.data = NoData) /\ (~ (g.len > 0) => f.data = g.data)
             /\ f.off \in Nat /\ Mark(i) \subseteq x.flags
  <2>1. g \in Item /\ g \in Elems(l)
    BY <1>5, <1>7 DEF Elems
  <2>2. f = Flag(Spent(g), Mark(i))
    BY <1>2, <1>7
  <2> HIDE DEF Mark
  <2>3. /\ f.off = g.off /\ f.len = g.len /\ f.flags = g.flags \cup Mark(i)
        /\ (g.len > 0 => f.data = NoData) /\ (~ (g.len > 0) => f.data = g.data)
    BY <2>1, <2>2 DEF Flag, Spent, Item
  <2>4. ItemMade(l, S, g) /\ g.data # NoData /\ Rest(l, g) = g.data
    BY <2>1 DEF Made, ItemMade, Rest
  <2>5. Mark(i) \subseteq x.flags
    BY <1>3, <1>5 DEF MarksOf, Mark
  <2> QED
    BY <2>1, <2>3, <2>4, <2>5, ItemIs DEF Wraps, End
<1>8. ASSUME NEW f \in Elems(x)
      PROVE  ItemMade(x, S, f)
  <2>1. PICK i \in 1..Len(l.items) : f = x.items[i]
    BY <1>5 DEF Elems
  <2>2. PICK g : g = l.items[i]
    OBVIOUS
  <2>3. /\ g \in Item /\ g \in Elems(l) /\ ItemMade(l, S, g) /\ g.data # NoData /\ Rest(l, g) = g.data
        /\ f.off = g.off /\ f.len = g.len /\ f.flags = g.flags \cup Mark(i) /\ (Wraps(f) <=> Wraps(g))
        /\ (g.len > 0 => f.data = NoData) /\ (~ (g.len > 0) => f.data = g.data)
        /\ f.off \in Nat /\ Mark(i) \subseteq x.flags
    BY <1>7, <2>1, <2>2
  <2> HIDE DEF Mark
  <2>4. "conflict" \in f.flags => "conflict" \in x.flags
    BY <2>3, <1>3 DEF ItemMade
  <2>5. ~Wraps(f) => \A q \in 1..Len(Rest(x, f)) : HeldBy(S, f.off + q - 1, Rest(x, f)[q])
    <3>1. CASE g.len > 0
      <4>1. Rest(x, f) = Remaining(Assembled(l), f.off)
        BY <2>3, <3>1, <1>3 DEF Rest
      <4>2. PICK a, off : a = Assembled(l) /\ off = f.off
        OBVIOUS
      <4>3. a \in Data /\ off \in Nat /\ \A p \in 1..Len(a) : HeldBy(S, p - 1, a[p])
        BY <4>2, <1>4, <1>6, <2>3
      <4>4. \A q \in 1..Len(Remaining(a, off)) : HeldBy(S, off + q - 1, Remaining(a, off)[q])
        BY ONLY <4>3, RestHeld
      <4> QED
        BY <4>1, <4>2, <4>4
    <3>2. CASE ~ (g.len > 0)
      <4>1. Rest(x, f) = g.data
        BY <2>3, <3>2 DEF Rest
      <4>2. ~Wraps(g) => \A q \in 1..Len(g.data) : HeldBy(S, g.off + q - 1, g.data[q])
        BY <2>3 DEF ItemMade
      <4> QED
        BY <4>1, <4>2, <2>3
    <3> QED
      BY <3>1, <3>2
  <2> QED
    BY <2>3, <2>4, <2>5, <1>3 DEF ItemMade
<1>9. "conflict" \in x.flags => Clash(S)
  <2>1. CASE "conflict" \in l.flags
    BY <2>1 DEF Made
  <2>2. CASE "conflict" \in MarksOf(l)
    <3>1. PICK i \in 1..Len(l.items) : "conflict" \in Marks(l, Assembled(l), i)
      BY <2>2, <1>5 DEF MarksOf
    <3> QED
      BY ONLY l \in FragmentHead, ListOK(l), ~l.defrag, l.contig >= l.datalen, Proper(S), Made(l, S, late),
              <1>2, <3>1, MarkedClash
  <2> QED
    BY <2>1, <2>2, <1>3
<1>10. ASSUME NEW c \in S, c.kept > 0
       PROVE  Stood(x, c, late)
  <2>1. Stood(l, c, late)
    BY <1>10 DEF Made
  <2>2. PICK g \in Elems(l) :
           /\ g.off = c.off /\ g.len = c.kept
           /\ "conflict" \in g.flags \/ Agrees(Rest(l, g), c) \/ (late /\ c.toolong /\ c.off + c.kept > l.datalen)
    BY <2>1 DEF Stood
  <2>3. PICK i \in 1..Len(l.items) : g = l.items[i]
    BY <1>5 DEF Elems
  <2>4. PICK f : f = x.items[i]
    OBVIOUS
  <2>5. f \in Elems(x)
    BY <2>4, <1>5 DEF Elems
  <2>6. /\ g \in Item /\ g.data # NoData /\ Rest(l, g) = g.data
        /\ f.off = g.off /\ f.len = g.len /\ f.flags = g.flags \cup Mark(i)
        /\ f.data = NoData /\ f.off \in Nat
    <3> HIDE DEF Mark
    <3>1. g.len > 0
      BY <1>10, <2>2
    <3> QED
      BY ONLY <1>7, <2>3, <2>4, <3>1
  <2>7. ASSUME Agrees(Rest(l, g), c), "conflict" \notin Mark(i), NEW q \in 1..c.kept, q <= Len(Rest(x, f))
        PROVE  Rest(x, f)[q] = <<c.off + q - 1, 0, c.v>>
    <3>1. Rest(x, f) = Remaining(Assembled(l), f.off)
      BY <2>6, <1>3 DEF Rest
    <3>2. PICK a, off : a = Assembled(l) /\ off = f.off
      OBVIOUS
    <3>3. a \in Data /\ off \in Nat /\ \A p \in 1..Len(a) : HeldBy(S, p - 1, a[p])
      BY <3>2, <1>4, <1>6, <2>6
    <3>4. \A y \in 1..Len(Remaining(a, off)) : off + y \in 1..Len(a) /\ Remaining(a, off)[y] = a[off + y]
      BY ONLY <3>3, RestHeld
    <3>5. q \in Nat /\ q >= 1 /\ g.off \in Nat /\ off = g.off /\ q \in 1..g.len
      BY <2>2, <2>6, <3>2, PieceIs
    <3>6. q \in 1..Len(Remaining(a, off))
      <4>1. Remaining(a, off) \in Data
        BY <3>3, RemainingType
      <4>2. Len(Remaining(a, off)) \in Nat
        BY <4>1, LenProperties DEF Data
      <4> QED
        BY <2>7, <3>1, <3>2, <3>5, <4>2
    <3>7. g.off + q <= l.datalen
      BY <1>4, <3>2, <3>4, <3>5, <3>6
    <3>8. ~Wraps(g)
      BY <2>2, <2>6, NotWrapping
    <3>9. i \in Used(l)
      BY ONLY l \in FragmentHead, i \in 1..Len(l.items), <2>3, <2>6, <3>5, <3>7, <3>8, UsedHas
    <3>10. Assembled(l)[g.off + q] = g.data[q] /\ q <= Len(g.data)
      <4>0. \A k \in Used(l) : ~ReadsPast(l, k)
        BY <1>2
      <4>1. "conflict" \notin Marks(l, Assembled(l), i)
        BY <2>7 DEF Mark
      <4>2. Agreeing(l, i) /\ g = l.items[i]
        BY <2>3, <3>9, <4>0, <4>1 DEF Agreeing
      <4>3. \A y \in 1..g.len : g.off + y <= l.datalen => Assembled(l)[g.off + y] = g.data[y] /\ y <= Len(g.data)
        BY ONLY <4>2, Taken
      <4> QED
        BY <3>5, <3>7, <4>3
    <3>11. g.data[q] = <<c.off + q - 1, 0, c.v>>
      BY <2>6, <2>7, <3>10 DEF Agrees
    <3> QED
      BY <3>1, <3>2, <3>4, <3>5, <3>6, <3>10, <3>11
  <2>8. "conflict" \in f.flags \/ Agrees(Rest(x, f), c) \/ (late /\ c.toolong /\ c.off + c.kept > x.datalen)
    <3>1. CASE Agrees(Rest(l, g), c) /\ "conflict" \notin Mark(i)
      BY <2>7, <3>1 DEF Agrees
    <3> HIDE DEF Mark
    <3> QED
      BY <3>1, <1>3, <2>2, <2>6
  <2> QED
    BY <2>2, <2>5, <2>6, <2>8 DEF Stood
<1>11. \A p \in 1..Len(x.data) : HeldBy(S, p - 1, x.data[p])
  BY <1>3, <1>4, <1>6
<1> QED
  BY <1>1, <1>2, <1>8, <1>9, <1>10, <1>11 DEF Made

(* A fragment of a reassembly in progress is listed.                       *)
LEMMA ListMade ==
    ASSUME ~Seq_, NEW g \in FragmentHead, ~g.defrag, NEW R, Proper(R), Made(g, R, FALSE), NEW c \in CallOf,
           NEW r, ListOf(g, c, r), ~r.h.torn, NEW e, Copy(c, e)
    PROVE  Len(r.h.items) = Len(g.items) + 1 /\ Made(r.h, With(R, c, e), FALSE)
<1>1. PICK fs, k, w, l :
         /\ fs \in SUBSET {"tails"} /\ k = TailOf(g, c, fs) /\ w = WithData(Flag(NewItem(c), fs), Bytes(c, c.off))
         /\ l = LinkFrag(k, w) /\ k \in FragmentHead /\ ListOK(k) /\ w \in Item
         /\ l \in FragmentHead /\ ListOK(l) /\ l = Relisted(k, l) /\ Elems(l) = Elems(k) \cup {w}
         /\ r = Going(l) \/ (l.set /\ l.contig >= l.datalen /\ r = Assemble(l, c.num))
  BY DEF ListOf
<1>2. PICK S, b : S = With(R, c, e) /\ b = Bytes(c, c.off)
  OBVIOUS
<1>3. /\ c.off \in Nat /\ c.len \in Nat /\ Wraps(e) = Wraps(c) /\ Proper(S) /\ R \subseteq S
      /\ e.off = c.off /\ e.len = c.len /\ e.kept = c.len /\ e.v = c.v /\ e \in CallOf
  BY <1>2, CopyIs DEF Copy
<1>4. /\ b \in Data /\ Len(b) = c.len /\ b # NoData /\ \A q \in 1..c.len : HeldBy({e}, c.off + q - 1, b[q])
      /\ Agrees(b, e)
  BY <1>2, <1>3, BytesHeld
<1>5. /\ ~k.defrag /\ k.data = g.data /\ k.items = g.items /\ k.flags = g.flags \cup fs
  BY <1>1 DEF TailOf, FragmentHead
<1>6. /\ ~l.defrag /\ l.data = g.data /\ l.flags = g.flags \cup fs
  BY <1>1, <1>5 DEF Relisted, FragmentHead
<1>7. w.off = c.off /\ w.len = c.len /\ w.data = b /\ w.flags = fs /\ Wraps(w) = Wraps(c)
  BY <1>1, <1>2 DEF NewItem, Flag, WithData, Wraps, End
<1>8. Len(l.items) = Len(g.items) + 1 /\ Elems(l) = Elems(g) \cup {w}
  <2>1. Len(l.items) = Len(k.items) + 1
    BY <1>1, LinkFragIs
  <2>2. Elems(k) = Elems(g)
    BY <1>5 DEF Elems
  <2> QED
    BY <2>1, <2>2, <1>1, <1>5
<1>9. Rest(l, w) = b
  BY <1>4, <1>7 DEF Rest
<1>10. ItemMade(l, S, w)
  <2>1. "conflict" \notin w.flags
    BY <1>1, <1>7
  <2>2. ASSUME ~Wraps(w), NEW q \in 1..Len(b)
        PROVE  HeldBy(S, w.off + q - 1, b[q])
    <3>1. {e} \subseteq S
      BY <1>2, <1>7, <2>2 DEF With
    <3>2. HeldBy({e}, w.off + q - 1, b[q])
      BY <1>4, <1>7, <2>2
    <3> QED
      BY <3>1, <3>2, HeldMore
  <2> QED
    BY <2>1, <2>2, <1>4, <1>6, <1>7, <1>9 DEF ItemMade
<1>11. \A d \in S \ R : d.kept > 0 => Stood(l, d, FALSE)
  <2>1. w \in Elems(l) /\ w.off = e.off /\ w.len = e.kept /\ Agrees(Rest(l, w), e)
    BY <1>3, <1>4, <1>7, <1>8, <1>9
  <2>2. Stood(l, e, FALSE)
    BY <2>1 DEF Stood
  <2> QED
    BY <1>2, <2>2 DEF With
<1>12. Made(l, S, FALSE)
  <2>1. /\ l.defrag = g.defrag /\ l.data = g.data /\ ("conflict" \in g.flags => "conflict" \in l.flags)
        /\ Elems(g) \subseteq Elems(l) /\ \A f \in Elems(l) \ Elems(g) : ItemMade(l, S, f)
    BY <1>1, <1>6, <1>8, <1>10 DEF FragmentHead
  <2>2. ~ ("conflict" \in l.flags /\ "conflict" \notin g.flags)
    BY <1>1, <1>6
  <2>3. FALSE \in BOOLEAN /\ R \subseteq S /\ Made(g, R, FALSE)
    BY <1>3
  <2> QED
    BY ONLY <2>1, <2>2, <2>3, <1>11, MadeGrows
<1>13. CASE r = Going(l)
  BY <1>2, <1>8, <1>12, <1>13 DEF Going
<1>14. CASE l.contig >= l.datalen /\ r = Assemble(l, c.num)
  <2>1. PICK in : in = c.num
    OBVIOUS
  <2>2. /\ l \in FragmentHead /\ ListOK(l) /\ ~l.defrag /\ l.contig >= l.datalen /\ Proper(S) /\ Made(l, S, FALSE)
        /\ in \in Nat /\ r = Assemble(l, in) /\ ~r.h.torn
    BY <1>1, <1>3, <1>6, <1>12, <1>14, <2>1 DEF CallOf
  <2>3. Len(r.h.items) = Len(l.items) /\ Made(r.h, S, FALSE)
    BY ONLY <2>2, AssembleMade
  <2> QED
    BY <1>2, <1>8, <2>3
<1> QED
  BY <1>1, <1>13, <1>14

(* fragment_reset_defragmentation: what each fragment gets back is its     *)
(* part of the data.                                                       *)
LEMMA ResetMade ==
    ASSUME NEW h \in FragmentHead, ListOK(h), ~h.torn, h.defrag, NEW R, Made(h, R, FALSE),
           NEW g, g = ResetDefragmentation(h), g # Tear(h)
    PROVE  g \in FragmentHead /\ ~g.defrag /\ Len(g.items) = Len(h.items) /\ Made(g, R, FALSE)
<1>1. /\ g \in FragmentHead /\ Len(g.items) = Len(h.items) /\ g = Undone_(h, g)
      /\ \A i \in 1..Len(h.items) : g.items[i] = Restored(h, h.items[i])
  <2> DEFINE o == ResetDefragmentation(h)
  <2>1. \/ o = Tear(h)
        \/ /\ \A f \in Elems(h) : f.data = NoData => f.off <= Len(h.data)
           /\ o \in FragmentHead /\ ListOK(o) /\ Len(o.items) = Len(h.items)
           /\ o = Undone_(h, o)
           /\ \A i \in 1..Len(h.items) : o.items[i] = Restored(h, h.items[i])
    BY ResetDefragmentationIs, Zenon
  <2>2. o = g
    OBVIOUS
  <2> HIDE DEF o
  <2> QED
    BY <2>1, <2>2
<1>2. ~g.defrag /\ g.flags = h.flags \ {"toolong", "tails"}
  BY <1>1 DEF Undone_, FragmentHead
<1>3. /\ DOMAIN h.items = 1..Len(h.items) /\ DOMAIN g.items = 1..Len(h.items)
      /\ \A i \in 1..Len(h.items) : h.items[i] \in Item
  BY <1>1, LenProperties DEF FragmentHead
<1>4. ASSUME NEW f \in Elems(h)
      PROVE  /\ Restored(h, f) \in Elems(g) /\ Restored(h, f).off = f.off /\ Restored(h, f).len = f.len
             /\ Restored(h, f).flags = f.flags \ {"toolong", "tails"} /\ Rest(g, Restored(h, f)) = Rest(h, f)
             /\ ItemMade(g, R, Restored(h, f))
  <2>1. PICK w : w = Restored(h, f)
    OBVIOUS
  <2>2. PICK i \in 1..Len(h.items) : f = h.items[i]
    BY <1>3 DEF Elems
  <2>3. f \in Item /\ w \in Elems(g)
    BY <1>1, <1>3, <2>1, <2>2 DEF Elems
  <2>4. /\ w.off = f.off /\ w.len = f.len /\ w.data = Rest(h, f) /\ w.flags = f.flags \ {"toolong", "tails"}
        /\ (Wraps(w) <=> Wraps(f))
    BY <2>1, <2>3 DEF Restored, Item, Wraps, End
  <2>5. ItemMade(h, R, f)
    BY DEF Made
  <2>6. Rest(h, f) # NoData
    <3> SUFFICES ASSUME Rest(h, f) = NoData PROVE FALSE
      OBVIOUS
    <3>1. f.data = NoData /\ Remaining(h.data, f.off) = NoData
      BY DEF Rest
    <3>2. PICK a, off : a = h.data /\ off = f.off
      OBVIOUS
    <3>3. a \in Data /\ off \in Nat /\ \A p \in 1..Len(a) : HeldBy(R, p - 1, a[p])
      BY <2>3, <3>2, ItemIs DEF Made, FragmentHead
    <3>4. \A q \in 1..Len(Remaining(a, off)) : HeldBy(R, off + q - 1, Remaining(a, off)[q])
      BY ONLY <3>3, RestHeld
    <3>5. Len(Remaining(a, off)) = 1 /\ Remaining(a, off)[1] = <<>>
      BY <3>1, <3>2, NoDataType
    <3>6. HeldBy(R, off + 1 - 1, <<>>)
      BY <3>4, <3>5
    <3> QED
      BY <3>6, NoByte DEF HeldBy
  <2>7. Rest(g, w) = Rest(h, f)
    BY <2>4, <2>6 DEF Rest
  <2>8. ItemMade(g, R, w)
    BY <1>2, <2>4, <2>5, <2>6, <2>7 DEF ItemMade
  <2> QED
    BY <2>1, <2>3, <2>4, <2>7, <2>8
<1>5. ASSUME NEW w \in Elems(g)
      PROVE  ItemMade(g, R, w)
  <2>1. PICK i \in 1..Len(h.items) : w = Restored(h, h.items[i])
    BY <1>1, <1>3 DEF Elems
  <2>2. h.items[i] \in Elems(h)
    BY <1>3 DEF Elems
  <2> QED
    BY <2>1, <2>2, <1>4
<1>6. ASSUME NEW c \in R, c.kept > 0
      PROVE  Stood(g, c, FALSE)
  <2>1. Stood(h, c, FALSE)
    BY <1>6 DEF Made
  <2>2. PICK f \in Elems(h) : f.off = c.off /\ f.len = c.kept /\ ("conflict" \in f.flags \/ Agrees(Rest(h, f), c))
    BY <2>1 DEF Stood
  <2>3. PICK w : w = Restored(h, f)
    OBVIOUS
  <2>4. /\ w \in Elems(g) /\ w.off = f.off /\ w.len = f.len
        /\ w.flags = f.flags \ {"toolong", "tails"} /\ Rest(g, w) = Rest(h, f)
    BY <1>4, <2>3
  <2> QED
    BY <2>2, <2>4 DEF Stood
<1>7. "conflict" \in g.flags => Clash(R)
  BY <1>2 DEF Made
<1> QED
  BY <1>1, <1>2, <1>5, <1>6, <1>7 DEF Made

(* What is left of a piece.                                                *)
CutOff(c, n) == [c EXCEPT !.kept = Until(c, n)]
AllCut(R, n) == {CutOff(c, n) : c \in R}

LEMMA CutOffIs ==
    ASSUME NEW c \in CallOf, NEW n \in Nat, NEW d, d = CutOff(c, n)
    PROVE  /\ d \in CallOf /\ d.off = c.off /\ d.len = c.len /\ d.v = c.v /\ d.id = c.id /\ d.added = c.added
           /\ (Wraps(d) <=> Wraps(c)) /\ d.kept <= c.kept
           /\ c.off + c.kept <= n => d.kept = c.kept
           /\ c.off + c.kept > n => d.kept = IF c.off < n THEN n - c.off ELSE 0
           /\ \A p \in Int : p < n /\ Holds(c, p) => Holds(d, p)
<1>1. c.off \in Nat /\ c.kept \in 0..(Modulus - 1) /\ c.kept \in Nat /\ Modulus \in Nat
  BY ModulusAssumption DEF CallOf, Length
<1>2. PICK m : m = Until(c, n)
  OBVIOUS
<1>3. /\ m \in 0..(Modulus - 1) /\ m <= c.kept
      /\ c.off + c.kept <= n => m = c.kept
      /\ c.off + c.kept > n => m = IF c.off < n THEN n - c.off ELSE 0
  BY <1>1, <1>2 DEF Until
<1>4. d = [c EXCEPT !.kept = m]
  BY <1>2 DEF CutOff
<1>5. /\ d \in CallOf /\ d.off = c.off /\ d.len = c.len /\ d.v = c.v /\ d.id = c.id /\ d.added = c.added /\ d.kept = m
  BY <1>3, <1>4 DEF CallOf, Length
<1>6. \A p \in Int : p < n /\ Holds(c, p) => Holds(d, p)
  BY <1>1, <1>3, <1>5 DEF Holds
<1> QED
  BY <1>3, <1>5, <1>6 DEF Wraps, End

LEMMA AllCutIs ==
    ASSUME NEW R, Proper(R), NEW n \in Nat
    PROVE  /\ Proper(AllCut(R, n))
           /\ \A p \in Int : p < n => \A byte : HeldBy(R, p, byte) => HeldBy(AllCut(R, n), p, byte)
           /\ Clash(R) => Clash(AllCut(R, n))
<1>1. ASSUME NEW c \in R
      PROVE  /\ CutOff(c, n) \in AllCut(R, n) /\ CutOff(c, n) \in CallOf /\ ~Wraps(CutOff(c, n))
             /\ CutOff(c, n).kept <= CutOff(c, n).len /\ CutOff(c, n).v = c.v
             /\ \A p \in Int : p < n /\ Holds(c, p) => Holds(CutOff(c, n), p)
             /\ \A p : Has(CutOff(c, n), p) <=> Has(c, p)
  <2>1. PICK d : d = CutOff(c, n)
    OBVIOUS
  <2>2. c \in CallOf /\ ~Wraps(c) /\ c.kept <= c.len
    BY DEF Proper
  <2>3. /\ d \in CallOf /\ d.off = c.off /\ d.len = c.len /\ d.v = c.v
        /\ (Wraps(d) <=> Wraps(c)) /\ d.kept <= c.kept
        /\ \A p \in Int : p < n /\ Holds(c, p) => Holds(d, p)
    BY <2>1, <2>2, CutOffIs
  <2>4. d.kept <= d.len
    <3>1. d.kept \in Nat /\ c.kept \in Nat /\ c.len \in Nat
      BY <2>2, <2>3, ModulusAssumption DEF CallOf, Length
    <3> QED
      BY <2>2, <2>3, <3>1
  <2> QED
    BY <2>1, <2>2, <2>3, <2>4 DEF AllCut, Has
<1>2. Proper(AllCut(R, n))
  BY <1>1 DEF Proper, AllCut
<1>3. ASSUME NEW p \in Int, p < n, NEW byte, HeldBy(R, p, byte)
      PROVE  HeldBy(AllCut(R, n), p, byte)
  <2>1. PICK c \in R : Holds(c, p) /\ byte = <<p, 0, c.v>>
    BY <1>3 DEF HeldBy
  <2> QED
    BY <1>1, <1>3, <2>1 DEF HeldBy
<1>4. ASSUME Clash(R)
      PROVE  Clash(AllCut(R, n))
  <2>1. PICK c \in R, d \in R, p \in 0..(Modulus - 1) : c.v # d.v /\ Has(c, p) /\ Has(d, p)
    BY <1>4 DEF Clash
  <2>2. PICK x, y : x = CutOff(c, n) /\ y = CutOff(d, n)
    OBVIOUS
  <2>3. x \in AllCut(R, n) /\ y \in AllCut(R, n) /\ x.v # y.v /\ Has(x, p) /\ Has(y, p)
    BY <1>1, <2>1, <2>2
  <2> QED
    BY <2>3 DEF Clash
<1> QED
  BY <1>2, <1>3, <1>4

(* fragment_truncate: of the data the front is left, and the same of each  *)
(* fragment.                                                               *)
LEMMA TruncatedMade ==
    ASSUME NEW h \in FragmentHead, ListOK(h), h.defrag, NEW R, Proper(R), Made(h, R, FALSE),
           NEW n \in Nat, n <= Len(h.data), NEW g, g = Truncated(h, n)
    PROVE  Made(g, AllCut(R, n), FALSE)
<1>1. PICK Q : Q = AllCut(R, n)
  OBVIOUS
<1>2. /\ g \in FragmentHead /\ ListOK(g) /\ g = CutTo(h, g, n)
      /\ Len(g.items) \in 0..Len(h.items)
      /\ \A i \in 1..Len(h.items) : i <= Len(g.items) <=> h.items[i].off < n
      /\ \A i \in 1..Len(g.items) : g.items[i] = Cut(h.items[i], n)
      /\ g.flags = UNION {g.items[i].flags : i \in 1..Len(g.items)}
  BY TruncatedIs
<1>3. g.defrag /\ g.data = SubSeq(h.data, 1, n) /\ g.datalen = n
  BY <1>2 DEF CutTo, FragmentHead
<1>4. h.data \in Data /\ Len(h.data) \in Nat
  BY LenProperties DEF FragmentHead, Data
<1>5. g.data \in Data /\ Len(g.data) = n /\ \A q \in 1..n : g.data[q] = h.data[q]
  <2>1. PICK b, t : b = h.data /\ t = g.data
    OBVIOUS
  <2>2. b \in Data /\ n \in Nat /\ n <= Len(b) /\ t = SubSeq(b, 1, n)
    BY <1>3, <1>4, <2>1
  <2>3. t \in Data /\ Len(t) = n /\ \A q \in 1..n : t[q] = b[q]
    BY ONLY <2>2, FrontIs
  <2> QED
    BY <2>1, <2>3
<1>6. /\ DOMAIN h.items = 1..Len(h.items) /\ DOMAIN g.items = 1..Len(g.items) /\ Len(h.items) \in Nat
      /\ \A i \in 1..Len(h.items) : h.items[i] \in Item
  <2>1. PICK s, t : s = h.items /\ t = g.items
    OBVIOUS
  <2>2. s \in Seq(Item) /\ t \in Seq(Item)
    BY <1>2, <2>1 DEF FragmentHead
  <2>3. /\ DOMAIN s = 1..Len(s) /\ DOMAIN t = 1..Len(t) /\ Len(s) \in Nat
        /\ \A i \in 1..Len(s) : s[i] \in Item
    BY ONLY <2>2, LenProperties
  <2> QED
    BY <2>1, <2>3
<1>7. \A p \in 1..n : HeldBy(Q, p - 1, g.data[p])
  <2> TAKE p \in 1..n
  <2>1. HeldBy(R, p - 1, h.data[p])
    BY <1>4 DEF Made
  <2>2. p - 1 \in Int /\ p - 1 < n
    OBVIOUS
  <2>3. HeldBy(AllCut(R, n), p - 1, h.data[p])
    BY <2>1, <2>2, AllCutIs
  <2> QED
    BY <1>1, <1>5, <2>3
<1>8. ASSUME NEW i \in 1..Len(g.items), NEW f, f = h.items[i], NEW w, w = g.items[i]
      PROVE  /\ f \in Elems(h) /\ f \in Item /\ f.off < n
             /\ w.off = f.off /\ w.off \in Nat /\ w.data = NoData /\ w.flags = f.flags \ {"toolong", "tails"}
             /\ (End(f) > n => w.len = n - f.off) /\ (~ (End(f) > n) => w.len = f.len)
             /\ Rest(g, w) = Remaining(g.data, w.off)
  <2>1. i \in 1..Len(h.items) /\ f.off < n /\ w = Cut(f, n)
    BY <1>2, <1>6, <1>8
  <2>2. f \in Item /\ f \in Elems(h)
    BY <1>6, <1>8, <2>1 DEF Elems
  <2>3. /\ w.off = f.off /\ w.data = NoData /\ w.flags = f.flags \ {"toolong", "tails"}
        /\ (End(f) > n => w.len = n - f.off) /\ (~ (End(f) > n) => w.len = f.len)
    BY <2>1, <2>2, CutIs
  <2> QED
    BY <2>1, <2>2, <2>3, ItemIs DEF Rest
<1>9. ASSUME NEW w \in Elems(g)
      PROVE  ItemMade(g, Q, w)
  <2>1. PICK i \in 1..Len(g.items) : w = g.items[i]
    BY <1>6, <1>9 DEF Elems
  <2>2. w.off \in Nat /\ w.data = NoData /\ Rest(g, w) = Remaining(g.data, w.off)
    BY <1>8, <2>1
  <2>3. w.flags \subseteq g.flags
    BY <1>2, <2>1
  <2>4. \A q \in 1..Len(Rest(g, w)) : HeldBy(Q, w.off + q - 1, Rest(g, w)[q])
    <3>1. PICK a, off : a = g.data /\ off = w.off
      OBVIOUS
    <3>2. a \in Data /\ off \in Nat /\ \A p \in 1..Len(a) : HeldBy(Q, p - 1, a[p])
      BY <1>5, <1>7, <2>2, <3>1
    <3>3. \A q \in 1..Len(Remaining(a, off)) : HeldBy(Q, off + q - 1, Remaining(a, off)[q])
      BY ONLY <3>2, RestHeld
    <3> QED
      BY <2>2, <3>1, <3>3
  <2> QED
    BY <1>3, <2>2, <2>3, <2>4 DEF ItemMade
<1>10. "conflict" \in g.flags => Clash(Q)
  <2> SUFFICES ASSUME "conflict" \in g.flags PROVE Clash(Q)
    OBVIOUS
  <2>1. PICK i \in 1..Len(g.items) : "conflict" \in g.items[i].flags
    BY <1>2
  <2>2. h.items[i] \in Elems(h) /\ "conflict" \in h.items[i].flags
    <3>1. PICK f, w : f = h.items[i] /\ w = g.items[i]
      OBVIOUS
    <3>2. i \in 1..Len(h.items) /\ f.off < n /\ w = Cut(f, n)
      BY <1>2, <1>6, <3>1
    <3>3. f \in Item /\ f \in Elems(h)
      BY <1>6, <3>1, <3>2 DEF Elems
    <3>4. w.flags = f.flags \ {"toolong", "tails"}
      BY <3>2, <3>3, CutIs
    <3> QED
      BY <2>1, <3>1, <3>3, <3>4
  <2>3. Clash(R)
    BY <2>2 DEF Made, ItemMade
  <2> QED
    BY <1>1, <2>3, AllCutIs
<1>11. ASSUME NEW d \in Q, d.kept > 0
       PROVE  Stood(g, d, FALSE)
  <2>1. PICK c \in R : d = CutOff(c, n)
    BY <1>1 DEF AllCut
  <2>2. c \in CallOf /\ c.off \in Nat /\ c.kept \in Nat
    BY PieceIs
  <2>3. /\ d.off = c.off /\ d.v = c.v /\ d.kept <= c.kept /\ d \in CallOf
        /\ c.off + c.kept <= n => d.kept = c.kept
        /\ c.off + c.kept > n => d.kept = IF c.off < n THEN n - c.off ELSE 0
    BY ONLY <2>1, <2>2, n \in Nat, CutOffIs
  <2>4. d.kept \in Nat
    BY <2>3, ModulusAssumption DEF CallOf, Length
  <2>5. c.kept > 0 /\ c.off < n
    BY <1>11, <2>2, <2>3, <2>4
  <2>6. PICK f \in Elems(h) : f.off = c.off /\ f.len = c.kept /\ ("conflict" \in f.flags \/ Agrees(Rest(h, f), c))
    BY <2>5 DEF Made, Stood
  <2>7. PICK i \in 1..Len(h.items) : f = h.items[i]
    BY <1>6 DEF Elems
  <2>8. i \in 1..Len(g.items)
    BY <1>2, <1>6, <2>5, <2>6, <2>7
  <2>9. PICK w : w = g.items[i]
    OBVIOUS
  <2>10. /\ f \in Item /\ w.off = f.off /\ w.off \in Nat /\ w.flags = f.flags \ {"toolong", "tails"}
         /\ (End(f) > n => w.len = n - f.off) /\ (~ (End(f) > n) => w.len = f.len)
         /\ Rest(g, w) = Remaining(g.data, w.off)
    <3>1. PICK x, y : x = h.items[i] /\ y = g.items[i]
      OBVIOUS
    <3>2. /\ x \in Item /\ y.off = x.off /\ y.off \in Nat /\ y.flags = x.flags \ {"toolong", "tails"}
          /\ (End(x) > n => y.len = n - x.off) /\ (~ (End(x) > n) => y.len = x.len)
          /\ Rest(g, y) = Remaining(g.data, y.off)
      <4>1. x \in Item /\ y.off = x.off /\ y.off \in Nat
        BY ONLY <1>8, <2>8, <3>1
      <4>2. y.flags = x.flags \ {"toolong", "tails"}
        <5>1. y = Cut(x, n)
          BY <1>2, <2>8, <3>1
        <5> QED
          BY <4>1, <5>1 DEF Cut, Item
      <4>4. Rest(g, y) = Remaining(g.data, y.off)
        BY ONLY <1>8, <2>8, <3>1
      <4>3. (End(x) > n => y.len = n - x.off) /\ (~ (End(x) > n) => y.len = x.len)
        BY ONLY <1>8, <2>8, <3>1
      <4> QED
        BY ONLY <4>1, <4>2, <4>3, <4>4
    <3>3. x = f /\ y = w
      BY <2>7, <2>9, <3>1
    <3> QED
      BY ONLY <3>2, <3>3
  <2>11. w.len = d.kept /\ w.off = d.off
    <3>1. ~Wraps(f) /\ Fragment(f)
      BY <2>6, <2>10, NotWrapping, ItemsAreFragments
    <3>2. End(f) = f.off + f.len
      BY <3>1, EndIs
    <3> QED
      BY <2>2, <2>3, <2>5, <2>6, <2>10, <3>2
  <2>12. w \in Elems(g)
    BY <1>6, <2>8, <2>9 DEF Elems
  <2>13. ASSUME Agrees(Rest(h, f), c), NEW q \in 1..d.kept, q <= Len(Rest(g, w))
         PROVE  Rest(g, w)[q] = <<d.off + q - 1, 0, d.v>>
    <3>1. PICK a, b, off : a = g.data /\ off = w.off /\ b = h.data
      OBVIOUS
    <3>2. f.data = NoData
      BY <2>5, <2>6 DEF Made, ItemMade
    <3>3. Rest(g, w) = Remaining(a, off) /\ Rest(h, f) = Remaining(b, off)
      BY <2>10, <3>1, <3>2 DEF Rest
    <3>4. /\ a \in Data /\ b \in Data /\ off \in Nat /\ Len(a) = n /\ n <= Len(b) /\ Len(b) \in Nat /\ q \in Nat
          /\ \A y \in 1..n : a[y] = b[y]
      BY <1>4, <1>5, <2>4, <2>10, <3>1
    <3>5. Len(Remaining(a, off)) = (IF off <= n THEN n - off ELSE 0) /\ Len(Remaining(b, off)) = (IF off <= Len(b) THEN Len(b) - off ELSE 0)
      BY <3>4, RemainingType
    <3>6. q \in 1..Len(Remaining(a, off)) /\ q \in 1..Len(Remaining(b, off)) /\ off + q \in 1..n
      BY <2>4, <2>13, <3>3, <3>4, <3>5
    <3>7. Remaining(a, off)[q] = a[off + q] /\ Remaining(b, off)[q] = b[off + q]
      <4>1. q \in 1..(Len(a) - off) /\ q \in 1..(Len(b) - off)
        BY <3>4, <3>6
      <4>2. (\A k \in 1..(Len(a) - off) : Remaining(a, off)[k] = a[off + k])
            /\ (\A k \in 1..(Len(b) - off) : Remaining(b, off)[k] = b[off + k])
        BY ONLY <3>4, RemainingType
      <4> QED
        BY ONLY <4>1, <4>2
    <3>8. q \in 1..c.kept
      BY <2>2, <2>3, <2>4
    <3>9. Remaining(b, off)[q] = <<c.off + q - 1, 0, c.v>>
      BY <2>13, <3>3, <3>6, <3>8 DEF Agrees
    <3> QED
      BY <2>3, <3>3, <3>4, <3>6, <3>7, <3>9
  <2>14. "conflict" \in w.flags \/ Agrees(Rest(g, w), d)
    BY <2>6, <2>10, <2>13 DEF Agrees
  <2> QED
    BY <2>11, <2>12, <2>14 DEF Stood
<1> QED
  BY <1>1, <1>3, <1>5, <1>7, <1>9, <1>10, <1>11 DEF Made

(* fragment_add_work: the data stay made of the pieces.                    *)
Grown(h, x, R, c, e) == IF Len(x.items) > Len(h.items) THEN With(R, c, e) ELSE R

LEMMA AddWorkMade ==
    ASSUME ~Seq_, NEW h \in FragmentHead, ListOK(h), ~h.torn, Sized(h), NEW R, Proper(R), NEW late \in BOOLEAN,
           Made(h, R, late), late => h.defrag /\ ~h.partial, NEW c \in CallOf, NEW r, r = AddWork(h, c, late), ~r.h.torn,
           NEW e, Copy(c, e), "toolong" \in r.h.flags => e.toolong
    PROVE  Made(r.h, Grown(h, r.h, R, c, e), late)
<1>0. Len(h.items) \in Nat
  BY LenProperties DEF FragmentHead
<1>1. CASE r = Throw(h)
  <2>1. r.h = h
    BY <1>1 DEF Throw
  <2> QED
    BY <1>0, <2>1 DEF Grown
<1>2. CASE r = Throw(Tear(h))
  BY <1>2 DEF Throw, Tear, FragmentHead
<1>3. CASE h.defrag /\ (~Beyond(h, c) \/ late) /\ OverlapOf(h, c, r)
  <2>1. Len(r.h.items) = Len(h.items) + 1 /\ Made(r.h, With(R, c, e), late)
    <3>1. Beyond(h, c) => late
      BY <1>3
    <3> QED
      BY <1>3, <3>1, OverlapMade
  <2> QED
    BY <1>0, <2>1 DEF Grown
<1>4. CASE \E g : Begun(h, c, g) /\ ~g.defrag /\ ListOf(g, c, r)
  <2>1. PICK g : Begun(h, c, g) /\ ~g.defrag /\ ListOf(g, c, r)
    BY <1>4
  <2>2. ~late
    BY <2>1 DEF Begun
  <2>3. g \in FragmentHead /\ Len(g.items) = Len(h.items) /\ Made(g, R, FALSE)
    <3>1. CASE g = h
      BY <2>2, <3>1
    <3>2. CASE h.partial /\ h.defrag /\ g = ResetDefragmentation(h) /\ g # Tear(h)
      <4>1. /\ h \in FragmentHead /\ ListOK(h) /\ ~h.torn /\ h.defrag /\ Made(h, R, FALSE)
            /\ g = ResetDefragmentation(h) /\ g # Tear(h)
        BY <2>2, <3>2
      <4> QED
        BY ONLY <4>1, ResetMade
    <3> QED
      BY <2>1, <3>1, <3>2 DEF Begun
  <2>4. Len(r.h.items) = Len(g.items) + 1 /\ Made(r.h, With(R, c, e), FALSE)
    BY <2>1, <2>3, ListMade
  <2>5. Grown(h, r.h, R, c, e) = With(R, c, e)
    BY <1>0, <2>3, <2>4 DEF Grown
  <2>6. late = FALSE
    BY <2>2
  <2> QED
    BY <2>4, <2>5, <2>6
<1> QED
  BY <1>1, <1>2, <1>3, <1>4, AddCases

LEMMA MadeLater ==
    ASSUME NEW h, NEW R, NEW a \in BOOLEAN, NEW b \in BOOLEAN, Made(h, R, a), a => b
    PROVE  Made(h, R, b)
  BY DEF Made, Stood

(* A head that is the same but for what leads to it, and for marks.        *)
LEMMA MadeSame ==
    ASSUME NEW h, NEW g, NEW R, NEW late \in BOOLEAN, Made(h, R, late), g.items = h.items, g.data = h.data,
           g.defrag = h.defrag, g.flags = h.flags, g.datalen = h.datalen \/ ~late
    PROVE  Made(g, R, late)
<1>1. Elems(g) = Elems(h) /\ \A f : Rest(g, f) = Rest(h, f)
  BY DEF Elems, Rest
<1>2. \A f : ItemMade(h, R, f) => ItemMade(g, R, f)
  BY <1>1 DEF ItemMade
<1>3. \A c : Stood(h, c, late) => Stood(g, c, late)
  BY <1>1 DEF Stood
<1> QED
  BY <1>1, <1>2, <1>3 DEF Made

--------------------------------------------------------------------------------
(* The steps: a head that is the same but for what leads to it.            *)
SameHead(h, g) ==
    /\ g.items = h.items /\ g.data = h.data /\ g.defrag = h.defrag /\ g.flags = h.flags
    /\ g.datalen = h.datalen /\ g.torn = h.torn

(* What a piece that was looked at has at a place, the data have there, if  *)
(* the head is not marked.                                                 *)
LEMMA SeenInData ==
    ASSUME NEW h \in FragmentHead, h.defrag, Len(h.data) = h.datalen, NEW R, Proper(R), NEW late \in BOOLEAN,
           Made(h, R, late), "conflict" \notin h.flags, NEW c \in R, NEW p \in 0..(h.datalen - 1), Holds(c, p),
           late /\ c.toolong => c.off + c.kept <= h.datalen
    PROVE  h.data[p + 1] = <<p, 0, c.v>>
<1>1. c.off \in Nat /\ c.kept \in Nat /\ h.datalen \in Nat /\ h.data \in Data /\ p \in Int
  BY PieceIs DEF FragmentHead
<1>2. c.off <= p /\ p < c.off + c.kept /\ c.kept > 0
  BY <1>1 DEF Holds
<1>3. PICK f \in Elems(h) :
        /\ f.off = c.off /\ f.len = c.kept
        /\ "conflict" \in f.flags \/ Agrees(Rest(h, f), c) \/ (late /\ c.toolong /\ c.off + c.kept > h.datalen)
  BY <1>2 DEF Made, Stood
<1>4. ItemMade(h, R, f)
  BY DEF Made
<1>5. Agrees(Rest(h, f), c)
  <2>1. "conflict" \notin f.flags
    BY <1>4 DEF ItemMade
  <2>2. ~(late /\ c.toolong /\ c.off + c.kept > h.datalen)
    BY <1>1
  <2> QED
    BY <1>3, <2>1, <2>2
<1>6. Rest(h, f) = Remaining(h.data, c.off)
  BY <1>2, <1>3, <1>4 DEF ItemMade, Rest
<1>7. PICK a, off, q : a = h.data /\ off = c.off /\ q = p - c.off + 1
  OBVIOUS
<1>8. a \in Data /\ off \in Nat /\ q \in 1..(Len(a) - off) /\ off <= Len(a) /\ off + q = p + 1 /\ q \in 1..c.kept
  BY <1>1, <1>2, <1>7, SMTT(20)
<1>9. Len(Remaining(a, off)) = Len(a) - off /\ Remaining(a, off)[q] = a[off + q]
  BY ONLY <1>8, RemainingType
<1>10. Len(a) \in Nat
  BY <1>8, LenProperties DEF Data
<1>11. Remaining(a, off)[q] = <<c.off + q - 1, 0, c.v>>
  <2>1. q <= Len(Remaining(a, off))
    BY <1>8, <1>9, <1>10
  <2> QED
    BY <1>5, <1>6, <1>7, <1>8, <2>1 DEF Agrees
<1>12. c.off + q - 1 = p
  BY <1>1, <1>7
<1> QED
  BY <1>7, <1>8, <1>9, <1>11, <1>12

(* What was handed over: it is held by the pieces, and the data have it as  *)
(* long as they are not marked as conflicting.                             *)
Lasting(a, R, h) ==
    a # NoData =>
        /\ \A p \in DOMAIN a : HeldBy(R, p - 1, a[p])
        /\ h.defrag /\ ~h.torn /\ "conflict" \notin h.flags => \A p \in DOMAIN a \cap DOMAIN h.data : a[p] = h.data[p]

GivenOK == ~Seq_ => \A i \in DOMAIN heads : Lasting(given[i], PiecesOf(i), heads[i])

Staying(a, b, h) == a # NoData /\ "conflict" \notin h.flags => \A p \in DOMAIN a \cap DOMAIN b : b[p] = a[p]

AllStaying == \A i \in DOMAIN given : Staying(given[i], given'[i], heads'[i])

(* What a step does to the bytes.                                          *)
BytesKept == BytesOK' /\ (~Seq_ /\ GivenOK => GivenOK' /\ AllStaying)

(* Whatever the pieces hold is in data that were put together of them.     *)
LEMMA HeldInData ==
    ASSUME NEW h \in FragmentHead, h.defrag, Len(h.data) = h.datalen, NEW R, Proper(R), Made(h, R, FALSE),
           "conflict" \notin h.flags, NEW p \in 1..Len(h.data), NEW byte, HeldBy(R, p - 1, byte)
    PROVE  byte = h.data[p]
<1>1. PICK c \in R : Holds(c, p - 1) /\ byte = <<p - 1, 0, c.v>>
  BY DEF HeldBy
<1>2. Len(h.data) \in Nat
  BY LenProperties DEF FragmentHead, Data
<1>3. PICK q, late : q = p - 1 /\ late = FALSE
  OBVIOUS
<1>4. q \in 0..(h.datalen - 1) /\ q + 1 = p /\ late \in BOOLEAN /\ Made(h, R, late) /\ Holds(c, q)
      /\ (late /\ c.toolong => c.off + c.kept <= h.datalen)
  <2>1. q \in 0..(h.datalen - 1) /\ q + 1 = p
    BY <1>2, <1>3
  <2>2. late \in BOOLEAN /\ Made(h, R, late) /\ Holds(c, q) /\ (late /\ c.toolong => c.off + c.kept <= h.datalen)
    BY <1>1, <1>3, Zenon
  <2> QED
    BY <2>1, <2>2
<1>5. h.data[q + 1] = <<q, 0, c.v>>
  BY <1>4, SeenInData
<1> QED
  BY <1>1, <1>3, <1>4, <1>5

LEMMA LastingSame ==
    ASSUME NEW a, NEW R, NEW h, Lasting(a, R, h), NEW g, SameHead(h, g)
    PROVE  Lasting(a, R, g)
  BY DEF Lasting, SameHead

(* What a call may do to the data: nothing, compare them, or put them      *)
(* together anew.                                                          *)
Untouched(h, x) == x.data = h.data /\ h.defrag /\ h.flags \subseteq x.flags

LEMMA AddData ==
    ASSUME NEW h \in FragmentHead, ListOK(h), ~h.torn, NEW c \in CallOf, NEW allow \in BOOLEAN,
           NEW r, r = AddWork(h, c, allow), ~r.h.torn, r.h.defrag
    PROVE  \/ Untouched(h, r.h)
           \/ ~(h.defrag /\ ~h.partial) /\ r.h \in FragmentHead /\ Len(r.h.data) = r.h.datalen
<1>1. CASE r = Throw(h) \/ r = Throw(Tear(h))
  <2>1. Tear(h).torn
    BY DEF Tear, FragmentHead
  <2> QED
    BY <1>1, <2>1 DEF Throw, Untouched
<1>2. CASE h.defrag /\ OverlapOf(h, c, r)
  <2>1. PICK fs, k, m, b :
           /\ fs \in SUBSET {"tails"}
           /\ k = TailOf(h, c, fs) /\ m = Flag(NewItem(c), fs) /\ b = Bytes(c, c.off)
           /\ k \in FragmentHead /\ ListOK(k) /\ m \in Item /\ r = AddOverlap(k, m, b)
    BY <1>2 DEF OverlapOf
  <2>2. PICK ms, e, x : ms = Marked(k, m, b) /\ e = Flag(m, ms) /\ x = r.h
    OBVIOUS
  <2>3. k.data = h.data /\ k.flags = h.flags \cup fs
    BY <2>1 DEF TailOf, FragmentHead
  <2>4. r.h = Relisted(Flag(k, ms), r.h)
    BY ONLY <2>1, <2>2, AddOverlapIs
  <2>5. x.data = k.data /\ x.flags = k.flags \cup ms
    <3>1. k \in FragmentHead /\ x = Relisted(Flag(k, ms), x)
      BY <2>1, <2>2, <2>4
    <3> QED
      BY ONLY <3>1 DEF Relisted, Flag, FragmentHead
  <2> QED
    BY <1>2, <2>2, <2>3, <2>5 DEF Untouched
<1>3. CASE \E g : Begun(h, c, g) /\ ~g.defrag /\ ListOf(g, c, r)
  <2>1. PICK g : Begun(h, c, g) /\ ~g.defrag /\ ListOf(g, c, r)
    BY <1>3
  <2>2. PICK fs, k, e, l :
           /\ fs \in SUBSET {"tails"}
           /\ k = TailOf(g, c, fs) /\ k \in FragmentHead
           /\ l \in FragmentHead /\ ListOK(l) /\ l = Relisted(k, l)
           /\ \/ r = Going(l)
              \/ l.set /\ l.contig >= l.datalen /\ r = Assemble(l, c.num)
    BY <2>1 DEF ListOf
  <2>3. ~k.defrag
    BY <2>1, <2>2 DEF TailOf, Begun, FragmentHead
  <2>4. ~l.defrag
    BY <2>2, <2>3 DEF Relisted, FragmentHead
  <2>5. r = Assemble(l, c.num)
    BY <2>2, <2>4 DEF Going
  <2>6. PICK in, o : in = c.num /\ o = Assemble(l, in)
    OBVIOUS
  <2>7. in \in Nat /\ l \in FragmentHead /\ ListOK(l)
    BY <2>2, <2>6 DEF CallOf
  <2>8. \/ o = Throw(Tear(l))
        \/ /\ \A i \in Used(l) : ~ReadsPast(l, i)
           /\ o.h \in FragmentHead /\ o.h = Remade(l, o.h, in)
    BY ONLY <2>6, <2>7, AssembleIs
  <2>9. o # Throw(Tear(l))
    <3>1. Tear(l).torn
      BY <2>7 DEF Tear, FragmentHead
    <3> QED
      BY <2>5, <2>6, <3>1 DEF Throw
  <2>10. PICK x : x = o.h
    OBVIOUS
  <2>11. x \in FragmentHead /\ x = Remade(l, x, in)
    BY <2>8, <2>9, <2>10
  <2>12. x.data = Assembled(l) /\ x.datalen = l.datalen
    BY <2>7, <2>11 DEF Remade, FragmentHead
  <2>13. Len(Assembled(l)) = l.datalen
    BY <2>7, <2>8, <2>9, AssembledIs DEF ListOK
  <2>14. ~(h.defrag /\ ~h.partial)
    BY <2>1 DEF Begun
  <2> QED
    BY <2>5, <2>6, <2>10, <2>11, <2>12, <2>13, <2>14
<1> QED
  BY <1>1, <1>2, <1>3, AddCases

(* A call that works on a head, or leaves it, and what it hands over.       *)
Answering(h, c, late, r, R, S, a, b, g) ==
    /\ h \in FragmentHead /\ ListOK(h) /\ ~h.torn /\ c \in CallOf /\ late \in BOOLEAN /\ (late => h.defrag /\ ~h.partial)
    /\ (r.h = h /\ ~r.done) \/ r = AddWork(h, c, late)
    /\ r.h \in FragmentHead /\ (r.done => r.h.defrag /\ ~r.h.torn)
    /\ Proper(S) /\ R \subseteq S /\ (~r.h.torn => Made(r.h, S, late))
    /\ Lasting(a, R, h) /\ b = (IF r.done THEN r.h.data ELSE a) /\ SameHead(r.h, g)

LEMMA WorkLasts ==
    ASSUME NEW h, NEW c, NEW late, NEW r, NEW R, NEW S, NEW a, NEW b, NEW g, Answering(h, c, late, r, R, S, a, b, g)
    PROVE  Lasting(b, S, g) /\ Staying(a, b, g)
<1> SUFFICES ASSUME h \in FragmentHead, ListOK(h), ~h.torn, c \in CallOf, late \in BOOLEAN, late => h.defrag /\ ~h.partial,
                    (r.h = h /\ ~r.done) \/ r = AddWork(h, c, late), r.h \in FragmentHead,
                    r.done => r.h.defrag /\ ~r.h.torn,
                    Proper(S), R \subseteq S, ~r.h.torn => Made(r.h, S, late),
                    Lasting(a, R, h), b = IF r.done THEN r.h.data ELSE a, SameHead(r.h, g)
             PROVE  Lasting(b, S, g) /\ Staying(a, b, g)
  BY DEF Answering
<1>1. a # NoData => \A p \in DOMAIN a : HeldBy(S, p - 1, a[p])
  BY HeldMore DEF Lasting
<1>2. ASSUME a # NoData, r.h.defrag, ~r.h.torn, "conflict" \notin r.h.flags, NEW p \in DOMAIN a \cap DOMAIN r.h.data
      PROVE  a[p] = r.h.data[p]
  <2>1. CASE r.h = h
    BY <1>2, <2>1 DEF Lasting
  <2>2. CASE Untouched(h, r.h)
    BY <1>2, <2>2 DEF Lasting, Untouched
  <2>3. CASE ~(h.defrag /\ ~h.partial) /\ r.h \in FragmentHead /\ Len(r.h.data) = r.h.datalen
    <3>1. PICK x, byte : x = r.h /\ byte = a[p]
      OBVIOUS
    <3>2. late = FALSE
      BY <2>3
    <3>3. DOMAIN x.data = 1..Len(x.data)
      BY <2>3, <3>1, LenProperties DEF FragmentHead, Data
    <3>4. /\ x \in FragmentHead /\ x.defrag /\ Len(x.data) = x.datalen /\ Proper(S) /\ Made(x, S, FALSE)
          /\ "conflict" \notin x.flags /\ p \in 1..Len(x.data) /\ HeldBy(S, p - 1, byte)
      BY <1>1, <1>2, <2>3, <3>1, <3>2, <3>3
    <3>5. byte = x.data[p]
      BY ONLY <3>4, HeldInData
    <3> QED
      BY <3>1, <3>5
  <2>4. r.h = h \/ r = AddWork(h, c, late)
    OBVIOUS
  <2> QED
    BY <1>2, <2>1, <2>2, <2>3, <2>4, AddData
<1>3. Lasting(a, S, r.h)
  BY <1>1, <1>2 DEF Lasting
<1>4. CASE ~r.done
  <2>1. b = a
    BY <1>4
  <2> QED
    BY <1>3, <2>1, LastingSame DEF Staying
<1>5. CASE r.done
  <2>1. b = r.h.data /\ r.h.defrag /\ ~r.h.torn
    BY <1>5
  <2>2. ASSUME b # NoData
        PROVE  \A p \in DOMAIN b : HeldBy(S, p - 1, b[p])
    <3>1. \A p \in 1..Len(r.h.data) : HeldBy(S, p - 1, r.h.data[p])
      BY <2>1 DEF Made
    <3>2. DOMAIN b = 1..Len(b)
      BY <2>1, LenProperties DEF FragmentHead, Data
    <3> QED
      BY <2>1, <3>1, <3>2
  <2>3. Lasting(b, S, r.h)
    BY <2>1, <2>2 DEF Lasting
  <2>4. Staying(a, b, g)
    BY <1>2, <2>1 DEF Staying, SameHead
  <2> QED
    BY <2>3, <2>4, LastingSame
<1> QED
  BY <1>4, <1>5

LEMMA InsertionSame ==
    ASSUME NEW hs \in Seq(FragmentHead), NEW gs, NEW d, Insertion(hs, gs, d), NEW i \in 1..Len(hs)
    PROVE  SameHead(hs[i], gs[i])
<1>1. PICK h, g : h = hs[i] /\ g = gs[i]
  OBVIOUS
<1>2. h \in FragmentHead /\ g = Referred(h, g) /\ g.ref \in Nat /\ g.freed \in BOOLEAN
  BY <1>1, LenProperties DEF Insertion
<1>3. SameHead(h, g)
  BY ONLY <1>2, ReferredIs DEF SameHead
<1> QED
  BY <1>1, <1>3

LEMMA PiecesProper ==
    ASSUME Inv, BytesOK, ~Seq_, NEW i
    PROVE  Proper(PiecesOf(i))
<1>1. calls \in Seq(CallOf) /\ \A k \in DOMAIN calls : calls[k] \in CallOf /\ calls[k].kept <= calls[k].len
  BY LenProperties DEF Inv, Typed, BytesOK
<1> QED
  BY <1>1 DEF Proper, PiecesOf, AddedTo

(* The pieces a call adds: itself, if its fragment got into the list.      *)
Before(id) == IF id \in DOMAIN heads THEN Len(heads[id].items) ELSE 0

LEMMA LoggedPieces ==
    ASSUME Inv, BytesOK, ~Seq_, NEW c \in CallOf, c.kept = c.len, NEW id \in Nat, NEW r, r.done \in BOOLEAN,
           r.thrown \in BOOLEAN, Log(c, id, r)
    PROVE  /\ \A k \in DOMAIN calls' : calls'[k].kept <= calls'[k].len
           /\ \A i : i # id => PiecesOf(i)' = PiecesOf(i)
           /\ \E e : /\ Copy(c, e) /\ ("toolong" \in r.h.flags => e.toolong)
                     /\ PiecesOf(id)' = IF Len(r.h.items) > Before(id) THEN With(PiecesOf(id), c, e) ELSE PiecesOf(id)
<1> DEFINE n == Len(calls)
           late == Len(r.h.items) > Before(id)
           past == "toolong" \in r.h.flags
           e == [c EXCEPT !.id = id, !.added = late, !.thrown = r.thrown, !.returned = r.done, !.toolong = past]
<1>1. calls \in Seq(CallOf) /\ n \in Nat /\ DOMAIN calls = 1..n
  BY LenProperties DEF Inv, Typed
<1>2. calls' = Append(calls, e)
  BY DEF Log, Before
<1>3. late \in BOOLEAN /\ past \in BOOLEAN
  OBVIOUS
<1> HIDE DEF late, past
<1>4. /\ e \in CallOf /\ e.id = id /\ e.off = c.off /\ e.len = c.len /\ e.kept = c.len /\ e.v = c.v
      /\ e.added = late /\ e.toolong = past
  BY <1>3 DEF CallOf
<1> HIDE DEF e
<1>5. /\ calls' \in Seq(CallOf) /\ Len(calls') = n + 1 /\ calls'[n + 1] = e
      /\ \A k \in 1..n : calls'[k] = calls[k]
      /\ DOMAIN calls' = 1..(n + 1)
  <2>1. /\ calls' \in Seq(CallOf) /\ Len(calls') = n + 1 /\ calls'[n + 1] = e
        /\ \A k \in 1..n : calls'[k] = calls[k]
    BY <1>1, <1>2, <1>4, AppendProperties
  <2> QED
    BY <2>1, LenProperties
<1>6. c.len \in Nat /\ e.kept <= e.len
  BY <1>4, ModulusAssumption DEF CallOf, Length
<1>7. \A k \in DOMAIN calls' : calls'[k].kept <= calls'[k].len
  <2>1. \A k \in 1..n : calls[k].kept <= calls[k].len
    BY <1>1 DEF BytesOK
  <2>2. \A k \in 1..(n + 1) : k \in 1..n \/ k = n + 1
    BY <1>1
  <2> QED
    BY <1>5, <1>6, <2>1, <2>2
<1>8. Wraps(e) = Wraps(c)
  BY <1>4 DEF Wraps, End
<1>9. ASSUME NEW i
      PROVE  PiecesOf(i)' = IF i = id /\ late /\ ~Wraps(e) THEN PiecesOf(i) \cup {e} ELSE PiecesOf(i)
  <2>1. AddedTo(i)' = {k \in DOMAIN calls' : calls'[k].id = i /\ calls'[k].added /\ ~Wraps(calls'[k])}
    BY DEF AddedTo
  <2>2. PiecesOf(i)' = {calls'[k] : k \in AddedTo(i)'}
    BY DEF PiecesOf
  <2>3. n + 1 \in 1..(n + 1) /\ n + 1 \notin 1..n /\ \A k \in 1..(n + 1) : k \in 1..n \/ k = n + 1
    BY <1>1
  <2>4. 1..n \subseteq 1..(n + 1)
    BY <1>1
  <2>5. AddedTo(i)' = AddedTo(i) \cup (IF i = id /\ late /\ ~Wraps(e) THEN {n + 1} ELSE {})
    <3>1. AddedTo(i) = {k \in 1..n : calls[k].id = i /\ calls[k].added /\ ~Wraps(calls[k])}
      BY <1>1 DEF AddedTo
    <3> QED
      BY <1>4, <1>5, <2>1, <2>3, <2>4, <3>1
  <2>6. \A k \in AddedTo(i) : calls'[k] = calls[k]
    BY <1>1, <1>5 DEF AddedTo
  <2> QED
    BY <1>5, <2>2, <2>5, <2>6 DEF PiecesOf
<1>10. Copy(c, e)
  BY <1>4 DEF Copy
<1>11. PiecesOf(id)' = IF late THEN With(PiecesOf(id), c, e) ELSE PiecesOf(id)
  BY <1>8, <1>9 DEF With
<1>12. \A i : i # id => PiecesOf(i)' = PiecesOf(i)
  BY <1>9
<1> QED
  BY <1>4, <1>7, <1>10, <1>11, <1>12 DEF late, past

(* A call that works on a head, or leaves it.                              *)
LEMMA WorkMade ==
    ASSUME Inv, BytesOK, ~Seq_, NEW h \in FragmentHead, ListOK(h), ~h.torn, Sized(h), NEW late \in BOOLEAN,
           NEW c \in CallOf, c.kept = c.len, NEW id \in Nat, Made(h, PiecesOf(id), late), late => h.defrag /\ ~h.partial,
           Len(h.items) = Before(id), NEW r, r.done \in BOOLEAN, r.thrown \in BOOLEAN,
           r.h = h \/ r = AddWork(h, c, late), Log(c, id, r)
    PROVE  /\ \A k \in DOMAIN calls' : calls'[k].kept <= calls'[k].len
           /\ \A i : i # id => PiecesOf(i)' = PiecesOf(i)
           /\ ~r.h.torn => Made(r.h, PiecesOf(id)', late)
           /\ Proper(PiecesOf(id)') /\ PiecesOf(id) \subseteq PiecesOf(id)'
<1>1. /\ \A k \in DOMAIN calls' : calls'[k].kept <= calls'[k].len
      /\ \A i : i # id => PiecesOf(i)' = PiecesOf(i)
      /\ \E e : /\ Copy(c, e) /\ ("toolong" \in r.h.flags => e.toolong)
                /\ PiecesOf(id)' = IF Len(r.h.items) > Before(id) THEN With(PiecesOf(id), c, e) ELSE PiecesOf(id)
  BY LoggedPieces
<1>2. PICK e, R, S : /\ Copy(c, e) /\ ("toolong" \in r.h.flags => e.toolong)
                     /\ R = PiecesOf(id) /\ S = PiecesOf(id)'
                     /\ S = IF Len(r.h.items) > Before(id) THEN With(R, c, e) ELSE R
  BY <1>1
<1>3. Proper(R) /\ Made(h, R, late)
  BY <1>2, PiecesProper
<1>4. S = Grown(h, r.h, R, c, e)
  BY <1>2 DEF Grown
<1>5. ASSUME ~r.h.torn
      PROVE  Made(r.h, S, late)
  <2>1. CASE r.h = h
    <3>1. ~ (Len(h.items) > Len(h.items))
      BY LenProperties DEF FragmentHead
    <3> QED
      BY <1>3, <1>4, <2>1, <3>1 DEF Grown
  <2>2. CASE r = AddWork(h, c, late)
    BY <1>2, <1>3, <1>4, <1>5, <2>2, AddWorkMade
  <2> QED
    BY <2>1, <2>2
<1>6. Proper(S) /\ R \subseteq S
  <2>1. Proper(With(R, c, e)) /\ R \subseteq With(R, c, e)
    BY <1>2, <1>3, CopyIs
  <2> QED
    BY <1>2, <1>3, <2>1
<1> QED
  BY <1>1, <1>2, <1>5, <1>6

(* The head a fragment is added to, and what becomes of it and the others. *)
LEMMA BaseMade ==
    ASSUME Inv, BytesOK, ~Seq_, Calm, NEW id, id = Current, NEW h, h = Base[Current]
    PROVE  id \in Nat /\ Made(h, PiecesOf(id), FALSE) /\ Len(h.items) = Before(id)
<1>1. /\ heads \in Seq(FragmentHead) /\ DOMAIN heads = 1..Len(heads) /\ Len(heads) \in Nat /\ table \in 0..Len(heads)
  BY LenProperties DEF Inv, Typed
<1>2. CASE table = 0
  <2>1. id = Len(heads) + 1 /\ h = NewHead(Seq_)
    BY <1>2, BaseIs DEF Current
  <2>2. id \in Nat /\ id \notin 1..Len(heads)
    BY <1>1, <2>1
  <2>3. h.items = <<>> /\ h.defrag = FALSE /\ h.flags = {}
    BY <2>1 DEF NewHead
  <2>4. PiecesOf(id) = {}
    BY <2>2 DEF PiecesOf, AddedTo, Inv, CallsOK
  <2>5. Len(h.items) = 0 /\ Elems(h) = {}
    BY <2>3, EmptySeq DEF Elems
  <2>6. Before(id) = 0
    BY <1>1, <2>2 DEF Before
  <2> QED
    BY <2>2, <2>3, <2>4, <2>5, <2>6 DEF Made
<1>3. CASE table # 0
  <2>1. id = table /\ h = heads[table] /\ table \in DOMAIN heads
    BY <1>1, <1>3 DEF Base, Current
  <2>2. ~h.torn
    BY <2>1 DEF Calm
  <2>3. AsLate(table) = FALSE
    BY DEF AsLate
  <2>4. Made(heads[table], PiecesOf(table), AsLate(table))
    BY <2>1, <2>2 DEF BytesOK
  <2>5. Made(h, PiecesOf(id), FALSE)
    BY <2>1, <2>3, <2>4
  <2>6. id \in Nat
    BY <1>1, <2>1
  <2>7. Before(id) = Len(h.items)
    BY <2>1 DEF Before
  <2> QED
    BY <2>5, <2>6, <2>7
<1> QED
  BY <1>2, <1>3

LEMMA BytesStayOK ==
    ASSUME Inv, Inv', BytesOK, ~Seq_, setup' = setup, NEW id, table' \in {0, table, id},
           \A k \in DOMAIN calls' : calls'[k].kept <= calls'[k].len,
           \A i \in 1..Len(heads') : i # id =>
              i \in 1..Len(heads) /\ SameHead(heads[i], heads'[i]) /\ PiecesOf(i)' = PiecesOf(i),
           id \in 1..Len(heads') /\ ~heads'[id].torn => Made(heads'[id], PiecesOf(id)', AsLate(id)')
    PROVE  BytesOK'
<1>1. /\ DOMAIN heads = 1..Len(heads) /\ DOMAIN heads' = 1..Len(heads') /\ Len(heads') \in Nat
  BY LenProperties DEF Inv, Typed
<1>2. ASSUME NEW i \in 1..Len(heads'), ~heads'[i].torn, i # id
      PROVE  Made(heads'[i], PiecesOf(i)', AsLate(i)')
  <2>1. i \in DOMAIN heads /\ SameHead(heads[i], heads'[i]) /\ PiecesOf(i)' = PiecesOf(i)
    BY <1>1, <1>2
  <2>2. Made(heads[i], PiecesOf(i), AsLate(i))
    BY <1>2, <2>1 DEF BytesOK, SameHead
  <2>3. AsLate(i) => AsLate(i)'
    BY <1>1, <1>2 DEF AsLate
  <2>4. AsLate(i) \in BOOLEAN /\ AsLate(i)' \in BOOLEAN
    BY DEF AsLate
  <2>5. PICK h, g, R, a, b : h = heads[i] /\ g = heads'[i] /\ R = PiecesOf(i) /\ a = AsLate(i) /\ b = AsLate(i)'
    OBVIOUS
  <2>6. Made(h, R, a) /\ SameHead(h, g) /\ a \in BOOLEAN /\ b \in BOOLEAN /\ (a => b)
    BY <2>1, <2>2, <2>3, <2>4, <2>5
  <2>7. Made(g, R, b)
    <3>1. Made(g, R, a)
      BY ONLY <2>6, MadeSame DEF SameHead
    <3> QED
      BY ONLY <2>6, <3>1, MadeLater
  <2> QED
    BY <2>1, <2>5, <2>7
<1>3. \A i \in DOMAIN heads' : ~heads'[i].torn => Made(heads'[i], PiecesOf(i)', AsLate(i)')
  BY <1>1, <1>2
<1> QED
  BY <1>3 DEF BytesOK

LEMMA GivenStaysOK ==
    ASSUME Inv, Inv', GivenOK, ~Seq_, setup' = setup, NEW id, Len(heads) <= Len(heads'),
           \A i \in 1..Len(heads') : i # id =>
              /\ i \in 1..Len(heads) /\ SameHead(heads[i], heads'[i]) /\ PiecesOf(i)' = PiecesOf(i)
              /\ given'[i] = given[i],
           NEW a, id \in DOMAIN given => a = given[id],
           id \in 1..Len(heads') =>
              Lasting(given'[id], PiecesOf(id)', heads'[id]) /\ Staying(a, given'[id], heads'[id])
    PROVE  GivenOK' /\ AllStaying
<1>1. /\ DOMAIN heads = 1..Len(heads) /\ DOMAIN heads' = 1..Len(heads') /\ DOMAIN given = 1..Len(heads)
      /\ 1..Len(heads) \subseteq 1..Len(heads')
  <2>1. Len(heads) \in Nat /\ Len(heads') \in Nat
    BY LenProperties DEF Inv, Typed
  <2> QED
    BY <2>1, LenProperties DEF Inv, Typed
<1>2. ASSUME NEW i \in 1..Len(heads')
      PROVE  Lasting(given'[i], PiecesOf(i)', heads'[i])
  <2>1. CASE i # id
    <3>1. /\ i \in DOMAIN heads /\ SameHead(heads[i], heads'[i]) /\ PiecesOf(i)' = PiecesOf(i)
          /\ given'[i] = given[i]
      BY <1>1, <2>1
    <3>2. Lasting(given[i], PiecesOf(i), heads[i])
      BY <3>1 DEF GivenOK
    <3>3. PICK b, R, h, g : b = given[i] /\ R = PiecesOf(i) /\ h = heads[i] /\ g = heads'[i]
      OBVIOUS
    <3>4. Lasting(b, R, h) /\ SameHead(h, g)
      BY <3>1, <3>2, <3>3
    <3>5. Lasting(b, R, g)
      BY ONLY <3>4, LastingSame
    <3> QED
      BY <3>1, <3>3, <3>5
  <2> QED
    BY <2>1
<1>3. ASSUME NEW i \in DOMAIN given
      PROVE  Staying(given[i], given'[i], heads'[i])
  <2>1. CASE i # id
    <3>1. given'[i] = given[i]
      BY <1>1, <2>1
    <3> QED
      BY <3>1 DEF Staying
  <2>2. CASE i = id
    <3>1. i \in 1..Len(heads') /\ a = given[i]
      BY <1>1, <2>2
    <3> QED
      BY <2>2, <3>1
  <2> QED
    BY <2>1, <2>2
<1> QED
  BY <1>1, <1>2, <1>3 DEF GivenOK, AllStaying

(* What a call hands over of its head, and of no other.                    *)
LEMMA LoggedGiven ==
    ASSUME Inv, Inv', NEW c, NEW id, NEW r, Log(c, id, r)
    PROVE  \A i \in 1..Len(heads') :
              given'[i] = IF i = id /\ r.done THEN r.h.data ELSE IF i \in DOMAIN given THEN given[i] ELSE NoData
<1>1. DOMAIN heads' = 1..Len(heads')
  BY LenProperties DEF Inv, Typed
<1> QED
  BY <1>1 DEF Log

Working(c, id, r) ==
    /\ Adding(c) /\ c.kept = c.len /\ id = Current
    /\ r.done \in BOOLEAN /\ r.thrown \in BOOLEAN /\ r.h \in FragmentHead
    /\ (r.h = Base[Current] /\ ~r.done) \/ r = AddWork(Base[Current], c, FALSE)
    /\ Log(c, id, r)

Moved(x, id) ==
    /\ table' \in {0, id} /\ Len(heads') = id
    /\ \A i \in 1..(id - 1) : SameHead(heads[i], heads'[i])
    /\ SameHead(x, heads'[id])

LEMMA CurrentBytes ==
    ASSUME Inv, Inv', BytesOK, ~Seq_, NEW c, NEW id, NEW r, Working(c, id, r), Moved(r.h, id)
    PROVE  BytesKept
<1>0. /\ Adding(c) /\ c.kept = c.len /\ id = Current
      /\ r.done \in BOOLEAN /\ r.thrown \in BOOLEAN /\ r.h \in FragmentHead
      /\ ((r.h = Base[Current] /\ ~r.done) \/ r = AddWork(Base[Current], c, FALSE))
      /\ Log(c, id, r) /\ table' \in {0, id} /\ Len(heads') = id
      /\ (\A i \in 1..(id - 1) : SameHead(heads[i], heads'[i])) /\ SameHead(r.h, heads'[id])
  BY DEF Working, Moved
<1>1. PICK h : h = Base[Current]
  OBVIOUS
<1>2. /\ h \in FragmentHead /\ HeadFine(setup.api, h, TRUE, num) /\ ListOK(h) /\ ~h.torn
  BY <1>0, <1>1, AddingIs
<1>3. Sized(h) /\ c \in CallOf /\ setup' = setup /\ Calm
  BY <1>0, <1>2 DEF HeadFine, Seq_, Adding
<1>4. id \in Nat /\ Made(h, PiecesOf(id), FALSE) /\ Len(h.items) = Before(id)
  BY <1>0, <1>1, <1>3, BaseMade
<1>5. (r.h = h /\ ~r.done) \/ r = AddWork(h, c, FALSE)
  BY <1>0, <1>1
<1>6. /\ \A k \in DOMAIN calls' : calls'[k].kept <= calls'[k].len
      /\ \A i : i # id => PiecesOf(i)' = PiecesOf(i)
      /\ ~r.h.torn => Made(r.h, PiecesOf(id)', FALSE)
      /\ Proper(PiecesOf(id)') /\ PiecesOf(id) \subseteq PiecesOf(id)'
  <2>1. PICK late : late = FALSE
    OBVIOUS
  <2>2. /\ Inv /\ BytesOK /\ ~Seq_ /\ h \in FragmentHead /\ ListOK(h) /\ ~h.torn /\ Sized(h) /\ late \in BOOLEAN
        /\ c \in CallOf /\ c.kept = c.len /\ id \in Nat /\ Made(h, PiecesOf(id), late) /\ (late => h.defrag /\ ~h.partial)
        /\ Len(h.items) = Before(id) /\ r.done \in BOOLEAN /\ r.thrown \in BOOLEAN
        /\ (r.h = h \/ r = AddWork(h, c, late)) /\ Log(c, id, r)
    BY <1>0, <1>2, <1>3, <1>4, <1>5, <2>1
  <2>3. /\ \A k \in DOMAIN calls' : calls'[k].kept <= calls'[k].len
        /\ \A i : i # id => PiecesOf(i)' = PiecesOf(i)
        /\ ~r.h.torn => Made(r.h, PiecesOf(id)', late)
        /\ Proper(PiecesOf(id)') /\ PiecesOf(id) \subseteq PiecesOf(id)'
    BY ONLY <2>2, WorkMade
  <2> QED
    BY <2>1, <2>3
<1>7. \A i \in 1..Len(heads') : i # id => i \in 1..Len(heads) /\ i \in 1..(id - 1)
  <2>1. Len(heads) \in Nat /\ id \in 1..Len(Base) /\ \A i \in 1..(id - 1) : i \in 1..Len(heads)
    BY <1>0, BaseIs
  <2>2. \A i \in 1..id : i # id => i \in 1..(id - 1)
    BY <1>4
  <2> QED
    BY <1>0, <2>1, <2>2
<1>8. ASSUME ~heads'[id].torn
      PROVE  Made(heads'[id], PiecesOf(id)', AsLate(id)')
  <2>1. PICK x, g, R, b : x = r.h /\ g = heads'[id] /\ R = PiecesOf(id)' /\ b = AsLate(id)'
    OBVIOUS
  <2>2. SameHead(x, g) /\ Made(x, R, FALSE) /\ b \in BOOLEAN
    <3>1. b \in BOOLEAN
      BY <2>1 DEF AsLate
    <3>2. ~r.h.torn
      BY <1>0, <1>8 DEF SameHead
    <3> QED
      BY <1>0, <1>6, <2>1, <3>1, <3>2
  <2>3. Made(g, R, b)
    <3>1. Made(g, R, FALSE)
      BY ONLY <2>2, MadeSame DEF SameHead
    <3> QED
      BY ONLY <2>2, <3>1, MadeLater
  <2> QED
    BY <2>1, <2>3
<1>9. \A i \in 1..Len(heads') : i # id => i \in 1..Len(heads) /\ SameHead(heads[i], heads'[i]) /\ PiecesOf(i)' = PiecesOf(i)
  BY <1>0, <1>6, <1>7
<1>10. table' \in {0, table, id}
  BY <1>0
<1>11. BytesOK'
  BY <1>0, <1>3, <1>6, <1>8, <1>9, <1>10, BytesStayOK
<1>12. ASSUME GivenOK
       PROVE  GivenOK' /\ AllStaying
  <2>1. PICK a, b, R, S, g, late :
           /\ a = IF id \in DOMAIN given THEN given[id] ELSE NoData
           /\ b = (IF r.done THEN r.h.data ELSE a) /\ R = PiecesOf(id) /\ S = PiecesOf(id)' /\ g = heads'[id] /\ late = FALSE
    OBVIOUS
  <2>2. DOMAIN given = 1..Len(heads) /\ DOMAIN heads = 1..Len(heads)
    BY LenProperties DEF Inv, Typed
  <2>3. Lasting(a, R, h)
    <3>1. CASE id \in DOMAIN given
      <4>1. h = heads[id] /\ id \in DOMAIN heads
        BY <1>0, <1>1, <2>2, <3>1, BaseIs
      <4> QED
        BY <1>12, <2>1, <3>1, <4>1 DEF GivenOK
    <3>2. CASE id \notin DOMAIN given
      BY <2>1, <3>2 DEF Lasting
    <3> QED
      BY <3>1, <3>2
  <2>4. r.done => r.h.defrag /\ ~r.h.torn
    <3>1. CASE r = AddWork(h, c, FALSE)
      <4>1. Worked(h, c.from, c.num, r)
        BY <1>2, <1>3, <3>1, AddWorked
      <4> QED
        BY <4>1 DEF Worked
    <3> QED
      BY <1>5, <3>1
  <2>5. ((r.h = h /\ ~r.done) \/ r = AddWork(h, c, late)) /\ (~r.h.torn => Made(r.h, S, late))
    BY <1>5, <1>6, <2>1
  <2>6. Answering(h, c, late, r, R, S, a, b, g)
    BY <1>0, <1>2, <1>3, <1>6, <2>1, <2>3, <2>4, <2>5 DEF Answering
  <2>7. Lasting(b, S, g) /\ Staying(a, b, g)
    BY ONLY <2>6, WorkLasts
  <2>8. \A i \in 1..Len(heads') :
           given'[i] = IF i = id /\ r.done THEN r.h.data ELSE IF i \in DOMAIN given THEN given[i] ELSE NoData
    BY <1>0, LoggedGiven
  <2>9. \A i \in 1..Len(heads') : i # id =>
           /\ i \in 1..Len(heads) /\ SameHead(heads[i], heads'[i]) /\ PiecesOf(i)' = PiecesOf(i)
           /\ given'[i] = given[i]
    BY <1>9, <2>2, <2>8
  <2>10. id \in 1..Len(heads') => given'[id] = b
    BY <2>1, <2>8
  <2>11. id \in 1..Len(heads') =>
            Lasting(given'[id], PiecesOf(id)', heads'[id]) /\ Staying(a, given'[id], heads'[id])
    BY <2>1, <2>7, <2>10
  <2>12. Len(heads) <= Len(heads')
    BY <1>0, BaseIs
  <2>13. id \in DOMAIN given => a = given[id]
    BY <2>1
  <2> QED
    BY <1>3, <1>12, <2>9, <2>11, <2>12, <2>13, GivenStaysOK
<1> QED
  BY <1>11, <1>12 DEF BytesKept

LEMMA SameHeadIs == \A h : SameHead(h, h)
  BY DEF SameHead

(* It stays in the table.                                                  *)
LEMMA BytesStaying ==
    ASSUME Inv, Inv', BytesOK, ~Seq_, NEW c, NEW id, NEW r, Working(c, id, r), table' = id,
           heads' = [Base EXCEPT ![id] = r.h]
    PROVE  BytesKept
<1>1. id = Current /\ r.h \in FragmentHead
  BY DEF Working
<1>2. PICK x : x = r.h
  OBVIOUS
<1>3. /\ Base \in Seq(FragmentHead) /\ id = Len(Base) /\ id \in 1..Len(Base) /\ id \in Nat
      /\ \A i \in 1..(id - 1) : Base[i] = heads[i]
  BY <1>1, BaseIs
<1>4. heads' = [Base EXCEPT ![id] = x] /\ x \in FragmentHead
  BY <1>1, <1>2
<1>5. /\ Len(heads') = Len(Base) /\ \A i \in 1..Len(Base) : heads'[i] = IF i = id THEN x ELSE Base[i]
  BY ONLY <1>3, <1>4, ExceptSeq
<1>6. \A i \in 1..(id - 1) : i \in 1..Len(Base) /\ i # id
  BY <1>3
<1>7. SameHead(x, heads'[id]) /\ \A i \in 1..(id - 1) : SameHead(heads[i], heads'[i])
  BY <1>3, <1>5, <1>6, SameHeadIs
<1>8. Moved(r.h, id)
  BY <1>1, <1>2, <1>3, <1>5, <1>7 DEF Moved
<1> QED
  BY <1>8, CurrentBytes

(* It leaves it: what led elsewhere is counted anew, the bytes stay.       *)
LEMMA BytesLeaving ==
    ASSUME Inv, Inv', BytesOK, ~Seq_, NEW c, NEW id, NEW r, Working(c, id, r), r.h.ref = 0, ~r.h.freed,
           FramesOf(r.h) \subseteq 0..num, NEW hs, hs = [Base EXCEPT ![id] = r.h], Reassembled(hs, id), table' = 0
    PROVE  BytesKept
<1>0. id = Current /\ r.h \in FragmentHead
  BY DEF Working
<1>1. PICK x, frames : id = Current /\ x = r.h /\ frames = FramesOf(x)
  BY <1>0
<1>2. /\ Base \in Seq(FragmentHead) /\ id = Len(Base) /\ id \in 1..Len(Base) /\ id \in Nat
      /\ \A i \in 1..(id - 1) : Base[i] = heads[i]
  BY <1>1, BaseIs
<1>3. hs = [Base EXCEPT ![id] = x] /\ x \in FragmentHead /\ x.ref = 0 /\ ~x.freed /\ frames \in SUBSET (0..num)
  BY <1>0, <1>1
<1>4. /\ hs \in Seq(FragmentHead) /\ Len(hs) = Len(Base) /\ \A i \in 1..Len(Base) : hs[i] = IF i = id THEN x ELSE Base[i]
  BY ONLY <1>2, <1>3, ExceptSeq
<1>5. heads' = Insert(hs, frames, id)
  <2>1. heads' = Insert([hs EXCEPT ![id].ref = 0], FramesOf(hs[id]), id)
    BY <1>1 DEF Reassembled
  <2>2. [hs EXCEPT ![id].ref = 0] = hs
    <3>1. PICK gs : gs = [hs EXCEPT ![id] = x]
      OBVIOUS
    <3>2. [x EXCEPT !.ref = 0] = x
      BY <1>3 DEF FragmentHead
    <3>3. [hs EXCEPT ![id].ref = 0] = gs
      <4>1. hs[id] = x
        BY ONLY <1>2, <1>4
      <4> QED
        BY ONLY <4>1, <3>1, <3>2
    <3>4. /\ gs \in Seq(FragmentHead) /\ Len(gs) = Len(hs)
          /\ \A i \in 1..Len(hs) : gs[i] = IF i = id THEN x ELSE hs[i]
      <4>1. id \in 1..Len(hs)
        BY ONLY <1>2, <1>4
      <4> QED
        BY ONLY <4>1, <1>3, <1>4, <3>1, ExceptSeq
    <3>5. \A i \in 1..Len(hs) : gs[i] = hs[i]
      BY ONLY <1>2, <1>4, <3>4
    <3>6. gs = hs
      BY ONLY <1>4, <3>4, <3>5, SeqEqual
    <3> QED
      BY ONLY <3>3, <3>6
  <2> QED
    BY <1>1, <1>2, <1>4, <2>1, <2>2
<1>6. Insertion(hs, heads', Led(done, frames, id))
  BY <1>1, <1>3, <1>5, CurrentInserted
<1>7. Len(heads') = id /\ \A i \in 1..id : SameHead(hs[i], heads'[i])
  BY <1>2, <1>4, <1>6, InsertionSame DEF Insertion
<1>8. \A i \in 1..(id - 1) : i \in 1..id /\ i # id
  BY <1>2
<1>9. SameHead(x, heads'[id]) /\ \A i \in 1..(id - 1) : SameHead(heads[i], heads'[i])
  BY <1>2, <1>4, <1>7, <1>8
<1>10. Moved(r.h, id)
  BY <1>1, <1>7, <1>9 DEF Moved
<1> QED
  BY <1>10, CurrentBytes

(* fragment_add_common                                                     *)
LEMMA AddBytes ==
    ASSUME Inv, Inv', BytesOK, ~Seq_, NEW c, Adding(c), c.kept = c.len, NEW check \in BOOLEAN, Add(c, check)
    PROVE  BytesKept
<1>1. PICK h, id : h = Base[Current] /\ id = Current
  OBVIOUS
<1>2. /\ h \in FragmentHead /\ ListOK(h) /\ ~h.torn /\ c \in CallOf
  BY <1>1, AddingIs DEF Adding
<1>3. PICK r : /\ r = IF check /\ table # 0 /\ AlreadyAdded(h, c) THEN [Going(h) EXCEPT !.thrown = h.defrag]
                      ELSE AddWork(h, c, FALSE)
               /\ Put(Base, id, r, c) /\ table' = id
  BY <1>1 DEF Add, Base, Current
<1>4. CASE r = [Going(h) EXCEPT !.thrown = h.defrag]
  <2>1. r.h = h /\ r.done = FALSE /\ r.thrown = h.defrag
    BY <1>4 DEF Going
  <2>2. r.thrown \in BOOLEAN
    BY <1>2, <2>1 DEF FragmentHead
  <2> QED
    BY <1>1, <1>2, <1>3, <2>1, <2>2, BytesStaying DEF Put, Working
<1>5. CASE r = AddWork(h, c, FALSE)
  <2>1. Worked(h, c.from, c.num, r)
    BY <1>2, <1>5, AddWorked
  <2>2. r.done \in BOOLEAN /\ r.thrown \in BOOLEAN /\ r.h \in FragmentHead
    BY <2>1 DEF Worked
  <2> QED
    BY <1>1, <1>3, <1>5, <2>2, BytesStaying DEF Put, Working
<1> QED
  BY <1>3, <1>4, <1>5

(* fragment_add_check_with_fallback, of the head in progress               *)
AddCheckNow(c, r) ==
    LET new == [Base EXCEPT ![Current] = r.h] IN
    /\ r = IF c.short THEN Going(Base[Current]) ELSE AddWork(Base[Current], c, FALSE)
    /\ IF r.done THEN Reassembled(new, Current) /\ table' = 0
       ELSE heads' = new /\ table' = Current /\ done' = done
    /\ Log(c, Current, r)

LEMMA AddCheckNowBytes ==
    ASSUME Inv, Inv', BytesOK, ~Seq_, NEW c, Adding(c), c.kept = c.len, NEW r, AddCheckNow(c, r)
    PROVE  BytesKept
<1>1. PICK h, id : h = Base[Current] /\ id = Current
  OBVIOUS
<1>2. /\ h \in FragmentHead /\ ListOK(h) /\ ~h.torn /\ c \in CallOf /\ HeadFine(setup.api, h, TRUE, num) /\ num \in Nat
      /\ c.from \in 0..num
  BY <1>1, AddingIs DEF Adding
<1>3. PICK new : /\ r = IF c.short THEN Going(h) ELSE AddWork(h, c, FALSE)
                 /\ new = [Base EXCEPT ![id] = r.h]
                 /\ IF r.done THEN Reassembled(new, id) /\ table' = 0
                    ELSE heads' = new /\ table' = id /\ done' = done
                 /\ Log(c, id, r)
  BY <1>1 DEF AddCheckNow
<1>4. CASE r = Going(h)
  <2>1. r.h = h /\ r.done = FALSE /\ r.thrown = FALSE
    BY <1>4 DEF Going
  <2> QED
    BY <1>1, <1>2, <1>3, <2>1, BytesStaying DEF Working
<1>5. CASE r = AddWork(h, c, FALSE)
  <2>1. Worked(h, c.from, c.num, r)
    BY <1>2, <1>5, AddWorked
  <2>2. r.done \in BOOLEAN /\ r.thrown \in BOOLEAN /\ r.h \in FragmentHead
    BY <2>1 DEF Worked
  <2>3. CASE ~r.done
    BY <1>1, <1>3, <1>5, <2>2, <2>3, BytesStaying DEF Working
  <2>4. CASE r.done
    <3>1. h.ref = 0 /\ ~h.freed
      BY <1>1, BaseIs
    <3>2. r.h.ref = 0 /\ ~r.h.freed
      BY <2>1, <3>1 DEF Worked
    <3>3. FramesIn(r.h) \subseteq 0..num /\ c.from \in FramesIn(r.h)
      BY <1>2, <2>1, <2>4 DEF Worked, HeadFine
    <3>4. FramesOf(r.h) \subseteq 0..num
      <4>1. r.h.items # <<>>
        <5>1. PICK x : x = r.h
          OBVIOUS
        <5> QED
          BY <3>3, <5>1 DEF FramesIn
      <4> QED
        BY <3>3, <4>1 DEF FramesOf, FramesIn
    <3>5. Working(c, id, r)
      BY <1>1, <1>3, <1>5, <2>2 DEF Working
    <3>6. new = [Base EXCEPT ![id] = r.h] /\ Reassembled(new, id) /\ table' = 0
      BY <1>3, <2>4
    <3> QED
      BY <3>2, <3>4, <3>5, <3>6, BytesLeaving
  <2> QED
    BY <2>3, <2>4
<1> QED
  BY <1>3, <1>4, <1>5

(* and of the completed head that another frame leads to.                  *)
AddCheckAfter(c, fallback, id, hs, r) ==
    /\ setup.api = "fallback" /\ table = 0 /\ fallback \in Frames /\ id = done[fallback] /\ id # 0
    /\ hs = Insert(heads, {num}, id)
    /\ r = IF c.short THEN Going(hs[id]) ELSE AddWork(hs[id], c, TRUE)
    /\ heads' = [hs EXCEPT ![id] = r.h] /\ table' = table
    /\ Log(c, id, r)

LEMMA AddCheckAfterBytes ==
    ASSUME Inv, Inv', BytesOK, ~Seq_, NEW c, Adding(c), c.kept = c.len, NEW fallback, NEW id, NEW hs, NEW r,
           AddCheckAfter(c, fallback, id, hs, r)
    PROVE  BytesKept
<1>1. /\ setup.api = "fallback" /\ table = 0 /\ fallback \in Frames /\ id = done[fallback] /\ id # 0
      /\ hs = Insert(heads, {num}, id)
      /\ r = IF c.short THEN Going(hs[id]) ELSE AddWork(hs[id], c, TRUE)
      /\ heads' = [hs EXCEPT ![id] = r.h] /\ table' = 0 /\ Log(c, id, r)
  BY DEF AddCheckAfter
<1>2. /\ heads \in Seq(FragmentHead) /\ DOMAIN heads = 1..Len(heads) /\ Len(heads) \in Nat /\ c \in CallOf
      /\ setup' = setup
  BY LenProperties DEF Inv, Typed, Adding
<1>3. /\ id \in 1..Len(heads) /\ Insertion(heads, hs, Led(done, {num}, id))
      /\ HeadFine(setup.api, hs[id], FALSE, num) /\ hs[id] \in FragmentHead
      /\ hs[id].defrag /\ hs[id].torn = heads[id].torn
  BY <1>1, LateHead
<1>4. id \in Nat /\ hs \in Seq(FragmentHead) /\ Len(hs) = Len(heads)
  BY <1>2, <1>3 DEF Insertion
<1>5. \A i \in 1..Len(heads) : SameHead(heads[i], hs[i])
  BY <1>2, <1>3, InsertionSame
<1>6. PICK h, late : h = hs[id] /\ late = TRUE
  OBVIOUS
<1>7. ~heads[id].torn
  BY <1>2, <1>3 DEF Adding, Calm
<1>8. /\ h \in FragmentHead /\ ~h.torn /\ ListOK(h) /\ Sized(h) /\ h.defrag /\ ~h.partial
  <2>1. HeadFine("fallback", h, FALSE, num) /\ h \in FragmentHead /\ h.defrag /\ ~h.torn
    BY <1>1, <1>3, <1>6, <1>7
  <2>2. "fallback" \in Checks /\ "fallback" \notin BySeq
    BY DEF Checks, BySeq
  <2> QED
    BY <2>1, <2>2 DEF HeadFine
<1>9. Made(h, PiecesOf(id), late)
  <2>1. AsLate(id) = TRUE
    BY <1>1, <1>3 DEF AsLate
  <2>2. Made(heads[id], PiecesOf(id), AsLate(id))
    BY <1>2, <1>3, <1>7 DEF BytesOK
  <2>3. PICK g, R : g = heads[id] /\ R = PiecesOf(id)
    OBVIOUS
  <2>4. Made(g, R, late) /\ SameHead(g, h) /\ late \in BOOLEAN
    <3>1. SameHead(heads[id], hs[id])
      BY <1>3, <1>5
    <3> QED
      BY <1>6, <2>1, <2>2, <2>3, <3>1
  <2>5. Made(h, R, late)
    BY ONLY <2>4, MadeSame DEF SameHead
  <2> QED
    BY <2>3, <2>5
<1>10. Len(h.items) = Before(id)
  <2>1. hs[id].items = heads[id].items
    BY <1>3, <1>5 DEF SameHead
  <2> QED
    BY <1>2, <1>3, <1>6, <2>1 DEF Before
<1>11. r.done \in BOOLEAN /\ r.thrown \in BOOLEAN /\ r.h \in FragmentHead /\ (r.h = h \/ r = AddWork(h, c, late))
  <2>1. CASE c.short
    BY <1>1, <1>6, <1>8, <2>1 DEF Going
  <2>2. CASE ~c.short
    <3>1. r = AddWork(h, c, late) /\ late \in BOOLEAN
      BY <1>1, <1>6, <2>2
    <3>2. Worked(h, c.from, c.num, r)
      BY <1>2, <1>8, <3>1, AddWorked
    <3> QED
      BY <3>1, <3>2 DEF Worked
  <2> QED
    BY <2>1, <2>2
<1>12. /\ \A k \in DOMAIN calls' : calls'[k].kept <= calls'[k].len
       /\ \A i : i # id => PiecesOf(i)' = PiecesOf(i)
       /\ ~r.h.torn => Made(r.h, PiecesOf(id)', late)
       /\ Proper(PiecesOf(id)') /\ PiecesOf(id) \subseteq PiecesOf(id)'
  <2>1. /\ Inv /\ BytesOK /\ ~Seq_ /\ h \in FragmentHead /\ ListOK(h) /\ ~h.torn /\ Sized(h) /\ late \in BOOLEAN
        /\ c \in CallOf /\ c.kept = c.len /\ id \in Nat /\ Made(h, PiecesOf(id), late) /\ (late => h.defrag /\ ~h.partial)
        /\ Len(h.items) = Before(id) /\ r.done \in BOOLEAN /\ r.thrown \in BOOLEAN
        /\ (r.h = h \/ r = AddWork(h, c, late)) /\ Log(c, id, r)
    BY <1>1, <1>2, <1>4, <1>6, <1>8, <1>9, <1>10, <1>11
  <2> QED
    BY ONLY <2>1, WorkMade
<1>13. /\ Len(heads') = Len(heads) /\ heads'[id] = r.h
       /\ \A i \in 1..Len(heads) : i # id => heads'[i] = hs[i]
  <2>1. PICK x : x = r.h
    OBVIOUS
  <2>2. heads' = [hs EXCEPT ![id] = x] /\ x \in FragmentHead /\ id \in 1..Len(hs) /\ hs \in Seq(FragmentHead)
    BY <1>1, <1>3, <1>4, <1>11, <2>1
  <2>3. Len(heads') = Len(hs) /\ \A i \in 1..Len(hs) : heads'[i] = IF i = id THEN x ELSE hs[i]
    BY ONLY <2>2, ExceptSeq
  <2> QED
    BY <1>3, <1>4, <2>1, <2>3
<1>14. AsLate(id)' = TRUE
  BY <1>1, <1>2, <1>3 DEF AsLate
<1>15. ~heads'[id].torn => Made(heads'[id], PiecesOf(id)', AsLate(id)')
  BY <1>6, <1>12, <1>13, <1>14
<1>16. \A i \in 1..Len(heads') : i # id => i \in 1..Len(heads) /\ SameHead(heads[i], heads'[i]) /\ PiecesOf(i)' = PiecesOf(i)
  BY <1>5, <1>12, <1>13
<1>17. table' \in {0, table, id}
  BY <1>1
<1>18. BytesOK'
  BY <1>2, <1>12, <1>15, <1>16, <1>17, BytesStayOK
<1>19. ASSUME GivenOK
       PROVE  GivenOK' /\ AllStaying
  <2>1. PICK a, b, R, S, g :
           a = given[id] /\ b = (IF r.done THEN r.h.data ELSE a) /\ R = PiecesOf(id) /\ S = PiecesOf(id)' /\ g = heads'[id]
    OBVIOUS
  <2>2. DOMAIN given = 1..Len(heads) /\ DOMAIN heads = 1..Len(heads)
    BY LenProperties DEF Inv, Typed
  <2>3. Lasting(a, R, h)
    <3>1. Lasting(a, R, heads[id])
      BY <1>3, <1>19, <2>1, <2>2 DEF GivenOK
    <3>2. SameHead(heads[id], h)
      BY <1>3, <1>5, <1>6
    <3> QED
      BY ONLY <3>1, <3>2, LastingSame
  <2>4. (r.h = h /\ ~r.done) \/ r = AddWork(h, c, late)
    BY <1>1, <1>6 DEF Going
  <2>5. r.done => r.h.defrag /\ ~r.h.torn
    <3>1. CASE r = AddWork(h, c, late)
      <4>1. Worked(h, c.from, c.num, r)
        BY <1>2, <1>6, <1>8, <3>1, AddWorked
      <4> QED
        BY <4>1 DEF Worked
    <3> QED
      BY <2>4, <3>1
  <2>6. SameHead(r.h, g)
    BY <1>3, <1>13, <2>1, SameHeadIs
  <2>7. ((r.h = h /\ ~r.done) \/ r = AddWork(h, c, late)) /\ (~r.h.torn => Made(r.h, S, late))
    BY <1>12, <2>1, <2>4
  <2>8. /\ h \in FragmentHead /\ ListOK(h) /\ ~h.torn /\ c \in CallOf /\ late \in BOOLEAN /\ (late => h.defrag /\ ~h.partial)
        /\ r.h \in FragmentHead /\ (r.done => r.h.defrag /\ ~r.h.torn) /\ Proper(S) /\ R \subseteq S
    BY <1>2, <1>6, <1>8, <1>11, <1>12, <2>1, <2>5
  <2>9. Answering(h, c, late, r, R, S, a, b, g)
    BY <2>1, <2>3, <2>6, <2>7, <2>8 DEF Answering
  <2>10. Lasting(b, S, g) /\ Staying(a, b, g)
    BY ONLY <2>9, WorkLasts
  <2>11. \A i \in 1..Len(heads') :
            given'[i] = IF i = id /\ r.done THEN r.h.data ELSE IF i \in DOMAIN given THEN given[i] ELSE NoData
    <3>1. Inv /\ Inv' /\ Log(c, id, r)
      BY <1>1
    <3> QED
      BY ONLY <3>1, LoggedGiven
  <2>12. \A i \in 1..Len(heads') : i # id =>
            /\ i \in 1..Len(heads) /\ SameHead(heads[i], heads'[i]) /\ PiecesOf(i)' = PiecesOf(i)
            /\ given'[i] = given[i]
    BY <1>13, <1>16, <2>2, <2>11
  <2>13. given'[id] = b
    BY <1>3, <1>13, <2>1, <2>2, <2>11
  <2>14. id \in 1..Len(heads') =>
            Lasting(given'[id], PiecesOf(id)', heads'[id]) /\ Staying(a, given'[id], heads'[id])
    BY <2>1, <2>10, <2>13
  <2>15. Len(heads) <= Len(heads') /\ (id \in DOMAIN given => a = given[id])
    BY <1>2, <1>13, <2>1
  <2> QED
    BY <1>2, <1>19, <2>12, <2>14, <2>15, GivenStaysOK
<1> QED
  BY <1>18, <1>19 DEF BytesKept

LEMMA AddCheckBytes ==
    ASSUME Inv, Inv', BytesOK, ~Seq_, NEW c, Adding(c), c.kept = c.len, NEW fallback \in 1..num,
           setup.api \in {"check", "fallback"}, setup.api = "check" => fallback = num, AddCheck(c, fallback)
    PROVE  BytesKept
<1>1. CASE table = 0 /\ fallback # num /\ done[fallback] # 0
  <2>1. fallback \in Frames
    <3>1. fallback \in 0..num /\ num \in Nat
      BY DEF Inv, Typed
    <3> QED
      BY <3>1, InFrames DEF Inv
  <2>2. \E id, hs, r : AddCheckAfter(c, fallback, id, hs, r)
    BY <1>1, <2>1 DEF AddCheck, AddCheckAfter
  <2> QED
    BY <2>2, AddCheckAfterBytes
<1>2. CASE ~(table = 0 /\ fallback # num /\ done[fallback] # 0)
  <2>1. \E r : AddCheckNow(c, r)
    BY <1>2 DEF AddCheck, AddCheckNow, Base, Current
  <2> QED
    BY <2>1, AddCheckNowBytes
<1> QED
  BY <1>1, <1>2

LEMMA AddFragmentBytes ==
    ASSUME Inv, Inv', BytesOK, ~Seq_, AddFragment
    PROVE  BytesKept
<1>1. PICK fr \in setup.frags, v \in setup.versions, short \in {FALSE, setup.short} :
        \/ setup.api \in {"add", "multiple"} /\ Add(Call(fr, v, num, FALSE), setup.api = "add")
        \/ setup.api = "ooo" /\ \E from \in 1..num : Add(Call(fr, v, from, FALSE), TRUE)
        \/ setup.api = "check" /\ AddCheck(Call(fr, v, num, short), num)
        \/ setup.api = "fallback" /\ \E b \in 1..num : AddCheck(Call(fr, v, num, short), b)
        \/ setup.api = "seq" /\ AddSeq(Call(fr, v, num, short))
        \/ setup.api \in {"seqcheck", "seqnext", "802.11"} /\ AddSeqCheck(Call(fr, v, num, short))
  BY DEF AddFragment
<1>2. num \in Nat /\ num >= 1 /\ num \in 1..num
  BY DEF Inv, Typed
<1>3. num' \in {num, num + 1} /\ (setup.api = "fallback" => num' = num + 1) /\ setup' = setup
  <2>1. setup.api = "fallback" => ~setup.crowded
    BY SetupIs DEF Inv
  <2> QED
    BY <2>1 DEF AddFragment
<1>4. ASSUME NEW from \in 1..num, NEW s \in BOOLEAN, NEW c, c = Call(fr, v, from, s)
      PROVE  Adding(c) /\ c.kept = c.len
  <2>1. fr.off \in Length /\ fr.len \in Length /\ fr.tail \in BOOLEAN /\ v \in Versions
    BY SetupIs DEF Inv
  <2>2. fr.off \in Nat /\ from \in Nat
    BY <1>2, <2>1, ModulusAssumption DEF Length
  <2>3. c \in CallOf /\ c.num = num /\ c.from = from /\ c.kept = c.len
    BY <1>2, <1>4, <2>1, <2>2 DEF Call, CallOf
  <2>4. Calm /\ Len(calls) < setup.calls
    BY DEF AddFragment
  <2> QED
    BY <1>3, <2>3, <2>4 DEF Adding
<1>5. short \in BOOLEAN
  BY SetupIs DEF Inv
<1>6. ASSUME NEW from \in 1..num, NEW check \in BOOLEAN, Add(Call(fr, v, from, FALSE), check)
      PROVE  BytesKept
  <2>1. PICK c : c = Call(fr, v, from, FALSE)
    OBVIOUS
  <2>2. Adding(c) /\ c.kept = c.len /\ Add(c, check)
    BY <1>4, <1>6, <2>1
  <2> QED
    BY <2>2, AddBytes
<1>7. ASSUME NEW b \in 1..num, setup.api \in {"check", "fallback"}, setup.api = "check" => b = num,
             AddCheck(Call(fr, v, num, short), b)
      PROVE  BytesKept
  <2>1. PICK c : c = Call(fr, v, num, short)
    OBVIOUS
  <2>2. Adding(c) /\ c.kept = c.len /\ AddCheck(c, b)
    BY <1>2, <1>4, <1>5, <1>7, <2>1
  <2> QED
    BY <1>7, <2>2, AddCheckBytes
<1>8. setup.api \notin BySeq
  BY DEF Seq_
<1>9. setup.api \notin {"seq", "seqcheck", "seqnext", "802.11"}
  BY <1>8 DEF BySeq
<1>10. CASE setup.api \in {"add", "multiple"} /\ Add(Call(fr, v, num, FALSE), setup.api = "add")
  BY <1>2, <1>6, <1>10
<1>11. CASE setup.api = "ooo" /\ \E from \in 1..num : Add(Call(fr, v, from, FALSE), TRUE)
  BY <1>6, <1>11
<1>12. CASE setup.api = "check" /\ AddCheck(Call(fr, v, num, short), num)
  BY <1>2, <1>7, <1>12
<1>13. CASE setup.api = "fallback" /\ \E b \in 1..num : AddCheck(Call(fr, v, num, short), b)
  BY <1>7, <1>13
<1> QED
  BY <1>1, <1>9, <1>10, <1>11, <1>12, <1>13

(* The other functions.                                                    *)
LEMMA ChangeBytes ==
    ASSUME Inv, Inv', BytesOK, ~Seq_, Calm, table # 0, setup' = setup, calls' = calls, table' \in {0, table},
           NEW h, h = heads[table], NEW x \in FragmentHead, heads' = [heads EXCEPT ![table] = x],
           NEW R, R = PiecesOf(table), Made(h, R, FALSE) /\ ~x.torn => Made(x, R, FALSE),
           given' = given, x.defrag /\ ~x.torn => h.defrag /\ x.data = h.data /\ x.flags = h.flags
    PROVE  BytesKept
<1>1. PICK id : id = table
  OBVIOUS
<1>2. /\ heads \in Seq(FragmentHead) /\ DOMAIN heads = 1..Len(heads) /\ id \in 1..Len(heads) /\ ~heads[id].torn
  BY <1>1, InTable, LenProperties DEF Inv, Typed, Calm
<1>3. Made(h, R, FALSE)
  <2>1. Made(heads[id], PiecesOf(id), AsLate(id))
    BY <1>2 DEF BytesOK
  <2>2. AsLate(id) = FALSE
    BY <1>1 DEF AsLate
  <2> QED
    BY <1>1, <2>1, <2>2
<1>4. /\ Len(heads') = Len(heads) /\ \A i \in 1..Len(heads) : heads'[i] = IF i = id THEN x ELSE heads[i]
  <2>1. heads' = [heads EXCEPT ![id] = x]
    BY <1>1
  <2> QED
    BY ONLY x \in FragmentHead, <1>2, <2>1, ExceptSeq
<1>5. \A i : PiecesOf(i)' = PiecesOf(i)
  BY DEF PiecesOf, AddedTo
<1>6. \A k \in DOMAIN calls' : calls'[k].kept <= calls'[k].len
  BY DEF BytesOK
<1>7. ~heads'[id].torn => Made(heads'[id], PiecesOf(id)', AsLate(id)')
  <2>1. heads'[id] = x /\ PiecesOf(id)' = R
    BY <1>1, <1>2, <1>4, <1>5
  <2>2. PICK b : b = AsLate(id)'
    OBVIOUS
  <2>3. b \in BOOLEAN
    BY <2>2 DEF AsLate
  <2>4. Made(x, R, FALSE) => Made(x, R, b)
    BY <2>3, MadeLater
  <2> QED
    BY <1>3, <2>1, <2>2, <2>4
<1>8. \A i \in 1..Len(heads') : i # id => i \in 1..Len(heads) /\ SameHead(heads[i], heads'[i]) /\ PiecesOf(i)' = PiecesOf(i)
  BY <1>4, <1>5, SameHeadIs
<1>9. table' \in {0, table, id}
  BY <1>1
<1>10. BytesOK'
  BY <1>6, <1>7, <1>8, <1>9, BytesStayOK
<1>11. ASSUME GivenOK
       PROVE  GivenOK' /\ AllStaying
  <2>1. PICK a : a = given[id]
    OBVIOUS
  <2>2. Lasting(a, R, h)
    BY <1>1, <1>2, <1>11, <2>1 DEF GivenOK
  <2>3. ~h.torn
    BY <1>1, <1>2
  <2>4. Lasting(a, R, x)
    BY <2>2, <2>3 DEF Lasting
  <2>5. Staying(a, a, x)
    BY DEF Staying
  <2>6. heads'[id] = x /\ PiecesOf(id)' = R /\ given'[id] = a
    BY <1>1, <1>2, <1>4, <1>5, <2>1
  <2>7. Lasting(given'[id], PiecesOf(id)', heads'[id]) /\ Staying(a, given'[id], heads'[id])
    BY <2>4, <2>5, <2>6
  <2>8. \A i \in 1..Len(heads') : i # id =>
           /\ i \in 1..Len(heads) /\ SameHead(heads[i], heads'[i]) /\ PiecesOf(i)' = PiecesOf(i)
           /\ given'[i] = given[i]
    BY <1>8
  <2>9. Len(heads) <= Len(heads')
    BY <1>2, <1>4, LenProperties
  <2> QED
    BY <1>11, <2>1, <2>7, <2>8, <2>9, GivenStaysOK
<1> QED
  BY <1>10, <1>11 DEF BytesKept

LEMMA SameMade ==
    ASSUME NEW h, NEW g, NEW R, Made(h, R, FALSE), g.items = h.items, g.data = h.data, g.defrag = h.defrag,
           g.flags = h.flags
    PROVE  Made(g, R, FALSE)
<1>1. PICK late : late = FALSE
  OBVIOUS
<1>2. Made(h, R, late) /\ late \in BOOLEAN
  BY <1>1
<1>3. Made(g, R, late)
  BY <1>1, <1>2, MadeSame
<1> QED
  BY <1>1, <1>3

LEMMA SetPartialReassemblyBytes ==
    ASSUME Inv, Inv', BytesOK, ~Seq_, SetPartialReassembly
    PROVE  BytesKept
<1>1. PICK h, x, R : h = heads[table] /\ x = [heads[table] EXCEPT !.partial = TRUE] /\ R = PiecesOf(table)
  OBVIOUS
<1>2. /\ Calm /\ table # 0 /\ setup' = setup /\ calls' = calls /\ table' = table /\ heads' = [heads EXCEPT ![table] = x]
      /\ given' = given
  BY <1>1 DEF SetPartialReassembly, Op, Change
<1>3. h \in FragmentHead
  BY <1>1, <1>2, InTable
<1>4. x \in FragmentHead /\ x.items = h.items /\ x.data = h.data /\ x.defrag = h.defrag /\ x.flags = h.flags
  <2>1. x = [h EXCEPT !.partial = TRUE]
    BY <1>1
  <2> QED
    BY <1>3, <2>1 DEF FragmentHead
<1>5. Made(h, R, FALSE) => Made(x, R, FALSE)
  BY <1>4, SameMade
<1> QED
  BY <1>1, <1>2, <1>4, <1>5, ChangeBytes

LEMMA SetTotLenBytes ==
    ASSUME Inv, Inv', BytesOK, ~Seq_, SetTotLen
    PROVE  BytesKept
<1>1. PICK h, R : h = heads[table] /\ R = PiecesOf(table)
  OBVIOUS
<1>2. PICK n, x :
         /\ n \in setup.lens /\ Op("setlen") /\ Change(x)
         /\ x = [h EXCEPT !.error = TRUE] \/ x = [h EXCEPT !.datalen = n, !.set = TRUE]
  BY <1>1 DEF SetTotLen
<1>3. /\ Calm /\ table # 0 /\ setup' = setup /\ calls' = calls /\ table' = table /\ heads' = [heads EXCEPT ![table] = x]
      /\ given' = given
  BY <1>2 DEF Op, Change
<1>4. h \in FragmentHead /\ n \in Nat
  BY <1>1, <1>2, <1>3, InTable, SetupIs DEF Inv
<1>5. x \in FragmentHead /\ x.items = h.items /\ x.data = h.data /\ x.defrag = h.defrag /\ x.flags = h.flags
  BY <1>2, <1>4 DEF FragmentHead
<1>6. Made(h, R, FALSE) => Made(x, R, FALSE)
  BY <1>5, SameMade
<1> QED
  BY <1>1, <1>3, <1>5, <1>6, ChangeBytes

LEMMA ResetTotLenBytes ==
    ASSUME Inv, Inv', BytesOK, ~Seq_, ResetTotLen
    PROVE  BytesKept
<1>1. PICK b, h, r, R : /\ b = heads[table] /\ h = [b EXCEPT !.partial = FALSE]
                        /\ r = (IF h.defrag THEN ResetDefragmentation(h) ELSE h) /\ R = PiecesOf(table)
  OBVIOUS
<1>2. PICK n, x :
         /\ n \in setup.lens /\ Op("resetlen") /\ Change(x)
         /\ x = IF n = h.datalen THEN h ELSE IF r.torn THEN r ELSE [r EXCEPT !.datalen = n, !.set = TRUE]
  BY <1>1 DEF ResetTotLen
<1>3. /\ Calm /\ table # 0 /\ setup' = setup /\ calls' = calls /\ table' = table /\ heads' = [heads EXCEPT ![table] = x]
      /\ given' = given
  BY <1>2 DEF Op, Change
<1>4. b \in FragmentHead /\ ~b.torn /\ ListOK(b) /\ n \in Nat
  BY <1>1, <1>2, <1>3, InTable, SetupIs DEF Inv
<1>5. /\ h \in FragmentHead /\ h.items = b.items /\ h.gap = b.gap /\ h.contig = b.contig /\ h.data = b.data
      /\ h.defrag = b.defrag /\ h.flags = b.flags /\ ~h.torn
  BY <1>1, <1>4 DEF FragmentHead
<1>6. ListOK(h)
  BY <1>4, <1>5 DEF ListOK, Sorted, GapExact
<1>7. x \in FragmentHead
  <2>1. heads' \in Seq(FragmentHead) /\ heads \in Seq(FragmentHead)
    BY DEF Inv, Typed
  <2>2. table \in DOMAIN heads
    BY <1>3, InTable
  <2>3. heads'[table] = x /\ table \in DOMAIN heads'
    BY <1>3, <2>2
  <2> QED
    BY <2>1, <2>3, LenProperties
<1>8. ASSUME Made(b, R, FALSE), ~x.torn
      PROVE  Made(x, R, FALSE)
  <2>1. Made(h, R, FALSE)
    BY <1>5, <1>8, SameMade
  <2>2. CASE n = h.datalen
    BY <1>2, <2>1, <2>2
  <2>3. CASE n # h.datalen
    <3>1. ~r.torn /\ x = [r EXCEPT !.datalen = n, !.set = TRUE]
      BY <1>2, <1>8, <2>3
    <3>2. r \in FragmentHead /\ Made(r, R, FALSE)
      <4>1. CASE ~h.defrag
        BY <1>1, <1>5, <2>1, <4>1
      <4>2. CASE h.defrag
        <5>1. r = ResetDefragmentation(h)
          BY <1>1, <4>2
        <5>2. r # Tear(h)
          BY <1>5, <3>1 DEF Tear, FragmentHead
        <5> QED
          BY <1>5, <1>6, <2>1, <4>2, <5>1, <5>2, ResetMade
      <4> QED
        BY <4>1, <4>2
    <3>3. x.items = r.items /\ x.data = r.data /\ x.defrag = r.defrag /\ x.flags = r.flags
      BY <3>1, <3>2 DEF FragmentHead
    <3> QED
      BY <3>2, <3>3, SameMade
  <2> QED
    BY <2>2, <2>3
<1>9. ASSUME x.defrag, ~x.torn
      PROVE  b.defrag /\ x.data = b.data /\ x.flags = b.flags
  <2>1. CASE n = h.datalen
    BY <1>2, <1>5, <1>9, <2>1
  <2>2. CASE n # h.datalen
    <3>1. ~r.torn /\ x = [r EXCEPT !.datalen = n, !.set = TRUE]
      BY <1>2, <1>9, <2>2
    <3>2. r \in FragmentHead /\ ~r.defrag
      <4>1. CASE ~h.defrag
        BY <1>1, <1>5, <4>1
      <4>2. CASE h.defrag
        <5>1. r = ResetDefragmentation(h)
          BY <1>1, <4>2
        <5>2. PICK g : g = r
          OBVIOUS
        <5>3. r # Tear(h)
          BY <1>5, <3>1 DEF Tear, FragmentHead
        <5>4. h \in FragmentHead /\ ListOK(h) /\ ~h.torn /\ g = ResetDefragmentation(h) /\ g # Tear(h)
          BY <1>5, <1>6, <5>1, <5>2, <5>3
        <5>5. g \in FragmentHead /\ g = Undone_(h, g)
          BY <5>4, ResetDefragmentationIs
        <5> QED
          BY <5>2, <5>4, <5>5 DEF Undone_, FragmentHead
      <4> QED
        BY <4>1, <4>2
    <3> QED
      BY <1>9, <3>1, <3>2 DEF FragmentHead
  <2> QED
    BY <2>1, <2>2
<1> QED
  BY <1>1, <1>3, <1>7, <1>8, <1>9, ChangeBytes

LEMMA DeleteBytes ==
    ASSUME Inv, Inv', BytesOK, ~Seq_, Delete
    PROVE  BytesKept
<1>1. PICK h, x, R : h = heads[table] /\ x = [h EXCEPT !.freed = TRUE] /\ R = PiecesOf(table)
  OBVIOUS
<1>2. Calm /\ table # 0 /\ setup' = setup /\ calls' = calls /\ table' = 0 /\ given' = given
  BY DEF Delete, Op
<1>3. h \in FragmentHead
  BY <1>1, <1>2, InTable
<1>4. heads' = [heads EXCEPT ![table] = x]
  BY <1>1 DEF Delete
<1>5. x \in FragmentHead /\ x.items = h.items /\ x.data = h.data /\ x.defrag = h.defrag /\ x.flags = h.flags
  BY <1>1, <1>3 DEF FragmentHead
<1>6. Made(h, R, FALSE) => Made(x, R, FALSE)
  BY <1>5, SameMade
<1> QED
  BY <1>1, <1>2, <1>4, <1>5, <1>6, ChangeBytes

(* fragment_truncate: the pieces are cut as the data.                      *)
(* Data that were handed over, of a datagram that is cut short.            *)
CutShort(a, b, n, h, x, R, S) ==
    /\ a \in Data /\ n \in Nat /\ b = [p \in DOMAIN a \cap 1..n |-> a[p]]
    /\ h \in FragmentHead /\ ListOK(h) /\ n <= Len(h.data) /\ Proper(R) /\ Lasting(a, R, h)
    /\ S = AllCut(R, n) /\ x \in FragmentHead /\ x = Truncated(h, n) /\ Made(x, S, FALSE)

LEMMA CutLasts ==
    ASSUME NEW a, NEW b, NEW n, NEW h, NEW x, NEW R, NEW S, CutShort(a, b, n, h, x, R, S)
    PROVE  Lasting(b, S, x) /\ Staying(a, b, x)
<1>0. /\ a \in Data /\ n \in Nat /\ b = [p \in DOMAIN a \cap 1..n |-> a[p]]
      /\ h \in FragmentHead /\ ListOK(h) /\ n <= Len(h.data) /\ Proper(R) /\ Lasting(a, R, h)
      /\ S = AllCut(R, n) /\ x \in FragmentHead /\ x = Truncated(h, n) /\ Made(x, S, FALSE)
  BY DEF CutShort
<1>1. a \in Seq(Byte) /\ DOMAIN a = 1..Len(a) /\ Len(a) \in Nat
  BY <1>0, LenProperties DEF Data
<1>2. DOMAIN b = DOMAIN a \cap 1..n /\ \A p \in DOMAIN b : b[p] = a[p] /\ p \in DOMAIN a /\ p \in 1..n
  BY <1>0
<1>3. Staying(a, b, x)
  BY <1>2 DEF Staying
<1>4. CASE a = NoData
  <2>1. DOMAIN a = {1} /\ a[1] = <<>>
    BY <1>1, <1>4 DEF NoData
  <2>2. CASE n = 0
    <3>1. DOMAIN b = {}
      BY <1>2, <2>2
    <3> QED
      BY <1>3, <3>1 DEF Lasting
  <2>3. CASE n # 0
    <3>1. DOMAIN a \cap 1..n = DOMAIN a
      BY <1>0, <2>1, <2>3
    <3>2. b = [p \in DOMAIN a |-> a[p]] /\ a = [p \in DOMAIN a |-> a[p]]
      <4>1. a = [p \in DOMAIN a |-> a[p]]
        BY <1>1
      <4> QED
        BY <1>0, <3>1, <4>1
    <3>3. b = NoData
      BY <1>0, <1>4, <3>2
    <3> QED
      BY <1>3, <3>3 DEF Lasting
  <2> QED
    BY <2>2, <2>3
<1>5. CASE a # NoData
  <2>1. ASSUME NEW p \in DOMAIN b
        PROVE  HeldBy(S, p - 1, b[p])
    <3>1. p \in 1..n /\ p \in DOMAIN a /\ b[p] = a[p]
      BY <1>2
    <3>2. PICK q, byte : q = p - 1 /\ byte = a[p]
      OBVIOUS
    <3>3. HeldBy(R, q, byte)
      BY <1>0, <1>5, <3>1, <3>2 DEF Lasting
    <3>4. q \in Int /\ q < n
      BY <1>0, <1>1, <3>1, <3>2
    <3>5. HeldBy(S, q, byte)
      BY <1>0, <3>3, <3>4, AllCutIs
    <3> QED
      BY <3>1, <3>2, <3>5
  <2>2. Proper(S)
    BY <1>0, AllCutIs
  <2>3. x.data = SubSeq(h.data, 1, n) /\ x.datalen = n
    <3>1. x = CutTo(h, x, n)
      BY <1>0, TruncatedIs
    <3>2. PICK y : y = x
      OBVIOUS
    <3>3. y = CutTo(h, y, n)
      BY <3>1, <3>2
    <3> QED
      BY <1>0, <3>2, <3>3 DEF CutTo, FragmentHead
  <2>4. Len(x.data) = x.datalen
    <3>1. h.data \in Data
      BY <1>0 DEF FragmentHead
    <3>2. Len(SubSeq(h.data, 1, n)) = n
      BY <1>0, <3>1, FrontIs
    <3> QED
      BY <2>3, <3>2
  <2>5. DOMAIN x.data = 1..Len(x.data)
    BY <1>0, LenProperties DEF FragmentHead, Data
  <2>6. ASSUME x.defrag, "conflict" \notin x.flags, NEW p \in DOMAIN b \cap DOMAIN x.data
        PROVE  b[p] = x.data[p]
    <3>1. HeldBy(S, p - 1, b[p]) /\ p \in 1..Len(x.data)
      BY <2>1, <2>5, <2>6
    <3>2. PICK byte : byte = b[p]
      OBVIOUS
    <3>3. /\ x \in FragmentHead /\ x.defrag /\ Len(x.data) = x.datalen /\ Proper(S) /\ Made(x, S, FALSE)
          /\ "conflict" \notin x.flags /\ p \in 1..Len(x.data) /\ HeldBy(S, p - 1, byte)
      BY <1>0, <2>2, <2>4, <2>6, <3>1, <3>2
    <3>4. byte = x.data[p]
      BY ONLY <3>3, HeldInData
    <3> QED
      BY <3>2, <3>4
  <2>7. Lasting(b, S, x)
    BY <2>1, <2>6 DEF Lasting
  <2> QED
    BY <1>3, <2>7
<1> QED
  BY <1>4, <1>5

LEMMA TruncateBytes ==
    ASSUME Inv, Inv', BytesOK, ~Seq_, Truncate
    PROVE  BytesKept
<1>1. PICK id, h : id = table /\ h = heads[id]
  OBVIOUS
<1>2. PICK n \in setup.lens :
         /\ Op("truncate") /\ h.defrag /\ h.datalen > n
         /\ heads' = [heads EXCEPT ![id] = Truncated(h, n)]
         /\ given' = [given EXCEPT ![id] = [p \in DOMAIN @ \cap 1..n |-> @[p]]]
         /\ calls' = [k \in DOMAIN calls |-> IF calls[k].id = id THEN [calls[k] EXCEPT !.kept = Until(calls[k], n)]
                                                                 ELSE calls[k]]
  <2>1. PICK n \in setup.lens :
           /\ Op("truncate") /\ heads[table].defrag /\ heads[table].datalen > n
           /\ heads' = [heads EXCEPT ![table] = Truncated(heads[table], n)]
           /\ calls' = [k \in DOMAIN calls |-> IF calls[k].id = table THEN [calls[k] EXCEPT !.kept = Until(calls[k], n)]
                                                                       ELSE calls[k]]
           /\ given' = [given EXCEPT ![table] = [p \in DOMAIN @ \cap 1..n |-> @[p]]]
    BY DEF Truncate
  <2>2. /\ Op("truncate") /\ h.defrag /\ h.datalen > n
        /\ heads' = [heads EXCEPT ![id] = Truncated(h, n)]
        /\ given' = [given EXCEPT ![id] = [p \in DOMAIN @ \cap 1..n |-> @[p]]]
        /\ calls' = [k \in DOMAIN calls |-> IF calls[k].id = id THEN [calls[k] EXCEPT !.kept = Until(calls[k], n)]
                                                                ELSE calls[k]]
    BY ONLY <1>1, <2>1
  <2> QED
    BY ONLY <2>2, n \in setup.lens
<1>3. PICK x : x = Truncated(h, n) /\ heads' = [heads EXCEPT ![id] = x]
  BY <1>2
<1>4. table # 0 /\ n \in Nat /\ Calm /\ setup.api \notin BySeq /\ table' = table /\ setup' = setup
  BY <1>2, SetupIs DEF Inv, Op, Truncate
<1>5. h \in FragmentHead /\ HeadFine(setup.api, h, TRUE, num) /\ ~h.torn /\ ListOK(h) /\ id \in 1..Len(heads)
  BY <1>1, <1>4, InTable
<1>6. n <= Len(h.data)
  <2>1. Sized(h) /\ h.datalen \in Nat
    BY <1>4, <1>5 DEF HeadFine, FragmentHead
  <2> QED
    BY <1>2, <1>4, <1>5, <2>1 DEF Sized
<1>7. PICK R : R = PiecesOf(id)
  OBVIOUS
<1>8. Proper(R) /\ Made(h, R, FALSE)
  <2>1. id \in DOMAIN heads
    BY <1>1, <1>4, InTable
  <2>2. AsLate(id) = FALSE
    BY <1>1 DEF AsLate
  <2>3. Made(heads[id], PiecesOf(id), AsLate(id))
    BY <1>1, <1>5, <2>1 DEF BytesOK
  <2> QED
    BY <1>1, <1>7, <2>2, <2>3, PiecesProper
<1>9. x \in FragmentHead /\ Made(x, AllCut(R, n), FALSE)
  <2>1. x \in FragmentHead
    BY <1>2, <1>3, <1>4, <1>5, <1>6, TruncatedIs
  <2> QED
    BY <1>2, <1>3, <1>4, <1>5, <1>6, <1>8, <2>1, TruncatedMade
<1>10. \A k \in DOMAIN calls : calls[k] \in CallOf /\ calls[k].kept <= calls[k].len
  <2>1. calls \in Seq(CallOf)
    BY DEF Inv, Typed
  <2> QED
    BY <2>1, LenProperties DEF BytesOK
<1>11. DOMAIN calls' = DOMAIN calls /\ \A k \in DOMAIN calls : calls'[k] = IF calls[k].id = id THEN CutOff(calls[k], n) ELSE calls[k]
  BY <1>2 DEF CutOff
<1>12. ASSUME NEW k \in DOMAIN calls
       PROVE  /\ calls'[k].id = calls[k].id /\ calls'[k].added = calls[k].added /\ (Wraps(calls'[k]) <=> Wraps(calls[k]))
              /\ calls'[k].kept <= calls'[k].len
  <2>1. CASE calls[k].id # id
    BY <1>10, <1>11, <2>1
  <2>2. CASE calls[k].id = id
    <3>1. PICK c, d : c = calls[k] /\ d = calls'[k]
      OBVIOUS
    <3>2. c \in CallOf /\ c.kept <= c.len /\ d = CutOff(c, n)
      BY <1>10, <1>11, <2>2, <3>1
    <3>3. /\ d \in CallOf /\ d.len = c.len /\ d.id = c.id /\ d.added = c.added /\ (Wraps(d) <=> Wraps(c))
          /\ d.kept <= c.kept
      BY ONLY <1>4, <3>2, CutOffIs
    <3>4. c.kept \in Nat /\ c.len \in Nat /\ d.kept \in Nat
      BY <3>2, <3>3, ModulusAssumption DEF CallOf, Length
    <3>5. d.kept <= d.len
      BY ONLY <3>2, <3>3, <3>4
    <3> QED
      BY <3>1, <3>3, <3>5
  <2> QED
    BY <2>1, <2>2
<1>13. \A i : AddedTo(i)' = AddedTo(i)
  <2> TAKE i
  <2>1. AddedTo(i)' = {k \in DOMAIN calls' : calls'[k].id = i /\ calls'[k].added /\ ~Wraps(calls'[k])}
    BY DEF AddedTo
  <2>2. AddedTo(i) = {k \in DOMAIN calls : calls[k].id = i /\ calls[k].added /\ ~Wraps(calls[k])}
    BY DEF AddedTo
  <2> QED
    BY <1>11, <1>12, <2>1, <2>2
<1>14. \A i : PiecesOf(i)' = {calls'[k] : k \in AddedTo(i)}
  BY <1>13 DEF PiecesOf
<1>15. \A i : \A k \in AddedTo(i) : k \in DOMAIN calls /\ calls[k].id = i
  BY DEF AddedTo
<1>16. \A i : i # id => PiecesOf(i)' = PiecesOf(i)
  <2>1. \A i : PiecesOf(i) = {calls[k] : k \in AddedTo(i)}
    BY DEF PiecesOf
  <2>2. \A i : i # id => \A k \in AddedTo(i) : calls'[k] = calls[k]
    BY <1>11, <1>15
  <2> QED
    BY <1>14, <2>1, <2>2
<1>17. PiecesOf(id)' = AllCut(R, n)
  <2>1. R = {calls[k] : k \in AddedTo(id)}
    BY <1>7 DEF PiecesOf
  <2>2. \A k \in AddedTo(id) : calls'[k] = CutOff(calls[k], n)
    BY <1>11, <1>15
  <2>3. AllCut(R, n) = {CutOff(calls[k], n) : k \in AddedTo(id)}
    BY <2>1 DEF AllCut
  <2> QED
    BY <1>14, <2>2, <2>3
<1>18. /\ Len(heads') = Len(heads) /\ \A i \in 1..Len(heads) : heads'[i] = IF i = id THEN x ELSE heads[i]
  <2>1. heads \in Seq(FragmentHead) /\ heads' = [heads EXCEPT ![id] = x]
    BY <1>3 DEF Inv, Typed
  <2> QED
    BY ONLY <1>5, <1>9, <2>1, ExceptSeq
<1>19. Made(heads'[id], PiecesOf(id)', AsLate(id)')
  <2>1. AsLate(id)' = FALSE
    BY <1>1, <1>4 DEF AsLate
  <2> QED
    BY <1>5, <1>9, <1>17, <1>18, <2>1
<1>20. \A i \in 1..Len(heads') : i # id => i \in 1..Len(heads) /\ SameHead(heads[i], heads'[i]) /\ PiecesOf(i)' = PiecesOf(i)
  BY <1>16, <1>18, SameHeadIs
<1>21. table' \in {0, table, id} /\ \A k \in DOMAIN calls' : calls'[k].kept <= calls'[k].len
  BY <1>4, <1>11, <1>12
<1>22. BytesOK'
  BY <1>4, <1>19, <1>20, <1>21, BytesStayOK
<1>23. ASSUME GivenOK
       PROVE  GivenOK' /\ AllStaying
  <2>1. DOMAIN given = 1..Len(heads) /\ DOMAIN heads = 1..Len(heads) /\ given \in Seq(Data)
    BY LenProperties DEF Inv, Typed
  <2>2. PICK a, b, S : a = given[id] /\ b = [p \in DOMAIN a \cap 1..n |-> a[p]] /\ S = AllCut(R, n)
    OBVIOUS
  <2>3. given' = [given EXCEPT ![id] = b]
    <3>1. given' = [given EXCEPT ![id] = [p \in DOMAIN @ \cap 1..n |-> @[p]]]
      BY <1>2
    <3> QED
      BY <1>5, <2>1, <2>2, <3>1
  <2>4. given'[id] = b /\ \A i \in 1..Len(heads) : i # id => given'[i] = given[i]
    BY <1>5, <2>1, <2>3
  <2>5. Lasting(a, R, h) /\ a \in Data
    <3>1. id \in DOMAIN heads /\ id \in 1..Len(given)
      BY <1>5, <2>1 DEF Inv, Typed
    <3>2. a \in Data
      BY <2>1, <2>2, <3>1, LenProperties
    <3>3. Lasting(given[id], PiecesOf(id), heads[id])
      BY <1>23, <3>1 DEF GivenOK
    <3> QED
      BY <1>1, <1>7, <2>2, <3>2, <3>3
  <2>6. CutShort(a, b, n, h, x, R, S)
    <3>1. /\ a \in Data /\ n \in Nat /\ b = [p \in DOMAIN a \cap 1..n |-> a[p]] /\ Lasting(a, R, h)
          /\ Proper(R) /\ S = AllCut(R, n) /\ x \in FragmentHead /\ Made(x, S, FALSE)
          /\ h \in FragmentHead /\ ListOK(h) /\ n <= Len(h.data) /\ x = Truncated(h, n)
      BY <1>3, <1>4, <1>5, <1>6, <1>8, <1>9, <2>2, <2>5
    <3> QED
      BY ONLY <3>1 DEF CutShort
  <2>7. Lasting(b, S, x) /\ Staying(a, b, x)
    BY ONLY <2>6, CutLasts
  <2>8. id \in 1..Len(heads') =>
           Lasting(given'[id], PiecesOf(id)', heads'[id]) /\ Staying(a, given'[id], heads'[id])
    BY <1>5, <1>17, <1>18, <2>2, <2>4, <2>7
  <2>9. \A i \in 1..Len(heads') : i # id =>
           /\ i \in 1..Len(heads) /\ SameHead(heads[i], heads'[i]) /\ PiecesOf(i)' = PiecesOf(i)
           /\ given'[i] = given[i]
    BY <1>18, <1>20, <2>4
  <2>10. Len(heads) <= Len(heads')
    BY <1>18, LenProperties DEF Inv, Typed
  <2>11. setup' = setup /\ (id \in DOMAIN given => a = given[id])
    BY <1>4, <2>2
  <2> QED
    BY <1>23, <2>8, <2>9, <2>10, <2>11, GivenStaysOK
<1> QED
  BY <1>22, <1>23 DEF BytesKept

LEMMA BySeqBytes ==
    ASSUME Seq_, setup' = setup
    PROVE  BytesKept
<1>1. Seq_'
  BY DEF Seq_
<1> QED
  BY <1>1 DEF BytesOK, BytesKept

LEMMA NextBytes ==
    ASSUME Inv, Inv', BytesOK, [Next]_vars
    PROVE  BytesKept
<1>1. CASE AddFragment
  BY <1>1, BySeqBytes, AddFragmentBytes DEF AddFragment
<1>2. CASE SetPartialReassembly
  BY <1>2, BySeqBytes, SetPartialReassemblyBytes DEF SetPartialReassembly, Change
<1>3. CASE SetTotLen
  BY <1>3, BySeqBytes, SetTotLenBytes DEF SetTotLen, Change
<1>4. CASE ResetTotLen
  BY <1>4, BySeqBytes, ResetTotLenBytes DEF ResetTotLen, Change
<1>5. CASE Truncate
  BY <1>5, BySeqBytes, TruncateBytes DEF Truncate
<1>6. CASE EndSeqNext
  <2>1. "end" \in setup.ops /\ setup' = setup
    BY <1>6 DEF EndSeqNext, Op
  <2>2. Seq_
    BY <2>1, SetupIs DEF Inv, Seq_
  <2> QED
    BY <2>1, <2>2, BySeqBytes
<1>7. CASE Delete
  BY <1>7, BySeqBytes, DeleteBytes DEF Delete
<1>8. CASE UNCHANGED vars
  <2>1. setup' = setup /\ heads' = heads /\ table' = table /\ calls' = calls
    BY <1>8 DEF vars
  <2>2. Seq_' = Seq_ /\ \A i : AddedTo(i)' = AddedTo(i) /\ AsLate(i)' = AsLate(i)
    BY <2>1 DEF Seq_, AddedTo, AsLate
  <2>3. \A i : PiecesOf(i)' = PiecesOf(i)
    BY <2>1, <2>2 DEF PiecesOf
  <2>4. BytesOK'
    BY <2>1, <2>2, <2>3 DEF BytesOK
  <2>5. ASSUME GivenOK
        PROVE  GivenOK'
    BY <2>1, <2>2, <2>3, <2>5, <1>8 DEF GivenOK, vars
  <2>6. given' = given
    BY <1>8 DEF vars
  <2>7. AllStaying
    BY <2>6 DEF AllStaying, Staying
  <2> QED
    BY <2>4, <2>5, <2>7 DEF BytesKept
<1> QED
  BY <1>1, <1>2, <1>3, <1>4, <1>5, <1>6, <1>7, <1>8 DEF Next, Over

(* The invariant of the bytes: each head is made of its pieces.            *)
THEOREM SpecBytesOK == Spec => [](Inv /\ BytesOK)
<1>1. Init => Inv /\ BytesOK
  <2> SUFFICES ASSUME Init PROVE Inv /\ BytesOK
    OBVIOUS
  <2>1. DOMAIN heads = {} /\ DOMAIN calls = {}
    BY DEF Init
  <2> QED
    BY <2>1, InitInv DEF BytesOK
<1>2. (Inv /\ BytesOK) /\ [Next]_vars => (Inv /\ BytesOK)'
  BY NextKeeps, NextBytes DEF BytesKept
<1> QED
  BY <1>1, <1>2, PTL DEF Spec

LEMMA BytesAreInPlace ==
    ASSUME Inv, BytesOK
    PROVE  DataInPlace
<1> SUFFICES ASSUME ~Seq_, NEW i \in DOMAIN heads, heads[i].defrag, ~heads[i].torn
             PROVE  /\ Len(heads[i].data) = heads[i].datalen \/ heads[i].datalen = 0
                    /\ \A p \in DOMAIN heads[i].data : From(i, p - 1, heads[i].data[p])
                    /\ Disagree(i) => "conflict" \in heads[i].flags
                    /\ "conflict" \in heads[i].flags => Disagreed(i)
  BY DEF DataInPlace, BytesInPlace, ConflictNoticed
<1>1. PICK h, R, late : h = heads[i] /\ R = PiecesOf(i) /\ late = AsLate(i)
  OBVIOUS
<1>2. h \in FragmentHead /\ h.defrag /\ ~h.torn /\ late \in BOOLEAN
  BY <1>1, LenProperties DEF Inv, Typed, AsLate
<1>3. Proper(R) /\ Made(h, R, late)
  BY <1>1, PiecesProper DEF BytesOK
<1>4. Len(h.data) = h.datalen \/ h.datalen = 0
  <2>1. Sized(h)
    BY <1>1 DEF Inv, HeadsOK, HeadFine, Seq_
  <2> QED
    BY <1>2, <2>1 DEF Sized
<1>5. ASSUME NEW p \in DOMAIN h.data
      PROVE  From(i, p - 1, h.data[p])
  <2>1. p \in 1..Len(h.data) /\ p - 1 \in Int
    BY <1>2, LenProperties DEF FragmentHead, Data
  <2>2. PICK c \in R : Holds(c, p - 1) /\ h.data[p] = <<p - 1, 0, c.v>>
    BY <1>2, <1>3, <2>1 DEF Made, HeldBy
  <2>3. Has(c, p - 1)
    BY <1>3, <2>1, <2>2, PieceIs
  <2>4. PICK k \in AddedTo(i) : c = calls[k]
    BY <1>1 DEF PiecesOf
  <2> QED
    BY <2>2, <2>3, <2>4 DEF From
<1>6. ASSUME Disagree(i), "conflict" \notin h.flags
      PROVE  FALSE
  <2>1. PICK j \in AddedTo(i), k \in AddedTo(i), p \in 0..(h.datalen - 1) :
           calls[j].v # calls[k].v /\ \A c \in {calls[j], calls[k]} : Stands(c, p, h.datalen)
    BY <1>1, <1>6 DEF Disagree
  <2>2. h.datalen \in Nat /\ Len(h.data) = h.datalen
    <3>1. h.datalen \in Nat
      BY <1>2 DEF FragmentHead
    <3> QED
      BY <1>4, <3>1
  <2>3. ASSUME NEW c \in {calls[j], calls[k]}
        PROVE  h.data[p + 1] = <<p, 0, c.v>>
    <3>1. c \in R
      BY <1>1 DEF PiecesOf
    <3>2. Stands(c, p, h.datalen)
      BY <2>1, <2>3
    <3>3. Holds(c, p) /\ (late /\ c.toolong => c.off + c.kept <= h.datalen)
      BY <1>1, <3>2 DEF Stands, Holds, AsLate
    <3> QED
      BY <1>2, <1>3, <1>6, <2>2, <3>1, <3>3, SeenInData
  <2>4. <<p, 0, calls[j].v>> = <<p, 0, calls[k].v>>
    BY <2>3
  <2> QED
    BY <2>1, <2>4
<1>7. ASSUME "conflict" \in h.flags
      PROVE  Disagreed(i)
  <2>1. PICK c \in R, d \in R, p \in 0..(Modulus - 1) : c.v # d.v /\ Has(c, p) /\ Has(d, p)
    BY <1>3, <1>7 DEF Made, Clash
  <2>2. PICK j \in AddedTo(i), k \in AddedTo(i) : c = calls[j] /\ d = calls[k]
    BY <1>1 DEF PiecesOf
  <2> QED
    BY <2>1, <2>2 DEF Disagreed
<1> QED
  BY <1>1, <1>4, <1>5, <1>6, <1>7

(* A completed reassembly is as long as it says, each byte of it is that    *)
(* of a fragment that was added at its place, and it is marked when two of  *)
(* its fragments contradict each other and only then - whatever was added,  *)
(* in any order, after a reset, a new length, a truncation or late          *)
(* (fragment_add_work, fragment_defragment, fragment_truncate,              *)
(* fragment_reset_tot_len).                                                 *)
THEOREM SpecDataInPlace == Spec => []DataInPlace
<1>1. Inv /\ BytesOK => DataInPlace
  BY BytesAreInPlace
<1> QED
  BY <1>1, SpecBytesOK, PTL

LEMMA SetupStays == ASSUME [Next]_vars PROVE setup' = setup
<1>1. CASE AddFragment
  BY <1>1 DEF AddFragment
<1>2. CASE SetPartialReassembly \/ SetTotLen \/ ResetTotLen
  BY <1>2 DEF SetPartialReassembly, SetTotLen, ResetTotLen, Change
<1>3. CASE Truncate \/ EndSeqNext \/ Delete \/ Over \/ UNCHANGED vars
  BY <1>3 DEF Truncate, EndSeqNext, Delete, Over, vars
<1> QED
  BY <1>1, <1>2, <1>3 DEF Next

(* BytesStay, of the callers by offsets: a byte that a dissector was given *)
(* is another one afterwards only when the reassembly says that its        *)
(* fragments contradict each other. Whatever was given is made of pieces   *)
(* and agrees with the data of a head that is not marked (GivenOK), so a   *)
(* later tvbuff, put together of the same pieces, has it too.              *)
THEOREM SpecBytesStay == Spec /\ ~Seq_ => BytesStay
<1> DEFINE I == Inv /\ BytesOK /\ GivenOK /\ ~Seq_
<1>1. Init /\ ~Seq_ => I
  <2> SUFFICES ASSUME Init, ~Seq_ PROVE I
    OBVIOUS
  <2>1. DOMAIN heads = {} /\ DOMAIN calls = {}
    BY DEF Init
  <2> QED
    BY <2>1, InitInv DEF BytesOK, GivenOK
<1>2. ASSUME I, [Next]_vars
      PROVE  I' /\ AllStaying
  <2>1. Inv' /\ BytesKept
    BY <1>2, NextKeeps, NextBytes
  <2>2. ~Seq_'
    BY <1>2, SetupStays DEF Seq_
  <2> QED
    BY <1>2, <2>1, <2>2 DEF BytesKept
<1>3. ASSUME I, [Next]_vars
      PROVE  [\A i \in DOMAIN given :
                 given[i] # NoData /\ "conflict" \notin heads'[i].flags =>
                     \A p \in DOMAIN given[i] \cap DOMAIN given'[i] :
                         (Seq_ => Within(i) /\ given[i][p][1] <= heads[i].datalen) => given'[i][p] = given[i][p]]_vars
  BY <1>2, <1>3 DEF AllStaying, Staying
<1>4. I /\ [Next]_vars => I'
  BY <1>2
<1> HIDE DEF I
<1> QED
  BY <1>1, <1>3, <1>4, PTL DEF Spec, BytesStay
===============================================================================
