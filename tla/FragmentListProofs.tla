-------------------------- MODULE FragmentListProofs --------------------------
(***************************************************************************)
(* What LINK_FRAG does to any list: it stays sorted, and its cache stays   *)
(* what it stands for.                                                     *)
(***************************************************************************)
EXTENDS FragmentList, NumberLemmas, SequenceTheorems

(* A fragment, whatever else it has than an offset and a length.           *)
Fragment(f) == f.off \in Nat /\ f.len \in 0..(Modulus - 1)

(* The end of a fragment is an offset.                                     *)
LEMMA EndType ==
    ASSUME NEW f, Fragment(f)
    PROVE  End(f) \in 0..(Modulus - 1) /\ (f.off = 0 => End(f) = f.len)
<1>1. \A n \in Nat : n % Modulus \in 0..(Modulus - 1) /\ (n < Modulus => n % Modulus = n)
  BY ModulusAssumption, Z3
<1>2. f.off \in Nat /\ f.len \in Nat /\ f.off + f.len \in Nat /\ f.len < Modulus
  BY ModulusAssumption DEF Fragment
<1>3. End(f) = (f.off + f.len) % Modulus
  BY DEF End, Plus
<1>4. ASSUME f.off = 0 PROVE f.off + f.len = f.len
  BY <1>2, <1>4
<1> QED
  BY <1>1, <1>2, <1>3, <1>4

(* What Reach is: at least c and each of the ends, and one of these.       *)
LEMMA ReachIs ==
    ASSUME NEW items, NEW i \in Nat, NEW j \in Nat, NEW c \in Nat,
           \A k \in i..j : Fragment(items[k])
    PROVE  /\ Reach(items, i, j, c) \in Nat
           /\ c <= Reach(items, i, j, c)
           /\ \A k \in i..j : End(items[k]) <= Reach(items, i, j, c)
           /\ \/ Reach(items, i, j, c) = c
              \/ \E k \in i..j : Reach(items, i, j, c) = End(items[k])
<1> DEFINE ends == {c} \cup {End(items[k]) : k \in i..j}
<1>1. \A k \in i..j : End(items[k]) \in 0..(Modulus - 1)
  BY EndType
<1>2. ends \in SUBSET Nat /\ ends # {} /\ Larger(c, Modulus) \in Nat
  BY <1>1, ModulusAssumption DEF Larger
<1>3. \A x \in ends : x <= Larger(c, Modulus)
  BY <1>1, ModulusAssumption DEF Larger
<1> HIDE DEF ends
<1>4. \E m \in ends : \A x \in ends : x <= m
  BY <1>2, <1>3, GreatestOf
<1>5. Reach(items, i, j, c) \in ends /\ \A x \in ends : x <= Reach(items, i, j, c)
  BY <1>4 DEF Reach, ends
<1> QED
  BY <1>2, <1>5 DEF ends

(* The loop of update_first_gap ends, and where it does.                   *)
LEMMA LastIs ==
    ASSUME NEW S, \A f \in S : Fragment(f), NEW items \in Seq(S), NEW from \in 1..Len(items), NEW c \in Nat
    PROVE  LET k == LastBeforeGap(items, from, c) IN
           /\ k \in from..Len(items)
           /\ k = Len(items) \/ items[k + 1].off > Reach(items, from + 1, k, c)
           /\ \A j \in from..(k - 1) : items[j + 1].off <= Reach(items, from + 1, j, c)
<1> DEFINE Stop(k) == k = Len(items) \/ items[k + 1].off > Reach(items, from + 1, k, c)
           Stops   == {k \in from..Len(items) : Stop(k)}
<1>1. Stops \in SUBSET Nat /\ Len(items) \in Stops
  OBVIOUS
<1>2. PICK k \in Stops : \A j \in Stops : k <= j
  BY <1>1, LeastOf
<1>3. ASSUME NEW j \in from..(k - 1) PROVE items[j + 1].off <= Reach(items, from + 1, j, c)
  <2>1. j \in from..Len(items) /\ j \notin Stops
    BY <1>2, <1>3
  <2>2. ~ Stop(j) /\ j + 1 \in 1..Len(items)
    BY <2>1
  <2>3. items[j + 1] \in S
    BY <2>2
  <2>4. Reach(items, from + 1, j, c) \in Nat
    <3>1. \A i \in (from + 1)..j : Fragment(items[i])
      <4>1. \A i \in (from + 1)..j : items[i] \in S
        BY <2>1
      <4> QED
        BY <4>1
    <3>2. from + 1 \in Nat /\ j \in Nat
      BY <2>1
    <3> HIDE DEF Stop, Stops
    <3> QED
      BY <3>1, <3>2, ReachIs
  <2>5. items[j + 1].off \in Nat
    BY <2>3, ModulusAssumption DEF Fragment
  <2>6. ~ (items[j + 1].off > Reach(items, from + 1, j, c))
    BY <2>2
  <2> HIDE DEF Stop, Stops
  <2> QED
    BY <2>4, <2>5, <2>6
<1> QED
  BY <1>2, <1>3 DEF LastBeforeGap

(* Where LINK_FRAG puts a fragment: after those that start no later, and   *)
(* before the others.                                                      *)
LEMMA PlaceIs ==
    ASSUME NEW S, \A g \in S : Fragment(g), NEW l, l.items \in Seq(S), Sorted(l),
           l.gap \in 0..Len(l.items), NEW f \in S
    PROVE  /\ Place(l, f) \in 1..(Len(l.items) + 1)
           /\ \A i \in 1..(Place(l, f) - 1) : l.items[i].off <= f.off
           /\ \A i \in Place(l, f)..Len(l.items) : f.off < l.items[i].off
<1> DEFINE n     == Len(l.items)
           start == IF l.gap # 0 /\ f.off >= l.items[l.gap].off THEN l.gap ELSE 1
           Here(i) == i = n \/ f.off < l.items[i + 1].off
           Heres   == {i \in start..n : Here(i)}
<1>1. n \in Nat /\ f.off \in Nat /\ \A i \in 1..n : l.items[i].off \in Nat
  <2>1. n \in Nat /\ \A i \in 1..n : l.items[i] \in S
    OBVIOUS
  <2>2. \A g \in S : g.off \in Nat
    BY ModulusAssumption DEF Fragment
  <2> QED
    BY <2>1, <2>2
<1>2. \A i, j \in 1..n : i <= j => l.items[i].off <= l.items[j].off
  BY DEF Sorted
<1>3. CASE n = 0 \/ f.off < l.items[1].off
  <2>1. Place(l, f) = 1
    BY <1>3 DEF Place
  <2>2. \A i \in 1..n : f.off < l.items[i].off
    <3> TAKE i \in 1..n
    <3>1. n # 0 /\ 1 \in 1..n
      BY <1>1
    <3> QED
      BY <3>1, <1>1, <1>2, <1>3
  <2> QED
    BY <2>1, <2>2, <1>1
<1>4. CASE ~ (n = 0 \/ f.off < l.items[1].off)
  <2>1. start \in 1..n /\ l.items[start].off <= f.off
    BY <1>1, <1>4
  <2>2. Heres \in SUBSET Nat /\ n \in Heres
    BY <2>1, <1>1
  <2> HIDE DEF start, Heres
  <2>3. PICK k \in Heres : \A j \in Heres : k <= j
    BY <2>2, LeastOf
  <2>4. k \in start..n /\ Here(k) /\ k \in 1..n
    BY <2>1, <2>3, <1>1 DEF Heres
  <2>5. ASSUME NEW j \in start..(k - 1) PROVE f.off >= l.items[j + 1].off
    <3>1. j \in start..n /\ j \notin Heres /\ j + 1 \in 1..n
      BY <2>1, <2>3, <2>4, <1>1
    <3>2. ~ Here(j)
      BY <3>1 DEF Heres
    <3> QED
      BY <3>1, <3>2, <1>1
  <2> DEFINE at == CHOOSE i \in start..n :
                       /\ i = n \/ f.off < l.items[i + 1].off
                       /\ \A j \in start..(i - 1) : f.off >= l.items[j + 1].off
  <2>6. /\ at \in start..n
        /\ at = n \/ f.off < l.items[at + 1].off
        /\ \A j \in start..(at - 1) : f.off >= l.items[j + 1].off
    BY <2>4, <2>5
  <2>7. Place(l, f) = 1 + at
    BY <1>4 DEF Place, start
  <2> HIDE DEF at
  <2>8. at \in 1..n
    BY <2>1, <2>6, <1>1
  <2>9. l.items[at].off <= f.off
    <3>1. CASE at = start
      BY <3>1, <2>1
    <3>2. CASE at # start
      <4>1. at - 1 \in start..(at - 1) /\ (at - 1) + 1 = at
        BY <3>2, <2>1, <2>6, <1>1
      <4> QED
        BY <4>1, <2>6, <2>8, <1>1
    <3> QED
      BY <3>1, <3>2
  <2>10. \A i \in 1..at : l.items[i].off <= f.off
    BY <2>8, <2>9, <1>1, <1>2
  <2>11. \A i \in (at + 1)..n : f.off < l.items[i].off
    <3> TAKE i \in (at + 1)..n
    <3>1. at # n /\ at + 1 \in 1..n /\ i \in 1..n /\ at + 1 <= i
      BY <2>8, <1>1
    <3>2. f.off < l.items[at + 1].off
      BY <3>1, <2>6
    <3>3. l.items[at + 1].off <= l.items[i].off
      BY <3>1, <1>2
    <3> HIDE DEF n, Here
    <3> QED
      BY <3>1, <3>2, <3>3, <1>1
  <2> QED
    BY <2>7, <2>8, <2>10, <2>11, <1>1
<1> QED
  BY <1>3, <1>4

(* What Inserted is, and that it keeps the order.                          *)
LEMMA InsertedIs ==
    ASSUME NEW S, NEW items \in Seq(S), NEW at \in 1..(Len(items) + 1), NEW f \in S
    PROVE  /\ Inserted(items, at, f) \in Seq(S)
           /\ Len(Inserted(items, at, f)) = Len(items) + 1
           /\ \A i \in 1..(at - 1) : Inserted(items, at, f)[i] = items[i]
           /\ Inserted(items, at, f)[at] = f
           /\ \A i \in (at + 1)..(Len(items) + 1) : Inserted(items, at, f)[i] = items[i - 1]
<1> DEFINE n == Len(items)
           e(i) == IF i < at THEN items[i] ELSE IF i = at THEN f ELSE items[i - 1]
<1>1. n \in Nat /\ n + 1 \in Nat /\ \A i \in 1..n : items[i] \in S
  OBVIOUS
<1>2. \A i \in 1..(n + 1) : e(i) \in S
  <2> TAKE i \in 1..(n + 1)
  <2>1. CASE i < at
    BY <2>1, <1>1
  <2>2. CASE i = at
    BY <2>2
  <2>3. CASE i > at
    <3>1. i - 1 \in 1..n
      BY <2>3, <1>1
    <3> QED
      BY <2>3, <3>1, <1>1
  <2> QED
    BY <2>1, <2>2, <2>3, <1>1
<1>3. Inserted(items, at, f) = [i \in 1..(n + 1) |-> e(i)]
  BY DEF Inserted
<1> HIDE DEF n
<1>4. [i \in 1..(n + 1) |-> e(i)] \in [1..(n + 1) -> S]
  BY <1>2
<1>5. Inserted(items, at, f) \in Seq(S)
  BY <1>1, <1>3, <1>4, SeqDef
<1>6. Len(Inserted(items, at, f)) = n + 1
  <2>1. DOMAIN Inserted(items, at, f) = 1..(n + 1)
    BY <1>3
  <2>2. DOMAIN Inserted(items, at, f) = 1..Len(Inserted(items, at, f)) /\ Len(Inserted(items, at, f)) \in Nat
    BY <1>5, LenProperties
  <2> QED
    BY <2>1, <2>2, <1>1
<1>7. \A i \in 1..(n + 1) : Inserted(items, at, f)[i] = e(i)
  BY <1>3
<1> QED
  BY <1>1, <1>5, <1>6, <1>7 DEF n
(* From an item on before which every byte is there, update_first_gap goes *)
(* to the last item before a gap, and to what is reached there.            *)
LEMMA FromGap ==
    ASSUME NEW S, \A g \in S : Fragment(g), NEW its \in Seq(S),
           \A i, j \in 1..Len(its) : i <= j => its[i].off <= its[j].off,
           NEW from \in 1..Len(its), NEW c \in Nat,
           \A i \in 1..from : its[i].off <= c /\ End(its[i]) <= c,
           \A p \in 0..(c - 1) : \E i \in 1..Len(its) : Covers(its[i], p)
    PROVE  LET k == LastBeforeGap(its, from, c)
               r == Reach(its, from + 1, k, c)
           IN  /\ k \in 1..Len(its) /\ r \in Nat
               /\ \A i \in 1..k : its[i].off <= r /\ End(its[i]) <= r
               /\ \A i \in (k + 1)..Len(its) : its[i].off > r
               /\ \A p \in 0..(r - 1) : \E i \in 1..k : Covers(its[i], p)
<1> DEFINE k    == LastBeforeGap(its, from, c)
           R(j) == Reach(its, from + 1, j, c)
<1> HIDE DEF k
<1>1. \A i \in 1..Len(its) : its[i].off \in Nat /\ End(its[i]) \in Nat /\ Fragment(its[i])
  <2>1. \A i \in 1..Len(its) : Fragment(its[i])
    OBVIOUS
  <2>2. \A i \in 1..Len(its) : End(its[i]) \in 0..(Modulus - 1)
    BY <2>1, EndType
  <2>3. \A i \in 1..Len(its) : its[i].off \in Nat
    BY <2>1 DEF Fragment
  <2> QED
    BY <2>1, <2>2, <2>3, ModulusAssumption
<1>2. /\ k \in from..Len(its) /\ k \in 1..Len(its)
      /\ k = Len(its) \/ its[k + 1].off > R(k)
      /\ \A j \in from..(k - 1) : its[j + 1].off <= R(j)
  <2>1. /\ k \in from..Len(its)
        /\ k = Len(its) \/ its[k + 1].off > R(k)
        /\ \A j \in from..(k - 1) : its[j + 1].off <= R(j)
    BY LastIs DEF k
  <2>2. k \in 1..Len(its)
    <3>1. from \in 1..Len(its) /\ k \in from..Len(its)
      BY <2>1
    <3> HIDE DEF R
    <3> QED
      BY <3>1
  <2> HIDE DEF R
  <2> QED
    BY <2>1, <2>2
<1>3. ASSUME NEW j \in from..k
      PROVE  /\ R(j) \in Nat /\ c <= R(j)
             /\ \A i \in (from + 1)..j : End(its[i]) <= R(j)
             /\ R(j) = c \/ \E i \in (from + 1)..j : R(j) = End(its[i])
  <2>1. from + 1 \in Nat /\ j \in Nat /\ \A i \in (from + 1)..j : Fragment(its[i])
    BY <1>1, <1>2
  <2> QED
    BY <2>1, ReachIs
<1>4. R(k) \in Nat /\ c <= R(k)
  BY <1>2, <1>3
<1>5. ASSUME NEW j \in from..k PROVE R(j) <= R(k)
  <2>1. CASE R(j) = c
    BY <2>1, <1>4
  <2>2. ASSUME NEW i \in (from + 1)..j, R(j) = End(its[i]) PROVE R(j) <= R(k)
    <3>1. i \in (from + 1)..k /\ k \in from..k
      BY <1>2
    <3>2. End(its[i]) <= R(k)
      BY <3>1, <1>3
    <3> HIDE DEF R
    <3> QED
      BY <2>2, <3>2
  <2> QED
    BY <2>1, <2>2, <1>3
<1>6. ASSUME NEW i \in 1..k PROVE its[i].off <= R(k) /\ End(its[i]) <= R(k)
  <2>1. i \in 1..Len(its)
    BY <1>2
  <2>2. CASE i <= from
    <3>1. its[i].off <= c /\ End(its[i]) <= c
      BY <2>2
    <3> HIDE DEF R
    <3> QED
      BY <3>1, <2>1, <1>1, <1>4
  <2>3. CASE i > from
    <3>1. i - 1 \in from..(k - 1) /\ i - 1 \in from..k /\ (i - 1) + 1 = i /\ i \in (from + 1)..k /\ k \in from..k
      BY <2>3, <1>2
    <3>2. its[i].off <= R(i - 1) /\ R(i - 1) \in Nat /\ R(i - 1) <= R(k)
      BY <3>1, <1>2, <1>3, <1>5
    <3>3. End(its[i]) <= R(k)
      BY <3>1, <1>3
    <3> HIDE DEF R
    <3> QED
      BY <3>2, <3>3, <2>1, <1>1, <1>4
  <2> QED
    BY <2>2, <2>3, <1>2
<1>7. ASSUME NEW i \in (k + 1)..Len(its) PROVE its[i].off > R(k)
  <2>1. k # Len(its) /\ k + 1 \in 1..Len(its) /\ i \in 1..Len(its) /\ k + 1 <= i
    BY <1>2
  <2>2. its[k + 1].off > R(k) /\ its[k + 1].off <= its[i].off
    BY <2>1, <1>2
  <2>3. its[k + 1].off \in Nat /\ its[i].off \in Nat
    BY <2>1, <1>1
  <2> HIDE DEF R
  <2> QED
    BY <2>2, <2>3, <1>4
<1>8. ASSUME NEW p \in 0..(R(k) - 1) PROVE \E i \in 1..k : Covers(its[i], p)
  <2> p \in Nat /\ p < R(k)
    BY <1>4
  <2>1. CASE p < c
    <3>1. PICK i \in 1..Len(its) : Covers(its[i], p)
      BY <2>1
    <3>2. its[i].off <= p /\ its[i].off \in Nat
      BY <3>1, <1>1 DEF Covers
    <3>3. i <= k
      <4> SUFFICES ASSUME i > k PROVE FALSE
        BY <1>2
      <4>1. i \in (k + 1)..Len(its)
        BY <1>2
      <4>2. its[i].off > R(k)
        BY <4>1, <1>7
      <4> HIDE DEF R
      <4> QED
        BY <4>2, <3>2, <1>4
    <3> QED
      BY <3>1, <3>3, <1>2
  <2>2. CASE p >= c
    <3> DEFINE Js == {j \in (from + 1)..k : p < End(its[j])}
    <3>1. Js \in SUBSET Nat
      BY <1>2
    <3>2. Js # {}
      <4>1. k \in from..k
        BY <1>2
      <4>2. R(k) # c
        BY <2>2, <1>4
      <4>3. PICK i \in (from + 1)..k : R(k) = End(its[i])
        BY <4>1, <4>2, <1>3
      <4>4. p < End(its[i])
        BY <4>3
      <4> QED
        BY <4>4
    <3>3. PICK j \in Js : \A i \in Js : j <= i
      BY <3>1, <3>2, LeastOf
    <3>4. /\ j \in (from + 1)..k /\ p < End(its[j])
          /\ j - 1 \in from..(k - 1) /\ j - 1 \in from..k /\ (j - 1) + 1 = j /\ j \in 1..k /\ j \in 1..Len(its)
      BY <3>3, <1>2
    <3>5. its[j].off <= R(j - 1) /\ R(j - 1) \in Nat
      BY <3>4, <1>2, <1>3
    <3>6. R(j - 1) <= p
      <4>1. CASE R(j - 1) = c
        BY <4>1, <2>2
      <4>2. ASSUME NEW i \in (from + 1)..(j - 1), R(j - 1) = End(its[i]) PROVE R(j - 1) <= p
        <5>1. i \in (from + 1)..k /\ i < j /\ i \in 1..Len(its)
          BY <3>4, <1>2, SMTT(30)
        <5>2. i \notin Js
          <6> HIDE DEF R, Js
          <6> QED
            BY <5>1, <3>3, <3>4
        <5>3. ~ (p < End(its[i]))
          BY <5>1, <5>2
        <5>4. End(its[i]) \in Nat
          BY <5>1, <1>1
        <5> HIDE DEF R, Js
        <5> QED
          BY <4>2, <5>3, <5>4
      <4> QED
        BY <4>1, <4>2, <3>4, <1>3
    <3>7. Covers(its[j], p)
      <4> HIDE DEF R
      <4>1. its[j].off \in Nat
        BY <3>4, <1>1
      <4>2. its[j].off <= p
        BY <4>1, <3>5, <3>6
      <4> QED
        BY <4>2, <3>4 DEF Covers
    <3> QED
      BY <3>4, <3>7
  <2> QED
    BY <2>1, <2>2
<1> QED
  BY <1>2, <1>4, <1>6, <1>7, <1>8 DEF k
(* A list of fragments of S: a record with (at least) the three fields.    *)
List(l, S) ==
    /\ l = [x \in DOMAIN l |-> l[x]]
    /\ {"items", "gap", "contig"} \subseteq DOMAIN l
    /\ l.items \in Seq(S)

(* LINK_FRAG (src/epan/reassemble.c): a fragment added to a sorted list    *)
(* with an exact cache leaves a sorted list with an exact cache, of one    *)
(* fragment more - for lists of any length, and offsets that may wrap.     *)
THEOREM LinkFragKeeps ==
    ASSUME NEW S, \A g \in S : Fragment(g), NEW l, List(l, S), Sorted(l), GapExact(l), NEW f \in S
    PROVE  /\ List(LinkFrag(l, f), S)
           /\ Len(LinkFrag(l, f).items) = Len(l.items) + 1
           /\ Sorted(LinkFrag(l, f)) /\ GapExact(LinkFrag(l, f))
<1> DEFINE n   == Len(l.items)
           at  == Place(l, f)
           its == Inserted(l.items, at, f)
           gap == IF l.gap # 0 /\ at <= l.gap THEN l.gap + 1 ELSE l.gap
           m   == [l EXCEPT !.items = its, !.gap = gap]
           L   == LinkFrag(l, f)
<1>1. /\ n \in Nat /\ l.gap \in 0..n /\ l.contig \in Nat /\ Fragment(f)
      /\ \A i \in 1..n : Fragment(l.items[i])
      /\ \A i, j \in 1..n : i <= j => l.items[i].off <= l.items[j].off
  BY DEF List, GapExact, Sorted
<1>2. /\ f.off \in Nat /\ End(f) \in Nat /\ (f.off = 0 => End(f) = f.len)
      /\ \A i \in 1..n : l.items[i].off \in Nat /\ End(l.items[i]) \in Nat
  <2>1. \A g : Fragment(g) => g.off \in Nat
    BY ModulusAssumption DEF Fragment
  <2>2. \A g : Fragment(g) => End(g) \in Nat /\ (g.off = 0 => End(g) = g.len)
    BY EndType, ModulusAssumption
  <2> QED
    BY <1>1, <2>1, <2>2
<1>3. /\ at \in 1..(n + 1)
      /\ \A i \in 1..(at - 1) : l.items[i].off <= f.off
      /\ \A i \in at..n : f.off < l.items[i].off
  <2>1. l.items \in Seq(S)
    BY DEF List
  <2> QED
    BY <2>1, <1>1, PlaceIs
<1>4. /\ its \in Seq(S) /\ Len(its) = n + 1
      /\ \A i \in 1..(at - 1) : its[i] = l.items[i]
      /\ its[at] = f
      /\ \A i \in (at + 1)..(n + 1) : its[i] = l.items[i - 1]
  <2>1. l.items \in Seq(S)
    BY DEF List
  <2> HIDE DEF at
  <2> QED
    BY <2>1, <1>3, InsertedIs, SMTT(30)
<1>5. /\ List(m, S) /\ m.items = its /\ m.gap = gap /\ m.contig = l.contig
  <2> HIDE DEF its, gap
  <2> QED
    BY <1>4 DEF List
<1>6. L = UpdateFirstGap(m, at, FALSE)
  BY DEF LinkFrag
<1> HIDE DEF n, at, its, gap, m, L
<1>7. \A i \in 1..(n + 1) : \/ i < at /\ i \in 1..n /\ its[i] = l.items[i]
                            \/ i = at /\ its[i] = f
                            \/ i > at /\ i - 1 \in at..n /\ i - 1 \in 1..n /\ its[i] = l.items[i - 1]
  BY <1>1, <1>3, <1>4
<1>8. \A i \in 1..(n + 1) : its[i].off \in Nat
  BY <1>2, <1>7
<1>9. \A i, j \in 1..(n + 1) : i <= j => its[i].off <= its[j].off
  <2> SUFFICES ASSUME NEW i \in 1..(n + 1), NEW j \in 1..(n + 1), i < j
               PROVE  its[i].off <= its[j].off
    BY <1>8
  <2>1. CASE i < at /\ j < at
    BY <2>1, <1>1, <1>7
  <2>2. CASE i < at /\ j = at
    BY <2>2, <1>3, <1>4
  <2>3. CASE i < at /\ j > at
    <3>1. its[i].off <= f.off /\ its[i] = l.items[i]
      BY <2>3, <1>3, <1>4
    <3>2. f.off < its[j].off
      BY <2>3, <1>3, <1>7
    <3> QED
      BY <3>1, <3>2, <1>2, <1>8
  <2>4. CASE i = at
    <3>1. f.off < its[j].off /\ its[i] = f
      BY <2>4, <1>3, <1>7
    <3> QED
      BY <3>1, <1>2, <1>8
  <2>5. CASE i > at
    <3>1. i - 1 \in 1..n /\ j - 1 \in 1..n /\ its[i] = l.items[i - 1] /\ its[j] = l.items[j - 1] /\ i - 1 <= j - 1
      BY <2>5, <1>7, <1>3
    <3> QED
      BY <3>1, <1>1
  <2> QED
    BY <2>1, <2>2, <2>3, <2>4, <2>5, <1>3
<1>10. /\ (gap = 0 <=> l.gap = 0)
       /\ gap \in 0..(n + 1)
       /\ l.gap = 0 => l.contig = 0 /\ (at = 1 \/ f.off # 0)
  <2>1. l.gap = 0 => \A i \in 1..n : l.items[i].off # 0
    BY <1>2 DEF GapExact, n
  <2>2. ASSUME l.gap = 0, f.off = 0 PROVE at = 1
    <3> SUFFICES ASSUME at # 1 PROVE FALSE
      OBVIOUS
    <3>1. 1 \in 1..(at - 1) /\ 1 \in 1..n
      BY <1>1, <1>3
    <3> QED
      BY <3>1, <2>1, <2>2, <1>2, <1>3
  <2>3. (gap = 0 <=> l.gap = 0) /\ gap \in 0..(n + 1)
    BY <1>1 DEF gap
  <2>4. l.gap = 0 => l.contig = 0
    BY DEF GapExact
  <2> QED
    BY <2>2, <2>3, <2>4<1>11. CASE f.off > l.contig \/ (l.gap = 0 /\ f.off # 0)
  <2>1. L = m
    BY <1>4, <1>5, <1>6, <1>10, <1>11 DEF UpdateFirstGap
  <2>2. gap = l.gap /\ l.gap < at
    <3>1. CASE l.gap = 0
      BY <3>1, <1>3 DEF gap
    <3>2. CASE l.gap # 0
      <4>1. l.gap \in 1..n /\ l.items[l.gap].off <= l.contig
        BY <3>2, <1>1 DEF GapExact
      <4>2. ~ (f.off < l.items[l.gap].off)
        BY <3>2, <4>1, <1>1, <1>2, <1>11
      <4>3. ~ (at <= l.gap)
        BY <4>1, <4>2, <1>3
      <4> QED
        BY <4>3, <1>1, <1>3 DEF gap
    <3> QED
      BY <3>1, <3>2
  <2>3. f.off > l.contig
    BY <1>1, <1>2, <1>10, <1>11
  <2>4. ASSUME NEW i \in 1..gap PROVE i \in 1..n /\ its[i] = l.items[i]
    BY <2>2, <1>1, <1>3, <1>4
  <2>5. ASSUME NEW i \in (gap + 1)..(n + 1) PROVE its[i].off > l.contig
    <3>1. \A j \in (l.gap + 1)..n : l.items[j].off > l.contig
      BY DEF GapExact, n
    <3>2. CASE i < at
      <4>1. i \in 1..n /\ i \in (l.gap + 1)..n /\ its[i] = l.items[i]
        BY <3>2, <2>2, <1>1, <1>3, <1>7
      <4> QED
        BY <4>1, <3>1
    <3>3. CASE i = at
      BY <3>3, <2>3, <1>4
    <3>4. CASE i > at
      BY <3>1, <3>4, <2>2, <1>1, <1>3, <1>7
    <3> QED
      BY <3>2, <3>3, <3>4, <1>3, <1>1
  <2>6. GapExact(m)
    <3>1. /\ l.gap = 0 => l.contig = 0
          /\ \A i \in 1..l.gap : l.items[i].off <= l.contig /\ End(l.items[i]) <= l.contig
          /\ \A p \in 0..(l.contig - 1) : \E i \in 1..l.gap : Covers(l.items[i], p)
      BY DEF GapExact
    <3>2. gap = 0 => its[1].off # 0
      <4> SUFFICES ASSUME gap = 0 PROVE its[1].off # 0
        OBVIOUS
      <4>1. its[1].off > l.contig /\ 1 \in 1..(n + 1)
        BY <2>5, <1>1
      <4> QED
        BY <4>1, <1>1, <1>8
    <3>3. \A i \in 1..gap : its[i].off <= l.contig /\ End(its[i]) <= l.contig
      BY <2>2, <2>4, <3>1
    <3>4. \A p \in 0..(l.contig - 1) : \E i \in 1..gap : Covers(its[i], p)
      <4> TAKE p \in 0..(l.contig - 1)
      <4>1. PICK i \in 1..gap : Covers(l.items[i], p)
        BY <2>2, <3>1
      <4> QED
        BY <4>1, <2>4
    <3> QED
      BY <1>1, <1>4, <1>5, <1>10, <2>2, <2>5, <3>1, <3>2, <3>3, <3>4 DEF GapExact
  <2> QED
    BY <2>1, <2>6, <1>4, <1>5, <1>9 DEF Sorted, L, n
<1>12. CASE ~ (f.off > l.contig \/ (l.gap = 0 /\ f.off # 0))
  <2> DEFINE c    == Larger(l.contig, End(f))
             from == IF gap = 0 THEN at ELSE gap
             k    == LastBeforeGap(its, from, c)
             r    == Reach(its, from + 1, k, c)
  <2>1. f.off <= l.contig /\ (l.gap = 0 => f.off = 0 /\ at = 1 /\ l.contig = 0 /\ End(f) = f.len)
    BY <1>1, <1>2, <1>10, <1>12
  <2>2. c \in Nat /\ l.contig <= c /\ End(f) <= c /\ (c = l.contig \/ c = End(f))
    BY <1>1, <1>2 DEF Larger
  <2>3. gap = 0 => c = f.len
    BY <2>1, <1>2, <1>10 DEF Larger
  <2>4. L = [m EXCEPT !.gap = k, !.contig = r]
    <3> HIDE DEF c, from, k, r
    <3>1. its[at] = f
      BY <1>4
    <3>2. (IF m.gap = 0 THEN f.len ELSE Larger(m.contig, End(f))) = c
      BY <2>3, <1>5 DEF c
    <3>3. (IF m.gap = 0 \/ FALSE THEN at ELSE m.gap) = from
      BY <1>5 DEF from
    <3>4. ~ (m.items[at].off > m.contig \/ (m.gap = 0 /\ m.items[at].off # 0))
      BY <3>1, <1>5, <1>10, <1>12
    <3> QED
      BY <3>1, <3>2, <3>3, <3>4, <1>5, <1>6 DEF UpdateFirstGap, k, r
  <2> HIDE DEF c
  <2>5. from \in 1..(n + 1)
    BY <1>1, <1>3, <1>10
  <2>6. ASSUME NEW i \in 1..from PROVE its[i].off <= c /\ End(its[i]) <= c
    <3>1. \A j \in 1..l.gap : l.items[j].off <= l.contig /\ End(l.items[j]) <= l.contig
      BY DEF GapExact
    <3>2. CASE gap = 0
      <4>1. its[i] = f
        BY <3>2, <2>1, <1>4, <1>10
      <4> QED
        BY <4>1, <2>1, <2>2, <1>1, <1>2
    <3>3. CASE gap # 0
      <4>1. i \in 1..gap /\ i \in 1..(n + 1)
        <5>1. from = gap /\ gap \in Nat /\ gap <= n + 1
          BY <3>3, <1>1, <1>10
        <5> HIDE DEF from
        <5> QED
          BY <5>1, <1>1
      <4>2. CASE i < at
        <5>1. i \in 1..l.gap /\ i \in 1..n /\ its[i] = l.items[i]
          BY <4>1, <4>2, <1>1, <1>3, <1>7 DEF gap
        <5> QED
          BY <5>1, <3>1, <2>2, <1>1, <1>2
      <4>3. CASE i = at
        BY <4>3, <2>1, <2>2, <1>1, <1>2, <1>4
      <4>4. CASE i > at
        <5>1. i - 1 \in 1..l.gap /\ i - 1 \in 1..n /\ its[i] = l.items[i - 1]
          BY <4>1, <4>4, <1>1, <1>3, <1>7 DEF gap
        <5> QED
          BY <5>1, <3>1, <2>2, <1>1, <1>2
      <4> QED
        BY <4>1, <4>2, <4>3, <4>4, <1>3
    <3> QED
      BY <3>2, <3>3
  <2>7. ASSUME NEW p \in 0..(c - 1) PROVE \E i \in 1..(n + 1) : Covers(its[i], p)
    <3>1. CASE p < l.contig
      <4>1. p \in 0..(l.contig - 1)
        BY <3>1, <1>1, <2>2
      <4>2. PICK i \in 1..l.gap : Covers(l.items[i], p)
        BY <4>1 DEF GapExact
      <4>3. i \in 1..n
        BY <1>1
      <4>4. CASE i < at
        <5>1. i \in 1..(n + 1) /\ its[i] = l.items[i]
          BY <4>3, <4>4, <1>1, <1>3, <1>4
        <5> QED
          BY <5>1, <4>2
      <4>5. CASE i >= at
        <5>1. i + 1 \in 1..(n + 1) /\ i + 1 \in (at + 1)..(n + 1) /\ (i + 1) - 1 = i
          BY <4>3, <4>5, <1>1, <1>3
        <5>2. its[i + 1] = l.items[i]
          BY <5>1, <1>4
        <5> QED
          BY <5>1, <5>2, <4>2
      <4> QED
        BY <4>3, <4>4, <4>5, <1>3
    <3>2. CASE p >= l.contig
      <4>1. Covers(f, p)
        BY <3>2, <2>1, <2>2, <1>1, <1>2 DEF Covers
      <4> QED
        BY <4>1, <1>3, <1>4
    <3> QED
      BY <3>1, <3>2, <1>1, <2>2
  <2>8. /\ k \in 1..(n + 1) /\ r \in Nat
        /\ \A i \in 1..k : its[i].off <= r /\ End(its[i]) <= r
        /\ \A i \in (k + 1)..(n + 1) : its[i].off > r
        /\ \A p \in 0..(r - 1) : \E i \in 1..k : Covers(its[i], p)
    <3> HIDE DEF from
    <3>1. from \in 1..Len(its)
      BY <2>5, <1>4
    <3>2. \A i, j \in 1..Len(its) : i <= j => its[i].off <= its[j].off
      BY <1>4, <1>9
    <3>3. \A p \in 0..(c - 1) : \E i \in 1..Len(its) : Covers(its[i], p)
      BY <2>7, <1>4
    <3> QED
      BY <3>1, <3>2, <3>3, <1>4, <2>2, <2>6, FromGap
  <2> HIDE DEF k, r, from
  <2>9. List(L, S) /\ L.items = its /\ L.gap = k /\ L.contig = r
    BY <2>4, <1>5 DEF List
  <2>10. GapExact(L)
    BY <2>8, <2>9, <1>1, <1>4 DEF GapExact
  <2> QED
    BY <2>9, <2>10, <1>4, <1>9 DEF Sorted, L, n
<1> QED
  BY <1>11, <1>12
(* fragment_reset_first_gap (src/epan/reassemble.c): the cache of a sorted *)
(* list is computed again from nothing, whatever was removed from the      *)
(* list and whatever the cache held.                                       *)
THEOREM ResetFirstGapExact ==
    ASSUME NEW S, \A g \in S : Fragment(g), NEW l, List(l, S), Sorted(l)
    PROVE  /\ List(ResetFirstGap(l), S) /\ ResetFirstGap(l).items = l.items
           /\ Sorted(ResetFirstGap(l)) /\ GapExact(ResetFirstGap(l))
<1> DEFINE its == l.items
           r   == [l EXCEPT !.gap = 0, !.contig = 0]
           L   == ResetFirstGap(l)
<1>1. List(r, S) /\ r.items = its /\ r.gap = 0 /\ r.contig = 0
  BY DEF List
<1>2. its \in Seq(S) /\ \A i, j \in 1..Len(its) : i <= j => its[i].off <= its[j].off
  BY DEF List, Sorted
<1>3. L = IF its = <<>> THEN r ELSE UpdateFirstGap(r, 1, Len(its) > 1)
  BY DEF ResetFirstGap
<1> HIDE DEF r, its, L
<1>4. \A i \in 1..Len(its) : Fragment(its[i]) /\ its[i].off \in Nat
  <2>1. \A i \in 1..Len(its) : Fragment(its[i])
    BY <1>2
  <2>2. \A i \in 1..Len(its) : its[i].off \in Nat
    BY <2>1 DEF Fragment
  <2> QED
    BY <2>1, <2>2, ModulusAssumption
<1>5. CASE its = <<>>
  <2>1. L = r /\ Len(its) = 0
    BY <1>3, <1>5
  <2> QED
    BY <2>1, <1>1, <1>2 DEF GapExact, Sorted, L, its
<1>6. CASE its # <<>> /\ its[1].off # 0
  <2>1. Len(its) \in Nat \ {0} /\ 1 \in 1..Len(its)
    BY <1>2, <1>6, EmptySeq
  <2>2. L = r
    BY <1>1, <1>3, <1>6 DEF UpdateFirstGap
  <2>3. \A i \in 1..Len(its) : its[i].off > 0
    BY <2>1, <1>2, <1>4, <1>6
  <2> QED
    BY <2>1, <2>2, <2>3, <1>1, <1>2, <1>6 DEF GapExact, Sorted, L, its
<1>7. CASE its # <<>> /\ its[1].off = 0
  <2> DEFINE c == its[1].len
             k == LastBeforeGap(its, 1, c)
             w == Reach(its, 2, k, c)
  <2>1. Len(its) \in Nat \ {0} /\ 1 \in 1..Len(its)
    BY <1>2, <1>7, EmptySeq
  <2>2. L = [r EXCEPT !.gap = k, !.contig = w]
    BY <1>1, <1>3, <1>4, <1>7, <2>1 DEF UpdateFirstGap
  <2>3. End(its[1]) = c /\ c \in Nat
    BY <2>1, <1>4, <1>7, EndType, ModulusAssumption
  <2>4. \A i \in 1..1 : its[i].off <= c /\ End(its[i]) <= c
    BY <2>3, <1>7
  <2>5. \A p \in 0..(c - 1) : \E i \in 1..Len(its) : Covers(its[i], p)
    BY <2>1, <2>3, <1>7 DEF Covers
  <2> HIDE DEF c
  <2>6. /\ k \in 1..Len(its) /\ w \in Nat
        /\ \A i \in 1..k : its[i].off <= w /\ End(its[i]) <= w
        /\ \A i \in (k + 1)..Len(its) : its[i].off > w
        /\ \A p \in 0..(w - 1) : \E i \in 1..k : Covers(its[i], p)
    <3>1. 1 + 1 = 2
      OBVIOUS
    <3> QED
      BY <2>1, <2>3, <2>4, <2>5, <3>1, <1>2, FromGap
  <2> HIDE DEF k, w
  <2>7. List(L, S) /\ L.items = its /\ L.gap = k /\ L.contig = w
    BY <2>2, <1>1 DEF List
  <2> QED
    BY <2>1, <2>6, <2>7, <1>2 DEF GapExact, Sorted, L, its
<1> QED
  BY <1>5, <1>6, <1>7
===============================================================================
