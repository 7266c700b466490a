----------------------------- MODULE FragmentList -----------------------------
(***************************************************************************)
(* The list of fragments of a reassembly (LINK_FRAG and update_first_gap,  *)
(* src/epan/reassemble.c): sorted by offset, with a cache of the last      *)
(* fragment before the first gap and of the length up to there, from which *)
(* insertion starts and by which completeness is decided.                  *)
(*                                                                         *)
(* A list is a record with (at least) items, gap - an index, 0 for NULL -  *)
(* and contig (contiguous_len); a fragment is one with off and len.        *)
(***************************************************************************)
EXTENDS Naturals, Sequences

CONSTANT Modulus    \* of the offsets: they are unsigned and may wrap

ASSUME ModulusAssumption == Modulus \in Nat \ {0}

Plus(a, b) == (a + b) % Modulus
End(f)     == Plus(f.off, f.len)
Larger(a, b) == IF a > b THEN a ELSE b

\* The largest of c and the ends of items i to j.
Reach(items, i, j, c) ==
    LET ends == {c} \cup {End(items[k]) : k \in i..j}
    IN  CHOOSE m \in ends : \A x \in ends : x <= m

\* The loop of update_first_gap: from an item on to the last that starts
\* no later than what is reached.
LastBeforeGap(items, from, c) ==
    CHOOSE k \in from..Len(items) :
        /\ k = Len(items) \/ items[k + 1].off > Reach(items, from + 1, k, c)
        /\ \A j \in from..(k - 1) : items[j + 1].off <= Reach(items, from + 1, j, c)

\* [mutant: what was reached before is forgotten]
UpdateFirstGapForgets(l, at, multi) ==
    IF l.items[at].off > l.contig \/ (l.gap = 0 /\ l.items[at].off # 0) THEN l
    ELSE LET from == IF l.gap = 0 \/ multi THEN at ELSE l.gap
             k    == LastBeforeGap(l.items, from, End(l.items[at]))
         IN  [l EXCEPT !.gap = k, !.contig = Reach(l.items, from + 1, k, End(l.items[at]))]

\* update_first_gap, for the item at an index that was inserted
UpdateFirstGap(l, at, multi) ==
    LET f    == l.items[at]
        c    == IF l.gap = 0 THEN f.len ELSE Larger(l.contig, End(f))
        from == IF l.gap = 0 \/ multi THEN at ELSE l.gap
        k    == LastBeforeGap(l.items, from, c)
    IN  IF f.off > l.contig \/ (l.gap = 0 /\ f.off # 0) THEN l
        ELSE [l EXCEPT !.gap = k, !.contig = Reach(l.items, from + 1, k, c)]

\* Where LINK_FRAG puts a fragment: after those that start no later, looked
\* for from the first gap on if it starts no earlier than that.
Place(l, f) ==
    LET n     == Len(l.items)
        start == IF l.gap # 0 /\ f.off >= l.items[l.gap].off THEN l.gap ELSE 1
    IN  IF n = 0 \/ f.off < l.items[1].off THEN 1
        ELSE 1 + CHOOSE i \in start..n :
                    /\ i = n \/ f.off < l.items[i + 1].off
                    /\ \A j \in start..(i - 1) : f.off >= l.items[j + 1].off

Inserted(items, at, f) ==
    [i \in 1..(Len(items) + 1) |-> IF i < at THEN items[i] ELSE IF i = at THEN f ELSE items[i - 1]]

\* LINK_FRAG; the pointer to the first gap stays on its item.
LinkFrag(l, f) ==
    LET at == Place(l, f) IN
    UpdateFirstGap([l EXCEPT !.items = Inserted(@, at, f),
                             !.gap = IF @ # 0 /\ at <= @ THEN @ + 1 ELSE @], at, FALSE)

\* fragment_reset_first_gap
ResetFirstGap(l) ==
    LET r == [l EXCEPT !.gap = 0, !.contig = 0]
    IN  IF l.items = <<>> THEN r ELSE UpdateFirstGap(r, 1, Len(l.items) > 1)

\* fragment_items_removed: those after an index (0: all) were
ItemsRemoved(l, modified) ==
    IF l.gap = modified \/ (modified # 0 /\ l.items[modified].off > l.contig) THEN l ELSE ResetFirstGap(l)

(* What the cache stands for.                                              *)
Covers(f, p) == f.off <= p /\ p < End(f)
Sorted(l)    == \A i, j \in DOMAIN l.items : i <= j => l.items[i].off <= l.items[j].off

\* The fragments up to the gap hold every byte before contig, and those
\* after it start later.
GapExact(l) ==
    /\ l.gap \in 0..Len(l.items) /\ l.contig \in Nat
    /\ l.gap = 0 => l.contig = 0 /\ (l.items # <<>> => l.items[1].off # 0)
    /\ \A i \in 1..l.gap : l.items[i].off <= l.contig /\ End(l.items[i]) <= l.contig
    /\ \A i \in (l.gap + 1)..Len(l.items) : l.items[i].off > l.contig
    /\ \A p \in 0..(l.contig - 1) : \E i \in 1..l.gap : Covers(l.items[i], p)
===============================================================================
