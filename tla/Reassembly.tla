------------------------------ MODULE Reassembly ------------------------------
(***************************************************************************)
(* The reassembly tables of the dissection engine (src/epan/reassemble.c): *)
(* fragments of the packets of one conversation and identifier are added   *)
(* as the packets are dissected for the first time, in any order, more     *)
(* than once, overlapping and contradicting each other; packets that have  *)
(* been dissected are looked up again at any moment.                       *)
(*                                                                         *)
(* A byte is what it is in the datagram it belongs to: the offset of the   *)
(* fragment (by block number) or of the byte, and the version of the       *)
(* datagram.  Not here: keys (different ones never meet), the aging        *)
(* single-sequence functions, streaming reassembly and show_fragment_tree. *)
(***************************************************************************)
EXTENDS FragmentList, FiniteSets, SequencesExt

CONSTANTS
    Setups,     \* the callers to look at
    Versions    \* of the datagrams

(* A caller: which functions it adds with, the fragments it adds and how   *)
(* many; whether the captured data may be short, a frame may hold several  *)
(* fragments, whole datagrams of one length are sent (0: anything is); the *)
(* other functions it calls, with which lengths.                           *)
Apis == {"add", "multiple", "ooo", "check", "fallback", "seq", "seqcheck", "seqnext", "802.11"}
Ops  == {"partial", "setlen", "resetlen", "truncate", "delete", "end"}
BySeq  == {"seq", "seqcheck", "seqnext", "802.11"}
Checks == {"check", "fallback", "seqcheck", "seqnext", "802.11"}

ASSUME SetupAssumption ==
    \A s \in Setups :
        /\ s.api \in Apis /\ s.ops \subseteq Ops /\ s.size \in Nat /\ s.calls \in Nat
        /\ s.frags \subseteq [off : 0..(Modulus - 1), len : 0..(Modulus - 1), tail : BOOLEAN]
        /\ s.lens \subseteq Nat /\ {s.short, s.crowded} \subseteq BOOLEAN /\ s.versions \subseteq Versions
        \* reassemble.h:421-422, 448-454, 461-468; reassemble_test.c:2476-2479; packet-usbll.c:1753
        /\ "end" \in s.ops => s.api \in BySeq \cap Checks
        /\ "partial" \in s.ops => s.api \notin Checks
        /\ {"resetlen", "truncate"} \cap s.ops # {} => s.api \notin BySeq
        /\ s.api = "fallback" => ~s.crowded

VARIABLES
    setup,
    heads,      \* every fragment_head there has been
    table,      \* fragment_table: the head in progress, or 0
    done,       \* reassembled_table: of each frame the head, or 0
    num,        \* pinfo->num
    calls,      \* the fragments added, with what came of it
    given       \* of each head: the bytes last handed to the dissector, and not cut off since

vars == <<setup, heads, table, done, num, calls, given>>

NoData   == << <<>> >>      \* a tvb_data that is NULL
ItemFlags == {"overlap", "conflict", "tails", "toolong"}

NewHead(seq) ==
    [items |-> <<>>, gap |-> 0, contig |-> 0, frame |-> 0, datalen |-> 0, set |-> FALSE, defrag |-> FALSE,
     partial |-> FALSE, data |-> NoData, reasIn |-> 0, flags |-> {}, error |-> FALSE, seq |-> seq, len |-> 0,
     ref |-> 0, freed |-> FALSE, torn |-> FALSE]

Seq_ == setup.api \in BySeq
Frames == 0..(2 * setup.calls + 1)

\* The bytes of a fragment.
Bytes(c, off) == [k \in 1..c.len |-> IF Seq_ THEN <<off, k, c.v>> ELSE <<off + k - 1, 0, c.v>>]

\* tvb_new_subset_remaining, of an offset within the data
Remaining(data, off) == SubSeq(data, off + 1, Len(data))

Flag(x, fs) == [x EXCEPT !.flags = @ \cup fs]
Unflag(x)   == [x EXCEPT !.flags = @ \ {"toolong", "tails"}]
Tear(h)     == [h EXCEPT !.torn = TRUE]

\* What a step of the work returns: the head, whether the reassembly is
\* complete, and whether an exception is thrown.
Going(h)  == [h |-> h, done |-> FALSE, thrown |-> FALSE]
Whole(h)  == [h |-> h, done |-> TRUE, thrown |-> FALSE]
Throw(h)  == [h |-> h, done |-> FALSE, thrown |-> TRUE]

--------------------------------------------------------------------------------
(* Byte offsets.                                                            *)

Undone(h) ==
    [Unflag(h) EXCEPT !.defrag = FALSE, !.partial = FALSE, !.set = FALSE, !.datalen = 0, !.reasIn = 0]

\* [mutant: the data from the front for every fragment]
ResetDefragmentationFront(h) ==
    Undone([h EXCEPT !.items = [i \in DOMAIN h.items |-> Unflag([h.items[i] EXCEPT !.data = IF @ = NoData THEN h.data ELSE @])]])

\* fragment_reset_defragmentation: the fragments get their data back from
\* what was reassembled; for one that starts after it an exception leaves
\* the head half done.
ResetDefragmentation(h) ==
    IF \E i \in DOMAIN h.items : h.items[i].data = NoData /\ h.items[i].off > Len(h.data) THEN Tear(h)
    ELSE Undone([h EXCEPT !.items =
             [i \in DOMAIN h.items |-> Unflag([h.items[i] EXCEPT !.data = IF @ = NoData THEN Remaining(h.data, h.items[i].off)
                                                                            ELSE @])]])

Wraps(f) == End(f) < f.off

(* The loop over the fragments that puts them together.  Each adds what the *)
(* ones before did not reach, so a byte is that of the first that has it.   *)
Lost(f) == Wraps(f) \/ f.data = NoData

Fits(h, f) == IF End(f) > h.datalen THEN h.datalen - f.off ELSE f.len

Used(h) == {i \in DOMAIN h.items : LET f == h.items[i] IN f.len > 0 /\ f.off < h.datalen /\ ~Lost(f)}

\* dfpos, at an item
Filled(h, i) == Max({0} \cup {h.items[k].off + Fits(h, h.items[k]) : k \in Used(h) \cap 1..(i - 1)})

Assembled(h) ==
    [p \in 1..h.datalen |->
        LET having == {i \in Used(h) : h.items[i].off < p /\ p <= h.items[i].off + Fits(h, h.items[i])}
            f      == h.items[Min(having)]
        IN  IF having = {} THEN <<>> ELSE f.data[p - f.off]]

Overlap(h, i)  == Filled(h, i) - h.items[i].off
Compared(h, i) == IF h.items[i].len < Overlap(h, i) THEN h.items[i].len ELSE Overlap(h, i)

\* It has less data than are compared or taken.
ReadsPast(h, i) ==
    LET f == h.items[i] IN
    \/ Len(f.data) < Compared(h, i)
    \/ Fits(h, f) > Overlap(h, i) /\ Len(f.data) < Fits(h, f)

Marks(h, data, i) ==
    LET f == h.items[i] IN
    IF i \notin Used(h) THEN IF f.len > 0 /\ f.off >= h.datalen THEN {"toolong"} ELSE {}
    ELSE (IF Fits(h, f) < f.len THEN {"toolong"} ELSE {}) \cup (IF Overlap(h, i) > 0 THEN {"overlap"} ELSE {})
            \cup (IF /\ Overlap(h, i) > 0
                      /\ SubSeq(data, f.off + 1, f.off + Compared(h, i)) # SubSeq(f.data, 1, Compared(h, i))
                   THEN {"conflict"} ELSE {})

Spent(f) == IF f.len > 0 THEN [f EXCEPT !.data = NoData] ELSE f

Assemble(h, in) ==
    LET n    == DOMAIN h.items
        data == Assembled(h)
        bad  == \E i \in n : h.items[i].len > 0 /\ h.items[i].off < h.datalen /\ Lost(h.items[i])
        r    == [Flag(h, UNION {Marks(h, data, i) : i \in n}) EXCEPT
                   !.items = [i \in n |-> Flag(Spent(h.items[i]), Marks(h, data, i))],
                   !.data = data, !.error = @ \/ bad, !.defrag = TRUE, !.reasIn = in]
    IN  IF \E i \in Used(h) : ReadsPast(h, i) THEN Throw(Tear(h)) ELSE IF r.error THEN Throw(r) ELSE Whole(r)

\* The length is known from the first tail.
WithTail(h, c, f, end) ==
    IF ~c.tail THEN [h |-> h, f |-> f]
    ELSE IF ~h.set THEN [h |-> [h EXCEPT !.set = TRUE, !.datalen = end], f |-> f]
    ELSE IF h.datalen # end THEN [h |-> Flag(h, {"tails"}), f |-> Flag(f, {"tails"})]
    ELSE [h |-> h, f |-> f]

Beyond(h, c) == Plus(c.off, c.len) > h.datalen

\* fd_head->frame: the last of the frames added
NotedLatest(h, frame) == [h EXCEPT !.frame = frame]    \* [mutant: the latest to be added]

Noted(h, frame) == [h EXCEPT !.frame = Larger(@, frame)]

\* [mutant: not compared]
AddOverlapUnchecked(h, f, bytes) == Whole(LinkFrag(Flag(h, {"overlap"}), Flag(f, {"overlap"})))

\* A fragment of a completed reassembly is compared and listed.
AddOverlap(h, f, bytes) ==
    LET flags == {"overlap"} \cup
                 (IF End(f) > h.datalen \/ Wraps(f) THEN {"toolong"}
                  ELSE IF SubSeq(h.data, f.off + 1, f.off + f.len) # bytes THEN {"conflict"} ELSE {})
    IN  Whole(LinkFrag(Flag(h, flags), Flag(f, flags)))

\* [mutant: complete one byte too early]
AddToListEarly(h, f, bytes, in) ==
    LET l == LinkFrag(h, [f EXCEPT !.data = bytes])
    IN  IF l.set /\ l.contig + 1 >= l.datalen THEN Assemble(l, in) ELSE Going(l)

AddToList(h, f, bytes, in) ==
    LET l == LinkFrag(h, [f EXCEPT !.data = bytes])
    IN  IF l.set /\ l.contig >= l.datalen THEN Assemble(l, in) ELSE Going(l)

\* fragment_add_work
AddWork(h, c, allow) ==
    LET beyond == h.defrag /\ Beyond(h, c)
        r == IF beyond /\ h.partial THEN ResetDefragmentation(h) ELSE h
        f == [frame |-> c.from, off |-> c.off, len |-> c.len, data |-> NoData, flags |-> {}]
        t == WithTail(Noted(r, c.from), c, f, End(f))
    IN  IF beyond /\ ~h.partial /\ ~allow THEN Throw(h)
        ELSE IF r.torn THEN Throw(r)
        ELSE IF t.h.defrag THEN AddOverlap(t.h, t.f, Bytes(c, c.off))
        ELSE AddToList(t.h, t.f, Bytes(c, c.off), c.num)

--------------------------------------------------------------------------------
(* Block numbers.                                                           *)

\* How many bytes those of the first items have that are in S.
Upto(items, S) ==
    LET upto[n \in 0..Len(items)] ==
            IF n = 0 THEN 0 ELSE upto[n - 1] + (IF n \in S THEN items[n].len ELSE 0)
    IN  upto

\* The fragments get their data back; a duplicate that of the one before.
\* What follows the reassembled data has no bytes, which tears the head.
SeqUndo(h) ==
    LET without == {i \in DOMAIN h.items : h.items[i].data = NoData}
        own     == {i \in without : "overlap" \notin h.items[i].flags}
        at(i)   == IF own \cap 1..i = {} THEN 0 ELSE Upto(h.items, own)[Max(own \cap 1..i) - 1]
    IN  Undone([h EXCEPT !.items =
             [i \in DOMAIN h.items |-> Unflag([h.items[i] EXCEPT !.data = IF @ = NoData THEN Remaining(h.data, at(i)) ELSE @])]])

\* fragment_defragment_and_free: the first of each block number is taken.
RepeatsNever(items, i) == FALSE     \* [mutant: every one is]

Repeats(items, i) == i > 1 /\ items[i - 1].off = items[i].off
Differs(items, i) ==
    Repeats(items, i) /\ items[i].len > 0
      /\ (items[i - 1].len # items[i].len
            \/ SubSeq(items[i - 1].data, 1, items[i].len) # SubSeq(items[i].data, 1, items[i].len))

SeqAssemble(h, in) ==
    LET n      == DOMAIN h.items
        marks(i) == (IF Repeats(h.items, i) /\ h.items[i].len > 0 THEN {"overlap"} ELSE {})
                       \cup (IF Differs(h.items, i) THEN {"conflict"} ELSE {})
        firsts == {i \in n : ~Repeats(h.items, i)}
        ends   == Upto(h.items, firsts)
        bytes  == [p \in 1..ends[Len(h.items)] |-> LET i == Min({k \in n : p <= ends[k]})
                                                  IN  h.items[i].data[p - ends[i - 1]]]
        compared == {i \in n : Repeats(h.items, i) /\ h.items[i].len = h.items[i - 1].len}
        read   == firsts \cup compared \cup {i - 1 : i \in compared}
    IN  IF \E i \in read : h.items[i].len > Len(h.items[i].data) THEN Throw(Tear(h))
        ELSE Whole([Flag(h, UNION {marks(i) : i \in n}) EXCEPT
                      !.items = [i \in n |-> Flag([h.items[i] EXCEPT !.data = NoData], marks(i))],
                      !.data = bytes, !.len = Len(bytes), !.defrag = TRUE, !.reasIn = in])

\* [mutant: how many there are]
FirstMissingCounted(items) == Len(items)

Blocks(items) == {items[i].off : i \in DOMAIN items}
\* The block after those that are there from 0 on.
FirstMissing(items) == CHOOSE n \in 0..Len(items) : n \notin Blocks(items) /\ \A k \in 0..(n - 1) : k \in Blocks(items)

SeqOverlap(h, f, bytes) ==
    LET same == {i \in DOMAIN h.items : h.items[i].off = f.off}
        first == CHOOSE i \in same : \A j \in same : i <= j
        pos   == Upto(h.items, {i \in DOMAIN h.items : ~Repeats(h.items, i)})[first - 1]
        again == f.off <= h.datalen /\ same # {}
        alike == again /\ h.items[first].len = f.len
        flags == {"overlap"} \cup (IF f.off > h.datalen THEN {"toolong"} ELSE {})
        clash == IF again /\ (~alike \/ SubSeq(h.data, pos + 1, pos + f.len) # bytes) THEN {"conflict"} ELSE {}
    IN  IF alike /\ (pos + f.len > h.len \/ Len(bytes) < f.len) THEN Throw(Flag(h, flags))
        ELSE Whole(LinkFrag(Flag(h, flags \cup clash), Flag(f, flags \cup clash)))

\* fragment_add_seq_work
SeqWork(h, c, number) ==
    LET r == IF h.defrag /\ number >= h.datalen /\ h.partial THEN SeqUndo(h) ELSE h
        f == [frame |-> c.num, off |-> number, len |-> c.len, data |-> NoData, flags |-> {}]
        t == WithTail(Noted(r, c.num), c, f, number)
        g == [t.f EXCEPT !.data = IF c.len = 0 THEN NoData ELSE Bytes(c, number)]
        n == FirstMissing(LinkFrag(t.h, g).items)
        long == IF n > t.h.datalen + 1 THEN {"toolong"} ELSE {}
    IN  IF t.h.defrag THEN SeqOverlap(t.h, t.f, IF c.short THEN <<>> ELSE Bytes(c, number))
        ELSE IF c.len > 0 /\ c.short THEN Going(t.h)
        ELSE IF ~t.h.set \/ n <= t.h.datalen THEN Going(LinkFrag(t.h, g))
        ELSE SeqAssemble(LinkFrag(Flag(t.h, long), Flag(g, long)), c.num)

--------------------------------------------------------------------------------
(* The functions of the interface, in the first pass.  A call that throws  *)
(* leaves what it has changed.                                              *)

Init ==
    /\ setup \in Setups
    /\ heads = <<>> /\ table = 0 /\ done = [f \in Frames |-> 0]
    /\ num = 1 /\ calls = <<>> /\ given = <<>>

Created == Append(heads, NewHead(Seq_))

\* [mutant: what an entry led to before is not told]
InsertOver(hs, frames, id) == [hs EXCEPT ![id].ref = @ + Cardinality({f \in frames : done[f] # id})]

\* fragment_reassembled and reassembled_table_insert: every frame a fragment
\* came from leads to the head; heads that nothing leads to are freed.
Insert(hs, frames, id) ==
    LET lost(i) == Cardinality({f \in frames : done[f] = i})
        ref(i)  == IF i = id THEN hs[i].ref + Cardinality({f \in frames : done[f] # id}) ELSE hs[i].ref - lost(i)
    IN  [i \in DOMAIN hs |-> [hs[i] EXCEPT !.ref = ref(i), !.freed = @ \/ (i # id /\ lost(i) > 0 /\ ref(i) = 0)]]

FramesOf(h) == IF h.items = <<>> THEN {num} ELSE {h.items[i].frame : i \in DOMAIN h.items}

\* [mutant: only the frame that completes it leads to the head]
ReassembledHere(hs, id) ==
    /\ heads' = Insert([hs EXCEPT ![id].ref = 0], {num}, id)
    /\ done' = [done EXCEPT ![num] = id]

Reassembled(hs, id) ==
    LET frames == FramesOf(hs[id]) IN
    /\ heads' = Insert([hs EXCEPT ![id].ref = 0], frames, id)
    /\ done' = [f \in Frames |-> IF f \in frames THEN id ELSE done[f]]

\* What is kept of a call: the head, whether it has got the fragment, was
\* returned or an exception thrown, whether something was past its end.
Log(c, id, r) ==
    /\ calls' = LET before == IF id \in DOMAIN heads THEN Len(heads[id].items) ELSE 0 IN
                Append(calls, [c EXCEPT !.id = id, !.added = Len(r.h.items) > before, !.thrown = r.thrown,
                                        !.returned = r.done, !.toolong = "toolong" \in r.h.flags])
    /\ given' = [i \in DOMAIN heads' |-> IF i = id /\ r.done THEN r.h.data
                                        ELSE IF i \in DOMAIN given THEN given[i] ELSE NoData]

Put(hs, id, r, c) == heads' = [hs EXCEPT ![id] = r.h] /\ Log(c, id, r)

AlreadyAdded(h, c) ==
    c.from <= h.frame /\ \E i \in DOMAIN h.items : h.items[i].frame = c.from /\ h.items[i].off = c.off

\* fragment_add_common
Add(c, check) ==
    LET id == IF table = 0 THEN Len(heads) + 1 ELSE table
        hs == IF table = 0 THEN Created ELSE heads
        h  == hs[id]
        r  == IF check /\ table # 0 /\ AlreadyAdded(h, c) THEN [Going(h) EXCEPT !.thrown = h.defrag]
              ELSE AddWork(h, c, FALSE)
    IN  Put(hs, id, r, c) /\ table' = id /\ UNCHANGED done

\* fragment_add_check_with_fallback
AddCheck(c, fallback) ==
    LET late == table = 0 /\ fallback # num /\ done[fallback] # 0
        id   == IF table # 0 THEN table ELSE IF late THEN done[fallback] ELSE Len(heads) + 1
        hs   == IF table # 0 THEN heads ELSE IF late THEN Insert(heads, {num}, id) ELSE Created
        r    == IF c.short THEN Going(hs[id]) ELSE AddWork(hs[id], c, late)
        new  == [hs EXCEPT ![id] = r.h]
    IN  /\ IF late THEN heads' = new /\ done' = [done EXCEPT ![num] = id] /\ UNCHANGED table
           ELSE IF r.done THEN Reassembled(new, id) /\ table' = 0
           ELSE heads' = new /\ table' = id /\ UNCHANGED done
        /\ Log(c, id, r)

\* fragment_add_seq_common: the number of the fragment; a last fragment
\* alone that needs no others is not put into the table.
Single(c) == table = 0 /\ setup.api \in {"seqnext", "802.11"} /\ c.tail

Number(c) ==
    IF setup.api # "seqnext" THEN c.off
    ELSE IF table = 0 \/ heads[table].items = <<>> THEN 0
    ELSE Last(heads[table].items).off + 1

AddSeq(c) ==
    LET id == IF table = 0 THEN Len(heads) + 1 ELSE table
        hs == IF table = 0 THEN Created ELSE heads
    IN  Put(hs, id, SeqWork(hs[id], c, Number(c)), [c EXCEPT !.off = Number(c)]) /\ table' = id /\ UNCHANGED done

\* fragment_add_seq_check_work
AddSeqCheck(c) ==
    LET id == IF table = 0 THEN Len(heads) + 1 ELSE table
        hs == IF table = 0 THEN Created ELSE heads
        r  == IF Single(c) THEN Whole([hs[id] EXCEPT !.len = c.len, !.defrag = TRUE, !.reasIn = num])
              ELSE SeqWork(hs[id], c, Number(c))
        new == [hs EXCEPT ![id] = r.h]
    IN  /\ IF r.done THEN Reassembled(new, id) /\ table' = 0
           ELSE heads' = new /\ table' = id /\ UNCHANGED done
        /\ Log([c EXCEPT !.off = IF Single(c) THEN 0 ELSE Number(c)], id, r)

Calm == \A i \in DOMAIN heads : ~heads[i].torn

Call(fr, v, from, short) ==
    [num |-> num, from |-> from, off |-> fr.off, len |-> fr.len, tail |-> fr.tail, v |-> v, short |-> short,
     kept |-> fr.len, id |-> 0, added |-> FALSE, thrown |-> FALSE, returned |-> FALSE, toolong |-> FALSE]

AddFragment ==
    /\ Calm /\ Len(calls) < setup.calls
    /\ \E fr \in setup.frags, v \in setup.versions, short \in {FALSE, setup.short} :
        \/ setup.api \in {"add", "multiple"} /\ Add(Call(fr, v, num, FALSE), setup.api = "add")
        \/ setup.api = "ooo" /\ \E from \in 1..num : Add(Call(fr, v, from, FALSE), TRUE)
        \/ setup.api = "check" /\ AddCheck(Call(fr, v, num, short), num)
        \/ setup.api = "fallback" /\ \E b \in 1..num : AddCheck(Call(fr, v, num, short), b)
        \/ setup.api = "seq" /\ AddSeq(Call(fr, v, num, short))
        \/ setup.api \in {"seqcheck", "seqnext", "802.11"} /\ AddSeqCheck(Call(fr, v, num, short))
    /\ num' \in (IF setup.crowded THEN {num, num + 1} ELSE {num + 1})
    /\ UNCHANGED setup

Change(h) ==
    /\ heads' = [heads EXCEPT ![table] = h]
    /\ UNCHANGED <<setup, table, done, num, calls, given>>

Op(o) == Calm /\ table # 0 /\ o \in setup.ops

SetPartialReassembly == Op("partial") /\ Change([heads[table] EXCEPT !.partial = TRUE])

\* fragment_set_tot_len; of a completed reassembly by offsets it takes none
\* but zero for its length.
SetTotLen ==
    \E n \in setup.lens :
        /\ Op("setlen")
        /\ LET h    == heads[table]
               most == IF ~h.seq \/ h.items = <<>> THEN 0 ELSE Last(h.items).off
           IN  Change(IF most > n \/ (h.defrag /\ most # n) THEN [h EXCEPT !.error = TRUE]
                      ELSE [h EXCEPT !.datalen = n, !.set = TRUE])

\* fragment_reset_tot_len
ResetTotLen ==
    \E n \in setup.lens :
        /\ Op("resetlen")
        /\ LET h == [heads[table] EXCEPT !.partial = FALSE]
               r == IF h.defrag THEN ResetDefragmentation(h) ELSE h
           IN  Change(IF n = h.datalen THEN h ELSE IF r.torn THEN r ELSE [r EXCEPT !.datalen = n, !.set = TRUE])

\* How much of a fragment is before n.
Until(c, n) == IF c.off + c.kept <= n THEN c.kept ELSE IF c.off < n THEN n - c.off ELSE 0

\* fragment_truncate, of a completed reassembly to less
Cut(f, n) == [f EXCEPT !.flags = @ \ {"toolong", "tails"}, !.data = NoData, !.len = IF End(f) > n THEN n - f.off ELSE @]

Truncated(h, n) ==
    LET last  == Cardinality({i \in DOMAIN h.items : h.items[i].off < n})
        items == [i \in 1..last |-> Cut(h.items[i], n)]
        flags == UNION {items[i].flags : i \in 1..last}
    IN  ItemsRemoved([h EXCEPT !.partial = FALSE, !.data = SubSeq(@, 1, n), !.datalen = n, !.items = items,
                               !.flags = flags, !.contig = IF @ < n THEN @ ELSE n],
                     last)

Truncate ==
    \E n \in setup.lens :
        /\ Op("truncate") /\ heads[table].defrag /\ heads[table].datalen > n
        /\ heads' = [heads EXCEPT ![table] = Truncated(heads[table], n)]
        /\ calls' = [k \in DOMAIN calls |-> IF calls[k].id = table THEN [calls[k] EXCEPT !.kept = Until(calls[k], n)]
                                                                    ELSE calls[k]]
        /\ given' = [given EXCEPT ![table] = [p \in DOMAIN @ \cap 1..n |-> @[p]]]
    /\ UNCHANGED <<setup, table, done, num>>

\* fragment_end_seq_next
EndSeqNext ==
    /\ Op("end")
    /\ LET h == heads[table]
           r == SeqAssemble([h EXCEPT !.set = TRUE, !.datalen = IF h.items = <<>> THEN 0 ELSE Last(h.items).off], num)
           frames == FramesOf(r.h) \cup {num}
       IN  /\ table' = 0
           /\ heads' = Insert([heads EXCEPT ![table] = r.h], frames, table)
           /\ done' = [f \in Frames |-> IF f \in frames THEN table ELSE done[f]]
           /\ given' = [given EXCEPT ![table] = r.h.data]
    /\ num' = num + 1
    /\ UNCHANGED <<setup, calls>>

\* fragment_delete
Delete ==
    /\ Op("delete")
    /\ heads' = [heads EXCEPT ![table].freed = TRUE]
    /\ table' = 0
    /\ UNCHANGED <<setup, done, num, calls, given>>

Over == (Len(calls) = setup.calls \/ ~Calm) /\ UNCHANGED vars

Next ==
    \/ AddFragment \/ SetPartialReassembly \/ SetTotLen \/ ResetTotLen \/ Truncate \/ EndSeqNext \/ Delete
    \/ Over

Spec == Init /\ [][Next]_vars

--------------------------------------------------------------------------------
(* The second pass: what a packet that was dissected before is answered.   *)

Answer(id, thrown) == [id |-> id, thrown |-> thrown]

Revisit(c) ==
    IF setup.api \in Checks THEN Answer(done[c.num], FALSE)
    ELSE IF table = 0 \/ ~heads[table].defrag THEN Answer(0, FALSE)
    ELSE LET h == heads[table] IN
         Answer(table, ~h.seq /\ (h.error \/ c.from > h.frame \/ Beyond(h, c)))

--------------------------------------------------------------------------------
(* Properties.                                                              *)

HeadOK(h) ==
    /\ \A i \in DOMAIN h.items :
          h.items[i].off \in Nat /\ h.items[i].frame \in Frames /\ h.items[i].flags \subseteq ItemFlags
    /\ h.gap \in 0..Len(h.items) /\ h.contig \in Nat /\ h.datalen \in Nat /\ h.len \in Nat /\ h.ref \in Nat
    /\ {h.frame, h.reasIn} \subseteq Frames /\ h.flags \subseteq ItemFlags
    /\ {h.set, h.defrag, h.partial, h.error, h.seq, h.freed, h.torn} \subseteq BOOLEAN

TypeOK ==
    /\ setup \in Setups /\ num \in Frames /\ Len(calls) <= setup.calls
    /\ \A i \in DOMAIN heads : HeadOK(heads[i])
    /\ table \in 0..Len(heads) /\ done \in [Frames -> 0..Len(heads)]
    /\ Len(given) = Len(heads)

\* The list is sorted and the cached first gap and contiguous length are
\* those of the fragments in it, whatever was inserted before, at and after
\* the gap, cut off, or is past the end.
ListsExact ==
    \A i \in DOMAIN heads :
        ~heads[i].torn => Sorted(heads[i]) /\ GapExact(heads[i])

Sound(h) == h.defrag /\ ~h.error /\ ~h.torn

\* The fragments of a head, but those that wrap.
AddedTo(i) == {k \in DOMAIN calls : calls[k].id = i /\ calls[k].added /\ ~Wraps(calls[k])}
Has(c, p)  == c.off <= p /\ p < c.off + c.len

\* Every byte of a completed reassembly is the byte at its place of a
\* fragment that was added to it.
From(i, p, byte) == \E k \in AddedTo(i) : Has(calls[k], p) /\ byte = <<p, 0, calls[k].v>>

BytesInPlace ==
    ~Seq_ =>
        \A i \in DOMAIN heads :
            heads[i].defrag /\ ~heads[i].torn =>
                /\ Len(heads[i].data) = heads[i].datalen \/ heads[i].datalen = 0
                /\ \A p \in DOMAIN heads[i].data : From(i, p - 1, heads[i].data[p])

\* When a reassembly of blocks completes, no fragment of it having been past
\* the end, its data are the blocks from 0 to the last one, each whole and
\* as one fragment of that number had it, in order; what follows came early.
BlocksOf(i, b) == {k \in DOMAIN calls' : calls'[k].id = i /\ calls'[k].off = b /\ (calls'[k].short => calls'[k].len = 0)}

Within(i) == \A k \in DOMAIN calls : calls[k].id = i => ~calls[k].toolong

BlockWhole(i, b, data) ==
    \E k \in BlocksOf(i, b) :
        LET c == calls'[k] IN
        SelectSeq(data, LAMBDA byte : byte[1] = b) = [n \in 1..c.len |-> <<b, n, c.v>>]

SeqCompleted(i, h) ==
    /\ \A b \in 0..h.datalen \cup {h.data[p][1] : p \in DOMAIN h.data} : BlockWhole(i, b, h.data)
    /\ \A p \in DOMAIN h.data \ {1} : h.data[p - 1][1] <= h.data[p][1]

SeqDataInPlace ==
    [][\A i \in DOMAIN heads' :
          LET h == heads'[i]
              before == i \in DOMAIN heads /\ heads[i].defrag /\ heads[i].data = h.data
          IN  Seq_ /\ Sound(h) /\ ~before /\ h.items # <<>> /\ Within(i)'
                => SeqCompleted(i, h)]_vars

\* A conflict is noticed when two of the fragments of a datagram do not agree
\* about a byte of it - one that comes late and is past the end is not looked
\* at - and only when two did about some byte.
Stands(c, p, n) ==
    c.off <= p /\ p < c.off + c.kept /\ (setup.api = "fallback" /\ c.toolong => c.off + c.kept <= n)

Disagree(i) ==
    \E j, k \in AddedTo(i) : \E p \in 0..(heads[i].datalen - 1) :
        calls[j].v # calls[k].v /\ \A c \in {calls[j], calls[k]} : Stands(c, p, heads[i].datalen)

Disagreed(i) ==
    \E j, k \in AddedTo(i) : \E p \in 0..(Modulus - 1) :
        calls[j].v # calls[k].v /\ Has(calls[j], p) /\ Has(calls[k], p)

ConflictNoticed ==
    ~Seq_ =>
        \A i \in DOMAIN heads :
            heads[i].defrag /\ ~heads[i].torn =>
                /\ Disagree(i) => "conflict" \in heads[i].flags
                /\ "conflict" \in heads[i].flags => Disagreed(i)

\* A completed reassembly is made of its fragments, and says if they differ.
DataInPlace == BytesInPlace /\ ConflictNoticed

\* A head is freed when, and only when, no frame leads to it any more.
RefsExact ==
    \A i \in DOMAIN heads :
        LET frames == {f \in Frames : done[f] = i} IN
        IF heads[i].freed THEN frames = {} ELSE heads[i].ref = Cardinality(frames)

\* A frame leads to a completed reassembly it has a fragment of (or is all
\* of), and every frame that has one leads to it or to a later one, unless it
\* failed and was deleted.
Members(h) == IF h.items = <<>> THEN {h.reasIn} ELSE {h.items[i].frame : i \in DOMAIN h.items}

\* The frames of short fragments that came late.
GivenUp(i) == {calls[k].num : k \in {j \in DOMAIN calls : calls[j].id = i /\ calls[j].short}}

FramesFindTheirs ==
    /\ \A f \in Frames :
          done[f] # 0 => heads[done[f]].defrag /\ f \in Members(heads[done[f]]) \cup {heads[done[f]].reasIn} \cup GivenUp(done[f])
    /\ setup.api \in Checks =>
         \A i \in DOMAIN heads :
            i # table /\ heads[i].defrag /\ ~(heads[i].error /\ heads[i].freed) => \A f \in Members(heads[i]) : done[f] >= i

\* The tables own what they point to, whichever datagrams share a frame.
TablesExact == TypeOK /\ RefsExact /\ FramesFindTheirs

\* "so that results on subsequent passes can be the same as the first pass"
\* (reassemble.c:1742-1744): the call that completed a reassembly is answered
\* with it when the packet is dissected again - unless its fragment was past
\* the end of what it completed, when an exception is thrown.
Completed == {k \in DOMAIN calls : calls[k].returned /\ calls[k].id = table /\ heads[table].reasIn = calls[k].num}

AnsweredAgain ==
    \A k \in Completed :
        Sound(heads[table]) /\ (Seq_ \/ ~Beyond(heads[table], calls[k])) => Revisit(calls[k]) = Answer(table, FALSE)

\* A byte that was handed to a dissector is another one afterwards only when
\* the reassembly says that its fragments contradict each other; of blocks,
\* one that is not past the last, if no block ever was.
BytesStay ==
    [][\A i \in DOMAIN given :
          given[i] # NoData /\ "conflict" \notin heads'[i].flags =>
              \A p \in DOMAIN given[i] \cap DOMAIN given'[i] :
                  (Seq_ => Within(i) /\ given[i][p][1] <= heads[i].datalen) => given'[i][p] = given[i][p]]_vars

\* A datagram whose fragments are all of it implements the contract.
Got ==
    IF setup.size = 0 THEN {}
    ELSE UNION {calls[k].off..(calls[k].off + (IF Seq_ THEN 1 ELSE calls[k].len) - 1) :
                   k \in {j \in DOMAIN calls : calls[j].id = 1 /\ ~calls[j].short}}
Delivered ==
    IF setup.size = 0 \/ heads = <<>> \/ ~heads[1].defrag THEN <<>> ELSE [p \in DOMAIN given[1] |-> given[1][p][1]]

Contract == INSTANCE Datagram WITH size <- setup.size, got <- Got, delivered <- Delivered
ImplementsDatagram == Contract!Spec
===============================================================================
