------------------------- MODULE CaptureOutputProofs -------------------------
(***************************************************************************)
(* Theorems about CaptureOutput, for every set of command lines, any       *)
(* number of files and packets and any call that fails.                    *)
(***************************************************************************)
EXTENDS CaptureOutput, FiniteSetTheorems, TLAPS

(***************************************************************************)
(* Files and streams.                                                      *)
(***************************************************************************)
Misuses == {"fclose", "fflush", "fwrite", "name", "name_h", "free"}
FsType  == [exists : SUBSET Names, open : SUBSET Names, disk : [Names -> Nat],
            buf : [Names -> Nat], bad : SUBSET Misuses, closed : SUBSET Names,
            failed : SUBSET Names]

(* What the types of the options are.                                      *)
LEMMA OptionTypes ==
    ASSUME opts \in Options
    PROVE  /\ opts.files \in Nat /\ opts.packets \in Nat /\ opts.stopfiles \in Nat
           /\ opts.stoppackets \in Nat /\ opts.printname \in BOOLEAN
           /\ opts.compress \in BOOLEAN
           /\ Slots \in Nat \ {0} /\ (~Unlimited => Slots = opts.files)
<1>1. opts \in CaptureOptions
  BY OutputAssumption
<1>2. /\ opts.files \in Nat /\ opts.packets \in Nat /\ opts.stopfiles \in Nat
      /\ opts.stoppackets \in Nat /\ opts.printname \in BOOLEAN
      /\ opts.compress \in BOOLEAN
  BY <1>1 DEF CaptureOptions
<1> QED
  BY <1>2 DEF Slots, Unlimited

(* What waits in the buffers of some streams goes to the disk or is lost.  *)
Put(f, ns, ok, g) ==
    /\ g \in FsType /\ g.exists = f.exists /\ g.open = f.open
    /\ g.bad = f.bad /\ g.closed = f.closed
    /\ g.failed = IF ok THEN f.failed ELSE f.failed \cup ns
    /\ \A m \in Names :
          /\ g.disk[m] = IF m \in ns /\ ok THEN f.disk[m] + f.buf[m] ELSE f.disk[m]
          /\ g.buf[m] = IF m \in ns THEN 0 ELSE f.buf[m]

LEMMA FsPutIs ==
    ASSUME NEW f \in FsType, NEW ns \in SUBSET Names, NEW ok \in BOOLEAN
    PROVE  Put(f, ns, ok, FsPut(f, ns, ok))
<1>1. /\ f.disk \in [Names -> Nat] /\ f.buf \in [Names -> Nat] /\ f.failed \in SUBSET Names
      /\ f.exists \in SUBSET Names /\ f.open \in SUBSET Names /\ f.bad \in SUBSET Misuses
      /\ f.closed \in SUBSET Names
  BY DEF FsType
<1>2. PICK d : d = [m \in Names |-> IF m \in ns THEN f.disk[m] + f.buf[m] ELSE f.disk[m]]
  OBVIOUS
<1>3. PICK b : b = [m \in Names |-> IF m \in ns THEN 0 ELSE f.buf[m]]
  OBVIOUS
<1>4. /\ d \in [Names -> Nat] /\ b \in [Names -> Nat]
      /\ \A m \in Names : /\ d[m] = IF m \in ns THEN f.disk[m] + f.buf[m] ELSE f.disk[m]
                          /\ b[m] = IF m \in ns THEN 0 ELSE f.buf[m]
  <2>1. \A m \in Names : (IF m \in ns THEN f.disk[m] + f.buf[m] ELSE f.disk[m]) \in Nat
    BY <1>1
  <2>2. \A m \in Names : (IF m \in ns THEN 0 ELSE f.buf[m]) \in Nat
    BY <1>1
  <2> QED BY <1>2, <1>3, <2>1, <2>2
<1>5. CASE ok
  <2>1. FsPut(f, ns, ok) = [f EXCEPT !.disk = d, !.buf = b]
    BY <1>2, <1>3, <1>5 DEF FsPut, FsSpill, FsType
  <2>2. PICK g : g = FsPut(f, ns, ok)
    OBVIOUS
  <2>3. g = [exists |-> f.exists, open |-> f.open, disk |-> d, buf |-> b, bad |-> f.bad,
             closed |-> f.closed, failed |-> f.failed]
    BY <2>1, <2>2 DEF FsType
  <2>4. g \in FsType
    BY <1>1, <1>4, <2>3 DEF FsType
  <2>5. /\ g.exists = f.exists /\ g.open = f.open /\ g.disk = d /\ g.buf = b /\ g.bad = f.bad
        /\ g.closed = f.closed /\ g.failed = f.failed
    BY <2>3
  <2> QED BY <1>4, <1>5, <2>2, <2>4, <2>5 DEF Put
<1>6. CASE ~ok
  <2>1. FsPut(f, ns, ok) = [f EXCEPT !.buf = b, !.failed = f.failed \cup ns]
    BY <1>3, <1>6 DEF FsPut, FsLose, FsFail, FsType
  <2>2. PICK g : g = FsPut(f, ns, ok)
    OBVIOUS
  <2>3. g = [exists |-> f.exists, open |-> f.open, disk |-> f.disk, buf |-> b, bad |-> f.bad,
             closed |-> f.closed, failed |-> f.failed \cup ns]
    BY <2>1, <2>2 DEF FsType
  <2>4. g \in FsType
    BY <1>1, <1>4, <2>3 DEF FsType
  <2>5. /\ g.exists = f.exists /\ g.open = f.open /\ g.disk = f.disk /\ g.buf = b /\ g.bad = f.bad
        /\ g.closed = f.closed /\ g.failed = f.failed \cup ns
    BY <2>3
  <2> QED BY <1>4, <1>6, <2>2, <2>4, <2>5 DEF Put
<1> QED BY <1>5, <1>6

(* What closing, flushing, writing, creating and removing do to them.      *)
Closed(f, n, ok, g) ==
    /\ g \in FsType /\ g.exists = f.exists /\ g.open = f.open \ {n}
    /\ n \in f.open => /\ g.bad = f.bad /\ g.closed = f.closed \cup {n}
                       /\ g.failed = IF ok THEN f.failed ELSE f.failed \cup {n}
    /\ n \notin f.open => g = Misuse(f, "fclose")
    /\ \A m \in Names : m \notin f.open \/ m # n => g.disk[m] = f.disk[m] /\ g.buf[m] = f.buf[m]
    /\ n \in f.open => g.buf[n] = 0 /\ g.disk[n] = IF ok THEN f.disk[n] + f.buf[n] ELSE f.disk[n]

LEMMA FsCloseIs ==
    ASSUME NEW f \in FsType, NEW n, NEW ok \in BOOLEAN
    PROVE  Closed(f, n, ok, FsClose(f, n, ok))
<1>1. CASE n \in f.open
  <2>1. n \in Names /\ {n} \in SUBSET Names
    BY <1>1 DEF FsType
  <2>0. PICK ns \in SUBSET Names : ns = {n}
    BY <2>1
  <2>2. PICK g : g = FsPut(f, ns, ok)
    OBVIOUS
  <2>3. /\ g \in FsType /\ g.exists = f.exists /\ g.open = f.open /\ g.bad = f.bad /\ g.closed = f.closed
        /\ g.failed = IF ok THEN f.failed ELSE f.failed \cup ns
        /\ \A m \in Names :
              /\ g.disk[m] = IF m \in ns /\ ok THEN f.disk[m] + f.buf[m] ELSE f.disk[m]
              /\ g.buf[m] = IF m \in ns THEN 0 ELSE f.buf[m]
    <3>1. Put(f, ns, ok, g)
      BY <2>2, FsPutIs
    <3> QED BY <3>1 DEF Put
  <2>4. FsClose(f, n, ok) = [g EXCEPT !.open = g.open \ {n}, !.closed = g.closed \cup {n}]
    BY <1>1, <2>0, <2>2, <2>3 DEF FsClose, FsType
  <2>5a. /\ g.disk \in [Names -> Nat] /\ g.buf \in [Names -> Nat] /\ g.failed \in SUBSET Names
         /\ g.exists \in SUBSET Names /\ g.open \in SUBSET Names /\ g.bad \in SUBSET Misuses
         /\ g.closed \in SUBSET Names
    BY <2>3 DEF FsType
  <2>5b. FsClose(f, n, ok) =
            [exists |-> g.exists, open |-> g.open \ {n}, disk |-> g.disk, buf |-> g.buf, bad |-> g.bad,
             closed |-> g.closed \cup {n}, failed |-> g.failed]
    BY <2>3, <2>4 DEF FsType
  <2>5c. FsClose(f, n, ok) \in FsType
    BY <2>1, <2>5a, <2>5b DEF FsType
  <2>5. /\ FsClose(f, n, ok) \in FsType
        /\ FsClose(f, n, ok).exists = g.exists /\ FsClose(f, n, ok).open = g.open \ {n}
        /\ FsClose(f, n, ok).bad = g.bad /\ FsClose(f, n, ok).closed = g.closed \cup {n}
        /\ FsClose(f, n, ok).failed = g.failed /\ FsClose(f, n, ok).disk = g.disk
        /\ FsClose(f, n, ok).buf = g.buf
    BY <2>5b, <2>5c
  <2> QED
    BY <1>1, <2>0, <2>1, <2>3, <2>5 DEF Closed
<1>2. CASE n \notin f.open
  <2>1. FsClose(f, n, ok) = Misuse(f, "fclose")
    BY <1>2 DEF FsClose
  <2> QED
    BY <1>2, <2>1 DEF Closed, FsType, Misuse, Misuses
<1> QED BY <1>1, <1>2

(* Closing changes only the file of the stream.                            *)
LEMMA CloseFrame ==
    ASSUME NEW f \in FsType, NEW n, NEW ok \in BOOLEAN
    PROVE  /\ FsClose(f, n, ok) \in FsType
           /\ FsClose(f, n, ok).exists = f.exists
           /\ FsClose(f, n, ok).open = f.open \ {n}
           /\ \A m \in Names : m \notin f.open \/ m # n => FsClose(f, n, ok).disk[m] = f.disk[m]
<1>1. Closed(f, n, ok, FsClose(f, n, ok))
  BY FsCloseIs
<1> QED BY <1>1 DEF Closed

(* A misuse is noted and changes nothing else.                             *)
LEMMA MisuseIs ==
    ASSUME NEW f \in FsType, NEW what \in Misuses
    PROVE  /\ Misuse(f, what) \in FsType
           /\ Misuse(f, what).exists = f.exists /\ Misuse(f, what).open = f.open
           /\ Misuse(f, what).disk = f.disk /\ Misuse(f, what).buf = f.buf
           /\ Misuse(f, what).bad = f.bad \cup {what}
           /\ Misuse(f, what).closed = f.closed /\ Misuse(f, what).failed = f.failed
BY DEF FsType, Misuse

(* From one state of the streams to another nothing is lost but of files   *)
(* that a failing call is noted for.                                       *)
Keeps(f, g) ==
    /\ f.closed \subseteq g.closed /\ f.failed \subseteq g.failed
    /\ \A m \in Names \ g.failed : g.disk[m] + g.buf[m] = f.disk[m] + f.buf[m]
    /\ \A m \in Names : g.disk[m] >= f.disk[m]

(* Closing loses nothing unless it fails.                                  *)
LEMMA CloseKeeps ==
    ASSUME NEW f \in FsType, NEW n, NEW ok \in BOOLEAN
    PROVE  /\ FsClose(f, n, ok).open = f.open \ {n}
           /\ FsClose(f, n, ok).bad \subseteq f.bad \cup {"fclose"}
           /\ n \in f.open => FsClose(f, n, ok).bad = f.bad
           /\ n \in f.open => n \in FsClose(f, n, ok).closed
           /\ Keeps(f, FsClose(f, n, ok))
           /\ \A m \in Names :
                  /\ m # n \/ m \notin f.open =>
                        FsClose(f, n, ok).buf[m] = f.buf[m] /\ FsClose(f, n, ok).disk[m] = f.disk[m]
                  /\ m = n /\ m \in f.open => FsClose(f, n, ok).buf[m] = 0
<1>1. \A m \in Names : f.disk[m] \in Nat /\ f.buf[m] \in Nat
  BY DEF FsType
<1>2. CASE n \in f.open
  <2>1. PICK g : g = FsClose(f, n, ok)
    OBVIOUS
  <2>2. /\ g.open = f.open \ {n} /\ g.bad = f.bad
        /\ g.closed = f.closed \cup {n} /\ g.failed = IF ok THEN f.failed ELSE f.failed \cup {n}
        /\ \A m \in Names : m # n => g.disk[m] = f.disk[m] /\ g.buf[m] = f.buf[m]
        /\ g.buf[n] = 0 /\ g.disk[n] = IF ok THEN f.disk[n] + f.buf[n] ELSE f.disk[n]
    <3>1. Closed(f, n, ok, g)
      BY <2>1, FsCloseIs
    <3> QED BY <1>2, <3>1 DEF Closed
  <2>3. n \in Names
    BY <1>2 DEF FsType
  <2>4. \A m \in Names : g.disk[m] >= f.disk[m]
    BY <1>1, <2>2, <2>3
  <2>5. \A m \in Names \ g.failed : g.disk[m] + g.buf[m] = f.disk[m] + f.buf[m]
    BY <1>1, <2>2, <2>3
  <2>6. Keeps(f, g)
    BY <2>2, <2>4, <2>5 DEF Keeps
  <2> QED BY <1>2, <2>1, <2>2, <2>6
<1>3. CASE n \notin f.open
  <2>1. FsClose(f, n, ok) = Misuse(f, "fclose") /\ "fclose" \in Misuses
    BY <1>3 DEF FsClose, Misuses
  <2>2. /\ Misuse(f, "fclose").open = f.open
        /\ Misuse(f, "fclose").disk = f.disk /\ Misuse(f, "fclose").buf = f.buf
        /\ Misuse(f, "fclose").bad = f.bad \cup {"fclose"}
        /\ Misuse(f, "fclose").closed = f.closed /\ Misuse(f, "fclose").failed = f.failed
    BY <2>1, MisuseIs
  <2>3. Keeps(f, Misuse(f, "fclose"))
    BY <1>1, <2>2 DEF Keeps
  <2> QED BY <1>3, <2>1, <2>2, <2>3
<1> QED BY <1>2, <1>3

(* A close that succeeds puts what waited on the disk.                     *)
LEMMA CloseWhole ==
    ASSUME NEW f \in FsType, NEW n \in f.open
    PROVE  /\ FsClose(f, n, TRUE).open = f.open \ {n}
           /\ FsClose(f, n, TRUE).bad = f.bad
           /\ n \in FsClose(f, n, TRUE).closed
           /\ Keeps(f, FsClose(f, n, TRUE))
           /\ \A m \in Names :
                  /\ m # n => FsClose(f, n, TRUE).buf[m] = f.buf[m]
                  /\ m = n => FsClose(f, n, TRUE).buf[m] = 0
<1>1. PICK ok \in BOOLEAN : ok = TRUE
  OBVIOUS
<1>2. n \in Names \cup {0} /\ n \in f.open
  BY DEF FsType
<1>3. /\ FsClose(f, n, ok).open = f.open \ {n}
      /\ FsClose(f, n, ok).bad = f.bad /\ n \in FsClose(f, n, ok).closed
      /\ Keeps(f, FsClose(f, n, ok))
      /\ \A m \in Names :
            /\ m # n => FsClose(f, n, ok).buf[m] = f.buf[m]
            /\ m = n => FsClose(f, n, ok).buf[m] = 0
  BY <1>2, CloseKeeps
<1> QED BY <1>1, <1>3

(* Flushing one stream, or all of them.                                    *)
Flushed(f, n, ok, g) ==
    /\ g \in FsType /\ g.exists = f.exists /\ g.open = f.open
    /\ g.bad = IF n = 0 \/ n \in f.open THEN f.bad ELSE f.bad \cup {"fflush"}
    /\ g.closed = f.closed /\ f.failed \subseteq g.failed
    /\ \A m \in Names :
          /\ m \in f.open /\ n \in {0, m} =>
                /\ g.disk[m] = IF ok THEN f.disk[m] + f.buf[m] ELSE f.disk[m]
                /\ g.buf[m] = 0 /\ (ok \/ m \in g.failed)
          /\ ~(m \in f.open /\ n \in {0, m}) => g.disk[m] = f.disk[m] /\ g.buf[m] = f.buf[m]

LEMMA FsFlushIs ==
    ASSUME NEW f \in FsType, NEW n, NEW ok \in BOOLEAN
    PROVE  Flushed(f, n, ok, FsFlush(f, n, ok))
<1>1. CASE n # 0 /\ n \notin f.open
  <2>1. FsFlush(f, n, ok) = Misuse(f, "fflush")
    BY <1>1 DEF FsFlush
  <2>2. "fflush" \in Misuses
    BY DEF Misuses
  <2>3. /\ Misuse(f, "fflush") \in FsType
        /\ Misuse(f, "fflush").exists = f.exists /\ Misuse(f, "fflush").open = f.open
        /\ Misuse(f, "fflush").disk = f.disk /\ Misuse(f, "fflush").buf = f.buf
        /\ Misuse(f, "fflush").bad = f.bad \cup {"fflush"}
        /\ Misuse(f, "fflush").closed = f.closed /\ Misuse(f, "fflush").failed = f.failed
    BY <2>2, MisuseIs
  <2>4. \A m \in Names : ~(m \in f.open /\ n \in {0, m})
    BY <1>1
  <2> QED
    BY <1>1, <2>1, <2>3, <2>4 DEF Flushed
<1>2. CASE ~(n # 0 /\ n \notin f.open)
  <2>1. PICK which \in SUBSET Names : which = IF n = 0 THEN f.open ELSE {n}
    BY <1>2 DEF FsType
  <2>2. FsFlush(f, n, ok) = FsPut(f, which, ok)
    BY <1>2, <2>1 DEF FsFlush
  <2>3. \A m \in Names : m \in which <=> m \in f.open /\ n \in {0, m}
    BY <1>2, <2>1
  <2>4. Put(f, which, ok, FsPut(f, which, ok))
    BY FsPutIs
  <2> QED
    BY <1>2, <2>2, <2>3, <2>4 DEF Put, Flushed
<1> QED BY <1>1, <1>2

(* Flushing changes only files with an open stream.                        *)
LEMMA FlushFrame ==
    ASSUME NEW f \in FsType, NEW n, NEW ok \in BOOLEAN
    PROVE  /\ FsFlush(f, n, ok) \in FsType
           /\ FsFlush(f, n, ok).exists = f.exists
           /\ \A m \in Names : m \notin f.open => FsFlush(f, n, ok).disk[m] = f.disk[m]
<1>1. Flushed(f, n, ok, FsFlush(f, n, ok))
  BY FsFlushIs
<1> QED BY <1>1 DEF Flushed

(* Flushing loses nothing unless it fails: what waited is on the disk.     *)
LEMMA FlushKeeps ==
    ASSUME NEW f \in FsType, NEW n, NEW ok \in BOOLEAN
    PROVE  /\ FsFlush(f, n, ok).open = f.open
           /\ FsFlush(f, n, ok).bad \subseteq f.bad \cup {"fflush"}
           /\ n \in f.open \cup {0} => FsFlush(f, n, ok).bad = f.bad
           /\ FsFlush(f, n, ok).closed = f.closed
           /\ Keeps(f, FsFlush(f, n, ok))
           /\ \A m \in Names :
                  /\ m \notin f.open => FsFlush(f, n, ok).buf[m] = f.buf[m] /\ FsFlush(f, n, ok).disk[m] = f.disk[m]
                  /\ m \in f.open /\ n \in {0, m} => FsFlush(f, n, ok).buf[m] = 0
<1>1. \A m \in Names : f.disk[m] \in Nat /\ f.buf[m] \in Nat
  BY DEF FsType
<1>2. PICK g : g = FsFlush(f, n, ok)
  OBVIOUS
<1>3. /\ g.open = f.open
      /\ g.bad = IF n = 0 \/ n \in f.open THEN f.bad ELSE f.bad \cup {"fflush"}
      /\ g.closed = f.closed /\ f.failed \subseteq g.failed
      /\ \A m \in Names :
            /\ m \in f.open /\ n \in {0, m} =>
                  /\ g.disk[m] = IF ok THEN f.disk[m] + f.buf[m] ELSE f.disk[m]
                  /\ g.buf[m] = 0 /\ (ok \/ m \in g.failed)
            /\ ~(m \in f.open /\ n \in {0, m}) => g.disk[m] = f.disk[m] /\ g.buf[m] = f.buf[m]
  <2>1. Flushed(f, n, ok, g)
    BY <1>2, FsFlushIs
  <2> QED BY <2>1 DEF Flushed
<1>4. ASSUME NEW m \in Names
      PROVE  /\ g.disk[m] >= f.disk[m]
             /\ m \notin g.failed => g.disk[m] + g.buf[m] = f.disk[m] + f.buf[m]
  <2>1. CASE m \in f.open /\ n \in {0, m}
    <3>1. /\ g.disk[m] = IF ok THEN f.disk[m] + f.buf[m] ELSE f.disk[m]
          /\ g.buf[m] = 0 /\ (ok \/ m \in g.failed)
      BY <1>3, <2>1
    <3> QED BY <1>1, <3>1
  <2>2. CASE ~(m \in f.open /\ n \in {0, m})
    <3>1. g.disk[m] = f.disk[m] /\ g.buf[m] = f.buf[m]
      BY <1>3, <2>2
    <3> QED BY <1>1, <3>1
  <2> QED BY <2>1, <2>2
<1>5. Keeps(f, g)
  BY <1>3, <1>4 DEF Keeps
<1> QED BY <1>2, <1>3, <1>5

(* A file that a call has failed for is noted, and nothing else changes.   *)
LEMMA FsFailIs ==
    ASSUME NEW f \in FsType, NEW ns \in SUBSET Names
    PROVE  /\ FsFail(f, ns) \in FsType
           /\ FsFail(f, ns).exists = f.exists /\ FsFail(f, ns).open = f.open
           /\ FsFail(f, ns).disk = f.disk /\ FsFail(f, ns).buf = f.buf
           /\ FsFail(f, ns).bad = f.bad /\ FsFail(f, ns).closed = f.closed
           /\ FsFail(f, ns).failed = f.failed \cup ns
BY DEF FsType, FsFail

(* What is lost leaves the buffers, and nothing else changes.              *)
LEMMA FsLoseIs ==
    ASSUME NEW f \in FsType, NEW ns \in SUBSET Names
    PROVE  /\ FsLose(f, ns) \in FsType
           /\ FsLose(f, ns).exists = f.exists /\ FsLose(f, ns).open = f.open
           /\ FsLose(f, ns).bad = f.bad /\ FsLose(f, ns).closed = f.closed
           /\ FsLose(f, ns).disk = f.disk
           /\ Keeps(f, FsLose(f, ns))
           /\ \A m \in Names : FsLose(f, ns).buf[m] = IF m \in ns THEN 0 ELSE f.buf[m]
<1>1. /\ f.disk \in [Names -> Nat] /\ f.buf \in [Names -> Nat]
  BY DEF FsType
<1>2. FsLose(f, ns) = FsPut(f, ns, FALSE)
  BY DEF FsPut
<1>3. Put(f, ns, FALSE, FsPut(f, ns, FALSE))
  BY FsPutIs
<1>4. /\ FsPut(f, ns, FALSE) \in FsType
      /\ FsPut(f, ns, FALSE).exists = f.exists /\ FsPut(f, ns, FALSE).open = f.open
      /\ FsPut(f, ns, FALSE).bad = f.bad /\ FsPut(f, ns, FALSE).closed = f.closed
      /\ FsPut(f, ns, FALSE).failed = f.failed \cup ns
      /\ \A m \in Names :
            /\ FsPut(f, ns, FALSE).disk[m] = f.disk[m]
            /\ FsPut(f, ns, FALSE).buf[m] = IF m \in ns THEN 0 ELSE f.buf[m]
  BY <1>3 DEF Put
<1>5. PICK g : g = FsLose(f, ns)
  OBVIOUS
<1>6. /\ g \in FsType /\ g.exists = f.exists /\ g.open = f.open
      /\ g.bad = f.bad /\ g.closed = f.closed /\ g.failed = f.failed \cup ns
      /\ \A m \in Names : g.disk[m] = f.disk[m] /\ g.buf[m] = IF m \in ns THEN 0 ELSE f.buf[m]
  BY <1>2, <1>4, <1>5
<1>7. g.disk = f.disk
  BY <1>1, <1>6 DEF FsType
<1>8. Keeps(f, g)
  BY <1>1, <1>6 DEF Keeps
<1> QED BY <1>5, <1>6, <1>7, <1>8

(* A packet that cannot be written may cost those in the buffer.           *)
LEMMA WriteErrorIs ==
    ASSUME fs \in FsType, WriteError
    PROVE  /\ fs' \in FsType /\ fs'.exists = fs.exists /\ fs'.open = fs.open
           /\ fs'.bad = fs.bad /\ fs'.closed = fs.closed /\ fs'.disk = fs.disk
           /\ Keeps(fs, fs')
           /\ \A m \in Names : fs'.buf[m] \in {0, fs.buf[m]}
<1>1. PICK f \in FsType : f = fs
  OBVIOUS
<1>2. /\ f.disk \in [Names -> Nat] /\ f.buf \in [Names -> Nat]
      /\ f.open \in SUBSET Names
  BY DEF FsType
<1>3. CASE fs' = fs
  BY <1>1, <1>2, <1>3 DEF Keeps
<1>4. CASE fs' # fs
  <2>1. f \in FsType
    OBVIOUS
  <2>2. PICK ns : ns = f.open \cap {pdh} /\ ns \in SUBSET Names
    BY <1>2
  <2>3. fs' = FsLose(f, ns)
    BY <1>1, <1>4, <2>2 DEF WriteError
  <2>4. /\ FsLose(f, ns) \in FsType
        /\ FsLose(f, ns).exists = f.exists /\ FsLose(f, ns).open = f.open
        /\ FsLose(f, ns).bad = f.bad /\ FsLose(f, ns).closed = f.closed
        /\ FsLose(f, ns).disk = f.disk
        /\ Keeps(f, FsLose(f, ns))
        /\ \A m \in Names : FsLose(f, ns).buf[m] = IF m \in ns THEN 0 ELSE f.buf[m]
    BY ONLY <2>1, <2>2, FsLoseIs
  <2> QED BY <1>1, <2>3, <2>4
<1> QED BY <1>3, <1>4

(* A packet written waits in the buffer of an open stream.                 *)
LEMMA FsWriteIs ==
    ASSUME NEW f \in FsType, NEW n \in Names \cup {0}
    PROVE  /\ FsWrite(f, n) \in FsType
           /\ FsWrite(f, n).exists = f.exists /\ FsWrite(f, n).open = f.open
           /\ FsWrite(f, n).disk = f.disk
           /\ FsWrite(f, n).closed = f.closed /\ FsWrite(f, n).failed = f.failed
           /\ n \in f.open => /\ FsWrite(f, n).bad = f.bad
                              /\ FsWrite(f, n).buf = [f.buf EXCEPT ![n] = @ + 1]
           /\ n \notin f.open => FsWrite(f, n).bad # {} /\ FsWrite(f, n).buf = f.buf
BY DEF FsType, FsWrite, Misuse, Misuses

(* Removing, creating and opening.                                         *)
LEMMA FsNamesIs ==
    ASSUME NEW f \in FsType
    PROVE  /\ \A ns : /\ FsUnlink(f, ns) \in FsType
                      /\ FsUnlink(f, ns).exists = f.exists \ ns
                      /\ FsUnlink(f, ns).open = f.open /\ FsUnlink(f, ns).bad = f.bad
                      /\ FsUnlink(f, ns).disk = f.disk /\ FsUnlink(f, ns).buf = f.buf
                      /\ FsUnlink(f, ns).closed = f.closed /\ FsUnlink(f, ns).failed = f.failed
           /\ \A n \in Names :
                  /\ FsCreate(f, n) \in FsType
                  /\ FsCreate(f, n).exists = f.exists \cup {n}
                  /\ FsCreate(f, n).open = f.open /\ FsCreate(f, n).bad = f.bad
                  /\ FsCreate(f, n).disk = f.disk /\ FsCreate(f, n).buf = f.buf
                  /\ FsCreate(f, n).closed = f.closed /\ FsCreate(f, n).failed = f.failed
                  /\ FsOpen(f, n) \in FsType
                  /\ FsOpen(f, n).open = f.open \cup {n}
                  /\ FsOpen(f, n).exists = f.exists /\ FsOpen(f, n).bad = f.bad
                  /\ FsOpen(f, n).disk = f.disk /\ FsOpen(f, n).buf = f.buf
                  /\ FsOpen(f, n).closed = f.closed /\ FsOpen(f, n).failed = f.failed
BY DEF FsType, FsUnlink, FsCreate, FsOpen

(***************************************************************************)
(* The types, and the slot of the current file.                            *)
(***************************************************************************)
RingTypes ==
    /\ files = NoFiles \/ files \in [0..Slots-1 -> Names \cup {0}]
    /\ curr \in 0..MaxFiles-1
    /\ fd \in Names \cup {0} /\ rpdh \in Names \cup {0}
    /\ nameH \in {"null", "open", "closed"}
    /\ heap \subseteq Names
    /\ printed \in Seq(Names)

GzTypes ==
    /\ thread \in [Names -> {"none", "begin", "copy", "unlink", "cleanup", "ended"}]
    /\ gz \in [Names -> Nat \cup {None, Torn}]
    /\ oldnames \in SUBSET Names /\ Cardinality(oldnames) <= MAX_FILENAME_QUEUE

LoopTypes ==
    /\ pc \in PCs /\ ret \in {"loop", "update", "interval"}
    /\ go \in BOOLEAN /\ err \in BOOLEAN
    /\ pdh \in Names \cup {0} /\ saveFile \in Names \cup {CmdLine, Null}
    /\ captured \in Nat /\ inFile \in Nat /\ fileCount \in Nat
    /\ inpkts \in Nat
    /\ parent \in Names \cup {0}
    /\ told \in [Names -> Nat] /\ wrote \in [Names -> Nat]

(* Where the ring is there, and its current slot has the current file.     *)
RingPCs == PCs \ {"open", "printname", "cleanup", "error", "exit", "end"}

RingHere == files \in [0..Slots-1 -> Names \cup {0}]

RingInv ==
    /\ pc \in RingPCs => /\ RingHere /\ saveFile \in Names
                         /\ pc # "rbopen" => CurrentName = curr + 1
    /\ pc = "printname" /\ files # NoFiles =>
          RingHere /\ CurrentName = curr + 1 /\ fd = curr + 1
    /\ pc \in {"fdopen", "rbfdopen"} => fd = curr + 1
    /\ pc \in {"switch", "rbclose"} => FilesLeft
    /\ pc \in {"open", "printname"} => curr = 0
    /\ pc = "open" => files = NoFiles

Typing == opts \in Options /\ fs \in FsType /\ RingTypes /\ GzTypes /\ LoopTypes /\ RingInv

(* The types proved here are those that the run checks.                    *)
LEMMA TypingIsTypeOK == Typing => TypeOK
BY DEF Typing, TypeOK, RingTypes, GzTypes, LoopTypes, FsType, Misuses

(* Every number has a slot, and 0 the first.                               *)
LEMMA SlotOfCurr ==
    ASSUME NEW n \in Nat, NEW k \in Nat \ {0}
    PROVE  n % k \in 0..k-1 /\ 0 % k = 0
OBVIOUS

(* The files that could not be removed: those tried again without success  *)
(* stay, and the new one joins them if there is room.                      *)
LEMMA CleanupIs ==
    ASSUME NEW f \in FsType, NEW name, GzTypes, CleanupOldCap(f, name)
    PROVE  \E left \in SUBSET oldnames :
              /\ fs' = FsUnlink(f, oldnames \ left) /\ fs' \in FsType
              /\ oldnames' = IF name \in fs'.exists /\ Cardinality(left) < MAX_FILENAME_QUEUE
                               THEN left \cup {name} ELSE left
              /\ oldnames' \in SUBSET Names /\ Cardinality(oldnames') <= MAX_FILENAME_QUEUE
              /\ "unlink" \notin opts.failures => left = {}
<1>1. PICK left \in SUBSET oldnames :
          /\ fs' = FsUnlink(f, oldnames \ left)
          /\ oldnames' = IF name \in fs'.exists /\ Cardinality(left) < MAX_FILENAME_QUEUE
                           THEN left \cup {name} ELSE left
          /\ "unlink" \notin opts.failures => left = {}
  BY DEF CleanupOldCap
<1>2. fs' \in FsType
  BY <1>1, FsNamesIs
<1>3. oldnames' \in SUBSET Names
  <2>1. fs'.exists \subseteq Names
    BY <1>2 DEF FsType
  <2> QED BY <1>1, <2>1 DEF GzTypes
<1>4. IsFiniteSet(oldnames) /\ IsFiniteSet(left)
  <2>1. IsFiniteSet(Names)
    BY MaxFilesAssumption, FS_Interval DEF Names
  <2> QED
    BY <2>1, FS_Subset DEF GzTypes
<1>5. /\ Cardinality(left) \in Nat /\ Cardinality(left) <= Cardinality(oldnames)
      /\ Cardinality(oldnames) \in Nat
  BY <1>4, FS_Subset, FS_CardinalityType
<1>6. Cardinality(left \cup {name}) \in Nat /\ Cardinality(left \cup {name}) <= Cardinality(left) + 1
  BY <1>4, <1>5, FS_AddElement
<1>7. Cardinality(oldnames') <= MAX_FILENAME_QUEUE
  BY <1>1, <1>5, <1>6, MaxFilesAssumption DEF GzTypes
<1> QED
  BY <1>1, <1>2, <1>3, <1>7

(* The types hold at the start.                                            *)
LEMMA InitTyping == Init => Typing
<1> SUFFICES ASSUME Init PROVE Typing
  OBVIOUS
<1>1. fs \in FsType
  BY DEF Init, RbInit, FsInit, FsType
<1>2. opts \in Options /\ RingTypes
  BY MaxFilesAssumption DEF Init, RbInit, RingTypes, Names, NoFiles
<1>3. GzTypes
  <2>1. Cardinality({}) = 0
    BY FS_EmptySet
  <2> QED
    BY <2>1, MaxFilesAssumption DEF Init, RbInit, GzTypes
<1>4. LoopTypes /\ RingInv
  BY DEF Init, RbInit, LoopTypes, RingInv, PCs, RingPCs, NoFiles
<1> QED
  BY <1>1, <1>2, <1>3, <1>4 DEF Typing

(* A step of the start of the capture keeps the types.                     *)
LEMMA StartTyping ==
    ASSUME Typing, UNCHANGED opts,
           OpenFirst \/ PrintNameTo \/ FirstFdopen \/ FirstHeader \/ Start
    PROVE  Typing'
<1> USE DEF Typing, LoopTypes, loopvars, msgs, gzvars, rbvars
<1>0. Slots \in Nat \ {0} /\ Slots' = Slots /\ opts' \in Options
  BY OptionTypes DEF Slots, Unlimited
<1>1. CASE OpenFirst
  <2>1. PICK ok \in BOOLEAN : InitRing(ok)
    BY <1>1 DEF OpenFirst, Outcomes
  <2>2. GzTypes'
    BY <2>1 DEF InitRing, GzTypes
  <2>3. fs' \in FsType
    <3>1. FsCreate(fs, 1) \in FsType
      <4>1. 1 \in Names
        BY MaxFilesAssumption DEF Names
      <4> QED BY <4>1, FsNamesIs
    <3> QED
      BY <2>1, <3>1 DEF InitRing
  <2>4. RingTypes'
    <3>1. CASE ok
      <4>1. 1 \in Names
        BY MaxFilesAssumption DEF Names
      <4>2. files' \in [0..Slots-1 -> Names \cup {0}] /\ heap' \subseteq Names /\ fd' \in Names
        BY <1>0, <2>1, <3>1, <4>1 DEF InitRing
      <4> QED
        BY <1>0, <2>1, <4>2 DEF InitRing, RingTypes
    <3>2. CASE ~ok
      BY <1>0, <2>1, <3>2 DEF InitRing, RingTypes
    <3> QED BY <3>1, <3>2
  <2>5. curr = 0 /\ pc = "open" /\ pc' = "printname"
    BY <1>1 DEF OpenFirst, RingInv
  <2>6. RingInv'
    <3>1. CASE ok
      <4>1. /\ files' = [i \in 0..Slots-1 |-> IF i = 0 THEN 1 ELSE 0] /\ fd' = 1 /\ curr' = 0
        BY <2>1, <2>5, <3>1 DEF InitRing
      <4>2. 0 % Slots = 0 /\ 0 \in 0..Slots-1
        BY <1>0, SlotOfCurr
      <4>3. CurrentName' = 1 /\ RingHere'
        BY <1>0, <4>1, <4>2, MaxFilesAssumption DEF CurrentName, RingHere, Names
      <4> QED
        BY <2>5, <4>1, <4>3 DEF RingInv, RingPCs
    <3>2. CASE ~ok
      <4>1. files' = files /\ curr' = 0
        BY <2>1, <2>5, <3>2 DEF InitRing
      <4> QED
        BY <2>5, <4>1 DEF RingInv, RingPCs
    <3> QED BY <3>1, <3>2
  <2>7. LoopTypes'
    BY <1>1, <2>5 DEF OpenFirst, PCs
  <2> QED BY <1>0, <2>2, <2>3, <2>4, <2>6, <2>7
<1>2. CASE PrintNameTo
  <2>1. PICK ok \in BOOLEAN :
            /\ IF opts.printname THEN SetPrintName(ok) ELSE UNCHANGED rbvars
            /\ IF (opts.printname /\ ~ok) \/ files = NoFiles
                 THEN pc' = "cleanup" /\ UNCHANGED saveFile
                 ELSE pc' = "fdopen" /\ saveFile' = CurrentName
    BY <1>2 DEF PrintNameTo, Outcomes
  <2>2. /\ UNCHANGED <<files, curr, fd, rpdh, heap, fs, printed, gzvars>>
        /\ nameH' \in {"null", "open", "closed"}
    BY <2>1 DEF SetPrintName, RingTypes
  <2>3. pc = "printname" /\ UNCHANGED <<ret, go, err, pdh, fileCount, loopvars, msgs>>
    BY <1>2 DEF PrintNameTo
  <2>4. RingTypes' /\ GzTypes'
    BY <1>0, <2>2 DEF RingTypes, GzTypes
  <2>5. RingHere' <=> RingHere
    BY <1>0, <2>2 DEF RingHere
  <2>6. CurrentName' = CurrentName
    BY <1>0, <2>2 DEF CurrentName
  <2>7. CASE (opts.printname /\ ~ok) \/ files = NoFiles
    BY <1>0, <2>1, <2>2, <2>3, <2>4, <2>7 DEF RingInv, RingPCs, PCs
  <2>8. CASE ~((opts.printname /\ ~ok) \/ files = NoFiles)
    <3>1. RingHere /\ CurrentName = curr + 1 /\ fd = curr + 1 /\ curr + 1 \in Names
      BY <2>3, <2>8 DEF RingInv, RingTypes
    <3>2. pc' = "fdopen" /\ saveFile' = CurrentName
      BY <2>1, <2>8
    <3>3. RingInv'
      BY <2>2, <2>5, <2>6, <3>1, <3>2 DEF RingInv, Names
    <3>4. LoopTypes'
      BY <2>3, <3>1, <3>2 DEF PCs
    <3> QED BY <1>0, <2>2, <2>4, <3>3, <3>4
  <2> QED BY <2>7, <2>8
<1>3. CASE FirstFdopen
  <2>1. PICK ok \in BOOLEAN :
            /\ Fdopen(ok)
            /\ pdh' = IF ok THEN fd ELSE 0
            /\ pc' = IF ok THEN "firstheader" ELSE "error"
    BY <1>3 DEF FirstFdopen, Outcomes
  <2>2. pc = "fdopen" /\ UNCHANGED <<ret, go, err, saveFile, fileCount, loopvars, msgs>>
    BY <1>3 DEF FirstFdopen
  <2>3. fd = curr + 1 /\ fd \in Names /\ RingHere /\ CurrentName = curr + 1
    BY <2>2 DEF RingInv, RingTypes, RingPCs, PCs, Names
  <2>4. fs' \in FsType /\ UNCHANGED <<files, curr, fd, nameH, heap, printed, gzvars>> /\ rpdh' \in Names \cup {0}
    BY <2>1, <2>3, FsNamesIs, FsFailIs DEF Fdopen
  <2>5. RingTypes' /\ GzTypes' /\ (RingHere' <=> RingHere) /\ CurrentName' = CurrentName
    BY <1>0, <2>4 DEF RingTypes, GzTypes, RingHere, CurrentName
  <2>6. RingInv' /\ LoopTypes'
    BY <2>1, <2>2, <2>3, <2>4, <2>5 DEF RingInv, RingPCs, PCs
  <2> QED BY <1>0, <2>4, <2>5, <2>6
<1>4. CASE FirstHeader \/ Start
  <2>1. UNCHANGED <<files, curr, fd, rpdh, nameH, heap, printed, gzvars>>
    BY <1>4 DEF FirstHeader, Start, Flush
  <2>2. fs' \in FsType
    <3>1. FsClose(fs, pdh, TRUE) \in FsType /\ \A ok \in BOOLEAN : FsFlush(fs, pdh, ok) \in FsType
      BY CloseFrame, FlushFrame
    <3> QED
      BY <1>4, <3>1 DEF FirstHeader, Start, Flush, Outcomes
  <2>3. RingTypes' /\ GzTypes' /\ (RingHere' <=> RingHere) /\ CurrentName' = CurrentName
    BY <1>0, <2>1 DEF RingTypes, GzTypes, RingHere, CurrentName
  <2>4. pc \in {"firstheader", "start"} /\ pc' \in {"start", "error", "loop"} /\ pdh' \in {pdh, 0}
        /\ UNCHANGED <<ret, go, err, saveFile, fileCount, loopvars, told>>
    BY <1>4 DEF FirstHeader, Start
  <2>5. parent' \in Names \cup {0}
    <3>1. CASE FirstHeader
      BY <3>1 DEF FirstHeader
    <3>2. CASE Start
      BY <3>2 DEF Start, RingInv, RingPCs, PCs
    <3> QED BY <1>4, <3>1, <3>2
  <2>6. RingInv' /\ LoopTypes'
    BY <2>1, <2>3, <2>4, <2>5 DEF RingInv, RingPCs, PCs
  <2> QED BY <1>0, <2>2, <2>3, <2>6
<1> QED
  BY <1>1, <1>2, <1>3, <1>4

(* Counting k more packets for a file.                                     *)
LEMMA Added ==
    ASSUME NEW f \in [Names -> Nat], NEW n, NEW k \in Nat
    PROVE  /\ [f EXCEPT ![n] = @ + k] \in [Names -> Nat]
           /\ \A m \in Names :
                  [f EXCEPT ![n] = @ + k][m] = f[m] + (IF m = n THEN k ELSE 0)
<1>1. \A m \in Names : [f EXCEPT ![n] = @ + k][m] = IF m = n THEN f[m] + k ELSE f[m]
  OBVIOUS
<1>2. \A m \in Names : [f EXCEPT ![n] = @ + k][m] \in Nat
  BY <1>1
<1>3. \A m \in Names : f[m] \in Nat /\ f[m] + 0 = f[m]
  OBVIOUS
<1> QED BY <1>1, <1>2, <1>3

(* A step of the loop that leaves the ring alone.                          *)
LEMMA LoopTyping ==
    ASSUME Typing, UNCHANGED opts,
           \/ LoopTest \/ NoPacket \/ WriteError \/ NoUpdate \/ Interval
           \/ SwitchOrStop \/ FinalCount \/ Signal \/ Ended \/ UNCHANGED vars
    PROVE  Typing'
<1> USE DEF Typing, loopvars, msgs, gzvars, rbvars
<1>0. Slots' = Slots /\ opts' \in Options /\ (Unlimited' <=> Unlimited)
  BY DEF Slots, Unlimited
<1>1. UNCHANGED <<files, curr, fd, rpdh, nameH, heap, printed, thread, gz, oldnames>>
  BY DEF LoopTest, NoPacket, WriteError, NoUpdate, Interval, SwitchOrStop, FinalCount,
         Signal, Ended, vars
<1>1a. fs' \in FsType
  <2>1. CASE WriteError
    BY <2>1, WriteErrorIs
  <2>2. CASE ~WriteError
    <3>1. UNCHANGED fs
      BY <2>2 DEF LoopTest, NoPacket, NoUpdate, Interval, SwitchOrStop, FinalCount, Signal, Ended, vars
    <3> QED BY <3>1
  <2> QED BY <2>1, <2>2
<1>2. RingTypes' /\ GzTypes' /\ fs' \in FsType /\ (RingHere' <=> RingHere)
      /\ CurrentName' = CurrentName
  BY <1>0, <1>1, <1>1a DEF RingTypes, GzTypes, RingHere, CurrentName
<1>3. CASE FinalCount
  <2>1. told' \in [Names -> Nat] /\ inpkts' = 0 /\ parent' = parent
    BY <1>3 DEF FinalCount, Count, LoopTypes
  <2>2. LoopTypes' /\ RingInv'
    BY <1>0, <1>1, <1>2, <1>3, <2>1 DEF FinalCount, Count, LoopTypes, RingInv, RingPCs, PCs
  <2> QED BY <1>0, <1>2, <2>2
<1>4. CASE ~FinalCount
  <2>1. UNCHANGED <<err, pdh, saveFile, captured, inFile, inpkts, wrote, parent, told>> \/ WriteError
    BY <1>4 DEF LoopTest, NoPacket, NoUpdate, Interval, SwitchOrStop, Signal, Ended, vars
  <2>2. UNCHANGED <<pdh, saveFile, captured, inFile, inpkts, wrote, parent, told>> /\ err' \in BOOLEAN
    BY <2>1 DEF WriteError, LoopTypes
  <2>3. fileCount' \in Nat /\ ret' \in {"loop", "update", "interval"} /\ go' \in BOOLEAN
    <3>1. UNCHANGED fileCount \/ fileCount' = fileCount + 1
      BY <1>4 DEF LoopTest, NoPacket, WriteError, NoUpdate, Interval, SwitchOrStop, Signal, Ended, vars
    <3>2. UNCHANGED ret \/ ret' = "loop"
      BY <1>4 DEF LoopTest, NoPacket, WriteError, NoUpdate, Interval, SwitchOrStop, Signal, Ended, vars
    <3>3. UNCHANGED go \/ go' = FALSE
      BY <1>4 DEF LoopTest, NoPacket, WriteError, NoUpdate, Interval, SwitchOrStop, Signal, Ended, vars
    <3>4. fileCount \in Nat /\ ret \in {"loop", "update", "interval"} /\ go \in BOOLEAN
      BY DEF LoopTypes
    <3> HIDE DEF Typing
    <3>5. go' \in BOOLEAN
      BY <3>3, <3>4
    <3>6. fileCount' \in Nat
      BY <3>1, <3>4
    <3> QED BY <3>2, <3>4, <3>5, <3>6
  <2>4. \/ pc' = pc
        \/ /\ pc \in {"loop", "dispatch", "update", "interval", "switch"}
           /\ pc' \in {"dispatch", "report", "update", "loop", "switch", "rbclose"}
           /\ pc' = "switch" => FilesLeft
           /\ pc' = "rbclose" => pc = "switch"
    BY <1>4 DEF LoopTest, NoPacket, WriteError, NoUpdate, Interval, SwitchOrStop, Signal, Ended,
       vars, LoopTypes, StopAt
  <2>5. LoopTypes'
    BY <2>2, <2>3, <2>4 DEF LoopTypes, PCs
  <2>6. RingInv'
    BY <1>1, <1>2, <2>2, <2>4 DEF RingInv, RingPCs, PCs, FilesLeft
  <2> QED BY <1>0, <1>2, <2>5, <2>6
<1> QED BY <1>3, <1>4

(* A step of the loop that writes to the current stream or flushes it.     *)
LEMMA StreamTyping ==
    ASSUME Typing, UNCHANGED opts,
           WritePacket \/ Update \/ Announce \/ ReportError \/ WriteHeader
    PROVE  Typing'
<1> USE DEF Typing, loopvars, msgs, gzvars, rbvars, Flush
<1>0. Slots' = Slots /\ opts' \in Options /\ (Unlimited' <=> Unlimited)
  BY DEF Slots, Unlimited
<1>1. UNCHANGED <<files, curr, fd, rpdh, nameH, heap, printed, thread, gz, oldnames>>
  BY DEF WritePacket, Update, Announce, ReportError, WriteHeader
<1>2. RingTypes' /\ GzTypes' /\ (RingHere' <=> RingHere) /\ CurrentName' = CurrentName
  BY <1>0, <1>1 DEF RingTypes, GzTypes, RingHere, CurrentName
<1>3. fs' \in FsType
  <2>0. pdh \in Names \cup {0}
    BY DEF LoopTypes
  <2>1. FsWrite(fs, pdh) \in FsType /\ FsClose(fs, pdh, TRUE) \in FsType
    BY <2>0, FsWriteIs, CloseFrame
  <2>2. \A ok \in BOOLEAN : FsFlush(fs, pdh, ok) \in FsType /\ FsFlush(FsWrite(fs, pdh), pdh, ok) \in FsType
    BY <2>0, <2>1, FlushFrame
  <2>3. Misuse(fs, "name") \in FsType
    BY MisuseIs DEF Misuses
  <2> QED
    BY <2>1, <2>2, <2>3 DEF WritePacket, Update, Announce, ReportError, WriteHeader, Outcomes
<1>4. CASE WritePacket
  <2>1. wrote' \in [Names -> Nat]
    <3>1. wrote' = [wrote EXCEPT ![pdh] = @ + 1] /\ wrote \in [Names -> Nat]
      BY <1>4 DEF WritePacket, LoopTypes
    <3> HIDE DEF Typing
    <3> QED BY <3>1, Added
  <2>2. /\ captured' = captured + 1 /\ inFile' = inFile + 1 /\ inpkts' = inpkts + 1
        /\ go' \in BOOLEAN /\ ret' \in {ret, "update"} /\ pc' \in {"update", "switch"}
        /\ UNCHANGED <<err, pdh, saveFile, fileCount, parent, told>>
    BY <1>4 DEF WritePacket, LoopTypes
  <2>2a. LoopTypes'
    BY <2>1, <2>2 DEF LoopTypes, PCs
  <2>3. RingInv'
    BY <1>1, <1>2, <1>4 DEF WritePacket, RingInv, RingPCs, PCs, FilesLeft
  <2> QED BY <1>0, <1>2, <1>3, <2>2a, <2>3
<1>5. CASE Update
  <2>1. told' \in [Names -> Nat]
    BY <1>5 DEF Update, Count, LoopTypes
  <2>2. LoopTypes'
    BY <1>5, <2>1 DEF Update, Count, LoopTypes, PCs
  <2>3. RingInv'
    BY <1>1, <1>2, <1>5 DEF Update, Count, RingInv, RingPCs, PCs, FilesLeft
  <2> QED BY <1>0, <1>2, <1>3, <2>2, <2>3
<1>6. CASE Announce
  <2>1. told' \in [Names -> Nat] /\ parent' \in Names
    <3>1. told' = [told EXCEPT ![parent] = @ + inpkts] /\ parent' = saveFile /\ pc = "announce"
      BY <1>6 DEF Announce
    <3>2. told \in [Names -> Nat] /\ inpkts \in Nat
      BY DEF LoopTypes
    <3>3. saveFile \in Names
      BY <3>1 DEF RingInv, RingPCs, PCs
    <3> HIDE DEF Typing
    <3> QED BY <3>1, <3>2, <3>3, Added
  <2>2. LoopTypes'
    BY <1>6, <2>1 DEF Announce, LoopTypes, PCs
  <2>3. RingInv'
    BY <1>1, <1>2, <1>6 DEF Announce, LoopTypes, RingInv, RingPCs, PCs, FilesLeft
  <2> QED BY <1>0, <1>2, <1>3, <2>2, <2>3
<1>7. CASE ReportError \/ WriteHeader
  <2>1. /\ pc \in {"report", "header"} /\ pc' \in {"close", "announce", "loop", "update"}
        /\ UNCHANGED <<ret, saveFile, fileCount, captured, inFile, inpkts, wrote, parent, told>>
        /\ pdh' \in {pdh, 0} /\ go' \in BOOLEAN /\ err' \in BOOLEAN
    BY <1>7 DEF ReportError, WriteHeader, Continue, StopAt, LoopTypes, Outcomes
  <2>2. LoopTypes'
    BY <2>1 DEF LoopTypes, PCs
  <2>3. RingInv'
    BY <1>1, <1>2, <2>1 DEF RingInv, RingPCs, PCs
  <2> QED BY <1>0, <1>2, <1>3, <2>2, <2>3
<1> QED BY <1>4, <1>5, <1>6, <1>7

(* A step that closes the current file or opens the next.                  *)
LEMMA SwitchTyping ==
    ASSUME Typing, UNCHANGED opts,
           CloseCurrent \/ CloseOutput \/ OpenNext \/ FdopenNext
    PROVE  Typing'
<1> USE DEF Typing, loopvars, msgs, gzvars, rbvars
<1>0. /\ Slots \in Nat \ {0} /\ Slots' = Slots /\ opts' \in Options
      /\ Unlimited' = Unlimited
  BY OptionTypes DEF Slots, Unlimited
<1>1. fd \in Names \cup {0} /\ rpdh \in Names \cup {0}
  BY DEF RingTypes
<1>2. curr % Slots \in 0..Slots-1
  BY <1>0, SlotOfCurr DEF RingTypes
<1>3. CASE CloseCurrent
  <2>1. PICK ok \in BOOLEAN : SwitchClose(ok) /\ Continue(ok, "rbopen")
    BY <1>3 DEF CloseCurrent, Outcomes
  <2>2. /\ pc = "rbclose" /\ FilesLeft /\ RingHere /\ CurrentName = curr + 1
        /\ UNCHANGED <<ret, pdh, saveFile, fileCount, captured, inFile, inpkts, wrote, parent, told>>
    BY <1>3 DEF CloseCurrent, RingInv, RingPCs, PCs
  <2>3. fs' \in FsType
    BY <1>1, <2>1, CloseFrame DEF SwitchClose
  <2>4. curr + 1 \in Names /\ printed \in Seq(Names) /\ curr + 1 \in 0..MaxFiles-1
    BY <2>2, MaxFilesAssumption DEF FilesLeft, RingTypes, Names
  <2>5. printed' \in Seq(Names)
    BY <2>1, <2>2, <2>4 DEF SwitchClose, PrintName
  <2>6. RingTypes' /\ GzTypes' /\ RingHere'
    BY <1>0, <2>1, <2>2, <2>4, <2>5 DEF SwitchClose, RingTypes, GzTypes, RingHere
  <2>7. LoopTypes' /\ pc' \in {"rbopen", "loop", "update"} /\ (pc' = "rbopen" <=> ok)
    BY <2>1, <2>2 DEF LoopTypes, Continue, StopAt, PCs
  <2>8. ~ok => CurrentName' = CurrentName /\ curr' = curr
    BY <1>0, <2>1 DEF SwitchClose, CurrentName
  <2>9. RingInv'
    BY <2>2, <2>6, <2>7, <2>8 DEF RingInv, RingPCs, PCs
  <2> QED BY <1>0, <2>3, <2>6, <2>7, <2>9
<1>4. CASE CloseOutput
  <2>1. PICK ok \in BOOLEAN : DumpClose(ok)
    BY <1>4 DEF CloseOutput, Outcomes
  <2>2. /\ pc = "close" /\ pc' = "count" /\ RingHere /\ CurrentName = curr + 1
        /\ saveFile' = CurrentName
        /\ UNCHANGED <<ret, go, err, pdh, fileCount, captured, inFile, inpkts, wrote, parent, told>>
    BY <1>4 DEF CloseOutput, RingInv, RingPCs, PCs
  <2>3. fs' \in FsType
    <3>1. FsClose(fs, rpdh, ok) \in FsType
      BY <1>1, CloseFrame
    <3>2. \A f \in FsType : Misuse(f, "name_h") \in FsType
      BY MisuseIs DEF Misuses
    <3> QED BY <2>1, <3>1, <3>2 DEF DumpClose
  <2>4. CurrentName \in Names /\ printed \in Seq(Names)
    <3>1. curr \in 0..MaxFiles-1 /\ printed \in Seq(Names)
      BY DEF RingTypes
    <3> QED BY <2>2, <3>1, MaxFilesAssumption DEF Names
  <2>5. printed' \in Seq(Names)
    BY <2>1, <2>4 DEF DumpClose, PrintName
  <2>6. RingTypes' /\ GzTypes' /\ RingHere' /\ CurrentName' = CurrentName /\ curr' = curr
    BY <1>0, <2>1, <2>2, <2>5 DEF DumpClose, RingTypes, GzTypes, RingHere, CurrentName
  <2>7. LoopTypes' /\ RingInv'
    BY <2>2, <2>4, <2>6 DEF LoopTypes, RingInv, RingPCs, PCs
  <2> QED BY <1>0, <2>3, <2>6, <2>7
<1>5. CASE OpenNext
  <2>1. PICK ok \in BOOLEAN : SwitchOpen(ok) /\ Continue(ok, "rbfdopen")
    BY <1>5 DEF OpenNext, Outcomes
  <2>2. /\ pc = "rbopen" /\ RingHere /\ saveFile \in Names
        /\ UNCHANGED <<ret, pdh, saveFile, fileCount, captured, inFile, inpkts, wrote, parent, told>>
    BY <1>5 DEF OpenNext, RingInv, RingPCs, PCs
  <2>3. Newname \in Names /\ Newname = curr + 1
    BY MaxFilesAssumption DEF Newname, RingTypes, Names
  <2>4. fs' \in FsType
    <3>1. FsUnlink(fs, {files[curr % Slots]}) \in FsType
      BY FsNamesIs
    <3>2. \A f \in FsType : FsCreate(f, Newname) \in FsType /\ FsFail(f, {Newname}) \in FsType
      BY <2>3, FsNamesIs, FsFailIs
    <3> QED BY <2>1, <3>1, <3>2 DEF SwitchOpen, OpenFile
  <2>5. /\ files' = [files EXCEPT ![curr % Slots] = Newname] /\ curr' = curr
        /\ RingHere' /\ heap' \subseteq Names /\ fd' = IF ok THEN Newname ELSE 0
    BY <1>0, <1>2, <2>1, <2>2, <2>3 DEF SwitchOpen, OpenFile, RingHere, RingTypes
  <2>6. CurrentName' = curr + 1
    BY <1>0, <1>2, <2>2, <2>3, <2>5 DEF CurrentName, RingHere
  <2>7. RingTypes' /\ GzTypes'
    <3>1. thread' \in [Names -> {"none", "begin", "copy", "unlink", "cleanup", "ended"}]
      BY <2>1 DEF SwitchOpen, OpenFile, StartCompress, GzTypes
    <3> QED BY <2>1, <2>3, <2>5, <3>1 DEF SwitchOpen, RingTypes, GzTypes, RingHere
  <2>8. LoopTypes' /\ pc' \in {"rbfdopen", "loop", "update"} /\ (pc' = "rbfdopen" <=> ok)
    BY <2>1, <2>2 DEF LoopTypes, Continue, StopAt, PCs
  <2>9. RingInv'
    BY <2>2, <2>3, <2>5, <2>6, <2>8 DEF RingInv, RingPCs, PCs
  <2> QED BY <1>0, <2>4, <2>7, <2>8, <2>9
<1>6. CASE FdopenNext
  <2>1. PICK ok \in BOOLEAN : Fdopen(ok) /\ Continue(ok, "header") /\ NewFile(ok)
    BY <1>6 DEF FdopenNext, Outcomes
  <2>2. /\ pc = "rbfdopen" /\ RingHere /\ saveFile \in Names /\ CurrentName = curr + 1 /\ fd = curr + 1
        /\ UNCHANGED <<ret, fileCount, captured, inpkts, wrote, parent, told>>
    BY <1>6 DEF FdopenNext, RingInv, RingPCs, PCs
  <2>3. fd \in Names
    BY <2>2 DEF RingTypes, Names
  <2>4. fs' \in FsType
    BY <2>1, <2>3, FsNamesIs, FsFailIs DEF Fdopen
  <2>5. RingTypes' /\ GzTypes' /\ RingHere' /\ CurrentName' = CurrentName /\ curr' = curr
    BY <1>0, <1>1, <2>1, <2>2 DEF Fdopen, RingTypes, GzTypes, RingHere, CurrentName
  <2>6. LoopTypes' /\ pc' \in {"header", "loop", "update"} /\ saveFile' \in Names
    BY <2>1, <2>2, <2>3 DEF LoopTypes, Continue, StopAt, PCs, NewFile
  <2>7. RingInv'
    BY <2>2, <2>5, <2>6 DEF RingInv, RingPCs, PCs
  <2> QED BY <1>0, <2>4, <2>5, <2>6, <2>7
<1> QED BY <1>3, <1>4, <1>5, <1>6

(* What the steps of the threads that compress files do to the directory.  *)
LEMMA CompressIs ==
    ASSUME GzTypes, fs \in FsType, Compress
    PROVE  /\ UNCHANGED <<files, curr, fd, rpdh, nameH, heap, printed>>
           /\ fs' \in FsType /\ fs'.bad = fs.bad /\ fs'.open = fs.open
           /\ fs'.disk = fs.disk /\ fs'.buf = fs.buf /\ fs'.exists \subseteq fs.exists
           /\ fs'.closed = fs.closed /\ fs'.failed = fs.failed
           /\ GzTypes'
<1>1. PICK n \in Names : GzOpen(n) \/ GzCopy(n) \/ GzUnlink(n) \/ GzCleanup(n)
  BY DEF Compress
<1>2. UNCHANGED <<files, curr, fd, rpdh, nameH, heap, printed>>
  BY DEF Compress
<1>3. CASE GzOpen(n)
  BY <1>2, <1>3 DEF GzOpen, GzGo, GzTypes, Outcomes
<1>4. CASE GzCopy(n)
  <2>1. fs.disk[n] \in Nat
    BY DEF FsType
  <2>2. gz' \in [Names -> Nat \cup {None, Torn}]
    BY <1>4, <2>1 DEF GzCopy, GzTypes
  <2>3. UNCHANGED <<fs, oldnames>> /\ thread' \in [Names -> {"none", "begin", "copy", "unlink", "cleanup", "ended"}]
    BY <1>4 DEF GzCopy, GzGo, GzTypes
  <2> QED BY <1>2, <2>2, <2>3 DEF GzTypes
<1>5. CASE GzUnlink(n)
  <2>1. thread' \in [Names -> {"none", "begin", "copy", "unlink", "cleanup", "ended"}]
    BY <1>5 DEF GzUnlink, GzGo, GzTypes
  <2>2. fs' = FsUnlink(fs, {n}) \/ fs' = fs
    BY <1>5 DEF GzUnlink
  <2> QED BY <1>2, <1>5, <2>1, <2>2, FsNamesIs DEF GzUnlink, GzTypes
<1>6. CASE GzCleanup(n)
  <2>1. thread' \in [Names -> {"none", "begin", "copy", "unlink", "cleanup", "ended"}]
    BY <1>6 DEF GzCleanup, GzGo, GzTypes
  <2>2. CleanupOldCap(fs, n) /\ UNCHANGED gz
    BY <1>6 DEF GzCleanup
  <2>3. PICK left \in SUBSET oldnames :
            /\ fs' = FsUnlink(fs, oldnames \ left) /\ fs' \in FsType
            /\ oldnames' \in SUBSET Names /\ Cardinality(oldnames') <= MAX_FILENAME_QUEUE
    BY <2>2, CleanupIs
  <2> QED BY <1>2, <2>1, <2>2, <2>3, FsNamesIs DEF GzTypes
<1> QED BY <1>1, <1>3, <1>4, <1>5, <1>6

(* What giving back the ring does to the directory.                        *)
LEMMA GivenBackIs ==
    ASSUME GzTypes, RingTypes, fs \in FsType, ErrorCleanup \/ Free
    PROVE  /\ files' = NoFiles /\ heap' = heap \ NamesInSlots
           /\ UNCHANGED <<curr, printed, thread, gz>>
           /\ fs' \in FsType /\ GzTypes'
           /\ fs'.open \subseteq fs.open
           /\ Keeps(fs, fs')
           /\ \A m \in Names : m \notin fs'.open /\ (m \notin fs.open => fs.buf[m] = 0) => fs'.buf[m] = 0
           /\ Free => /\ UNCHANGED <<rpdh, fd, nameH>> /\ fs'.bad = fs.bad
                      /\ fs'.disk = fs.disk /\ fs'.buf = fs.buf
                      /\ fs'.closed = fs.closed /\ fs'.failed = fs.failed
           /\ ErrorCleanup => /\ rpdh' = 0 /\ fd' = 0
                              /\ nameH' = IF nameH = "null" THEN "null" ELSE "closed"
<1>1. CASE Free
  <2>1. PICK left \in SUBSET oldnames :
            /\ fs' = FsUnlink(fs, oldnames \ left) /\ fs' \in FsType
            /\ oldnames' \in SUBSET Names /\ Cardinality(oldnames') <= MAX_FILENAME_QUEUE
    BY <1>1, CleanupIs DEF Free
  <2>2. /\ fs'.open = fs.open /\ fs'.bad = fs.bad /\ fs'.disk = fs.disk /\ fs'.buf = fs.buf
        /\ fs'.closed = fs.closed /\ fs'.failed = fs.failed
    BY <2>1, FsNamesIs
  <2>3. ~ErrorCleanup \/ (rpdh' = 0 /\ fd' = 0 /\ nameH' = IF nameH = "null" THEN "null" ELSE "closed")
    BY DEF ErrorCleanup
  <2>4. \A m \in Names : fs.disk[m] \in Nat
    BY DEF FsType
  <2>5. /\ Keeps(fs, fs')
        /\ \A m \in Names : m \notin fs'.open /\ (m \notin fs.open => fs.buf[m] = 0) => fs'.buf[m] = 0
    BY <2>2, <2>4 DEF Keeps
  <2> QED BY <1>1, <2>1, <2>2, <2>3, <2>5 DEF Free, GzTypes
<1>2. CASE ErrorCleanup /\ ~Free
  <2>1. PICK f, g : /\ f = IF rpdh # 0 THEN FsClose(fs, rpdh, TRUE) ELSE fs
                    /\ g = IF nameH = "closed" THEN Misuse(f, "name_h") ELSE f
                    /\ CleanupOldCap(FsUnlink(g, NamesInSlots), 0)
    BY <1>2 DEF ErrorCleanup
  <2>0. \A m \in Names : fs.disk[m] \in Nat
    BY DEF FsType
  <2>2. /\ f \in FsType /\ f.open \subseteq fs.open /\ Keeps(fs, f)
        /\ \A m \in Names : m \notin f.open /\ (m \notin fs.open => fs.buf[m] = 0) => f.buf[m] = 0
    <3>1. rpdh \in Names \cup {0} /\ TRUE \in BOOLEAN
      BY DEF RingTypes
    <3>2. /\ FsClose(fs, rpdh, TRUE) \in FsType
          /\ FsClose(fs, rpdh, TRUE).open = fs.open \ {rpdh}
      BY <3>1, CloseFrame
    <3>3. CASE rpdh = 0
      BY <2>0, <2>1, <3>3 DEF Keeps
    <3>4. CASE rpdh # 0 /\ rpdh \in fs.open
      <4>1. /\ FsClose(fs, rpdh, TRUE).open = fs.open \ {rpdh}
            /\ Keeps(fs, FsClose(fs, rpdh, TRUE))
            /\ \A m \in Names :
                  /\ m # rpdh => FsClose(fs, rpdh, TRUE).buf[m] = fs.buf[m]
                  /\ m = rpdh => FsClose(fs, rpdh, TRUE).buf[m] = 0
        BY <3>4, CloseWhole
      <4>2. f = FsClose(fs, rpdh, TRUE)
        BY <2>1, <3>4
      <4> QED BY <3>2, <3>4, <4>1, <4>2
    <3>5. CASE rpdh # 0 /\ rpdh \notin fs.open
      <4>1. f = Misuse(fs, "fclose") /\ "fclose" \in Misuses
        BY <2>1, <3>5 DEF FsClose, Misuses
      <4>2. /\ f.disk = fs.disk /\ f.buf = fs.buf /\ f.open = fs.open /\ f \in FsType
            /\ f.closed = fs.closed /\ f.failed = fs.failed
        BY <4>1, MisuseIs
      <4> QED BY <2>0, <4>2 DEF Keeps
    <3> QED BY <3>3, <3>4, <3>5
  <2>3. /\ g \in FsType /\ g.open = f.open /\ g.disk = f.disk /\ g.buf = f.buf
        /\ g.closed = f.closed /\ g.failed = f.failed
    BY <2>1, <2>2, MisuseIs DEF Misuses
  <2>4. /\ FsUnlink(g, NamesInSlots) \in FsType /\ FsUnlink(g, NamesInSlots).open = g.open
        /\ FsUnlink(g, NamesInSlots).disk = g.disk /\ FsUnlink(g, NamesInSlots).buf = g.buf
        /\ FsUnlink(g, NamesInSlots).closed = g.closed /\ FsUnlink(g, NamesInSlots).failed = g.failed
    BY <2>3, FsNamesIs
  <2>5. PICK left \in SUBSET oldnames :
            /\ fs' = FsUnlink(FsUnlink(g, NamesInSlots), oldnames \ left) /\ fs' \in FsType
            /\ oldnames' \in SUBSET Names /\ Cardinality(oldnames') <= MAX_FILENAME_QUEUE
    BY <2>1, <2>4, CleanupIs
  <2>6. /\ fs'.open = g.open /\ fs'.disk = g.disk /\ fs'.buf = g.buf
        /\ fs'.closed = g.closed /\ fs'.failed = g.failed
    BY <2>4, <2>5, FsNamesIs
  <2>7. /\ fs'.open \subseteq fs.open /\ Keeps(fs, fs')
        /\ \A m \in Names : m \notin fs'.open /\ (m \notin fs.open => fs.buf[m] = 0) => fs'.buf[m] = 0
    BY <2>2, <2>3, <2>6 DEF Keeps
  <2> QED BY <1>2, <2>5, <2>7 DEF ErrorCleanup, GzTypes
<1> QED BY <1>1, <1>2

(* A step of the end of the capture, or of a thread that compresses a file.*)
LEMMA EndTyping ==
    ASSUME Typing, UNCHANGED opts, Cleanup \/ Exit \/ CompressFiles
    PROVE  Typing'
<1> USE DEF Typing, loopvars, msgs, gzvars, rbvars
<1>0. Slots' = Slots /\ opts' \in Options /\ (Unlimited' <=> Unlimited)
  BY DEF Slots, Unlimited
<1>1. CASE CompressFiles
  <2>1. /\ UNCHANGED <<files, curr, fd, rpdh, nameH, heap, printed>>
        /\ fs' \in FsType /\ GzTypes'
    BY <1>1, CompressIs DEF CompressFiles
  <2>2. UNCHANGED <<pc, ret, go, err, pdh, saveFile, fileCount, captured, inFile, inpkts, wrote, parent, told>>
    BY <1>1 DEF CompressFiles
  <2>3. RingTypes' /\ (RingHere' <=> RingHere) /\ CurrentName' = CurrentName /\ LoopTypes'
    BY <1>0, <2>1, <2>2, SMTT(30) DEF RingTypes, RingHere, CurrentName, LoopTypes
  <2>4. RingInv'
    BY <2>1, <2>2, <2>3 DEF RingInv, FilesLeft
  <2> QED BY <1>0, <2>1, <2>3, <2>4
<1>2. CASE Cleanup
  <2>1. /\ files' = NoFiles /\ heap' \subseteq Names /\ UNCHANGED <<curr, printed>>
        /\ fs' \in FsType /\ GzTypes' /\ rpdh' = 0 /\ fd' = 0 /\ nameH' \in {"null", "closed"}
    BY <1>2, GivenBackIs DEF Cleanup, RingTypes
  <2>2. pc' \in {"error", "exit"} /\ UNCHANGED <<ret, go, err, pdh, saveFile, fileCount, captured, inFile, inpkts, wrote, parent, told>>
    BY <1>2 DEF Cleanup
  <2>3. RingTypes'
    BY <1>0, <2>1 DEF RingTypes
  <2>4. LoopTypes' /\ RingInv'
    BY <2>2 DEF LoopTypes, PCs, RingInv, RingPCs
  <2> QED BY <1>0, <2>1, <2>3, <2>4
<1>3. CASE Exit
  <2>1. pc' = "end" /\ saveFile' = Null
        /\ UNCHANGED <<ret, go, err, pdh, fileCount, captured, inFile, inpkts, wrote, parent, told>>
    BY <1>3 DEF Exit
  <2>2. CASE files # NoFiles
    <3>1. Free
      BY <1>3, <2>2 DEF Exit
    <3>2. /\ files' = NoFiles /\ heap' \subseteq Names /\ UNCHANGED <<curr, printed, fd, rpdh, nameH>>
          /\ fs' \in FsType /\ GzTypes'
      BY <3>1, GivenBackIs DEF RingTypes
    <3>3. RingTypes'
      BY <1>0, <3>2 DEF RingTypes
    <3>4. LoopTypes' /\ RingInv'
      BY <2>1 DEF LoopTypes, PCs, RingInv, RingPCs
    <3> QED BY <1>0, <3>2, <3>3, <3>4
  <2>3. CASE files = NoFiles
    <3>1. UNCHANGED <<files, curr, fd, rpdh, nameH, heap, printed, thread, gz, oldnames>>
          /\ (fs' = fs \/ fs' = Misuse(fs, "free"))
      BY <1>3, <2>3 DEF Exit
    <3>2. fs' \in FsType
      BY <3>1, MisuseIs DEF Misuses
    <3>3. RingTypes' /\ GzTypes'
      BY <1>0, <3>1 DEF RingTypes, GzTypes
    <3>4. LoopTypes' /\ RingInv'
      BY <2>1 DEF LoopTypes, PCs, RingInv, RingPCs
    <3> QED BY <1>0, <3>2, <3>3, <3>4
  <2> QED BY <2>2, <2>3
<1> QED BY <1>1, <1>2, <1>3

(* Every step keeps the types.                                             *)
LEMMA NextTyping == Typing /\ [Next]_vars => Typing'
<1> SUFFICES ASSUME Typing, [Next]_vars PROVE Typing'
  OBVIOUS
<1>1. CASE Step /\ UNCHANGED opts
  BY <1>1, StartTyping, LoopTyping, StreamTyping, SwitchTyping, EndTyping DEF Step
<1>2. CASE UNCHANGED vars
  <2>1. UNCHANGED opts
    BY <1>2 DEF vars
  <2> QED BY <1>2, <2>1, LoopTyping
<1> QED BY <1>1, <1>2 DEF Next, Undefined

(* Every variable keeps its type, and the slot of the current file has its *)
(* name whenever the ring is there.                                        *)
THEOREM Types == Spec => []Typing
BY InitTyping, NextTyping, PTL DEF Spec

(***************************************************************************)
(* The streams, the file names and the counts, step by step.               *)
(***************************************************************************)
Starting == {"open", "printname", "fdopen", "firstheader", "start", "cleanup", "error"}
Running  == {"loop", "dispatch", "update", "interval", "switch", "rbclose", "report",
             "close"}

(* The current file is open and everybody means it; or a switch has failed *)
(* and the capture stops, with that file closed or not opened.             *)
InStep == pdh = curr + 1 /\ rpdh = curr + 1 /\ saveFile = curr + 1 /\ parent = curr + 1
          /\ fs.open = {curr + 1}
Settled(n) == n \in fs.closed \cup fs.failed
Broken == err /\ ~go /\ fs.open = {} /\ parent \in {curr, curr + 1} /\ Settled(curr + 1)

StreamInv ==
    /\ pc \in Starting => /\ curr = 0 /\ parent = 0 /\ inpkts = 0 /\ inFile = 0
                          /\ told = [n \in Names |-> 0] /\ wrote = [n \in Names |-> 0]
                          /\ printed = <<>>
    /\ pc \in {"exit", "end"} /\ parent = 0 => printed = <<>> /\ curr = 0
    /\ pc \in {"open", "printname", "fdopen", "cleanup"} => fs.open = {} /\ rpdh = 0
    /\ pc = "fdopen" => saveFile = 1
    /\ pc \in {"firstheader", "start"} =>
          fs.open = {1} /\ pdh = 1 /\ rpdh = 1 /\ saveFile = 1
    /\ pc \in Running => parent # 0 /\ (InStep \/ Broken)
    /\ pc \in {"rbopen", "rbfdopen", "header", "announce"} => curr # 0 /\ parent = curr
    /\ pc \in {"rbopen", "rbfdopen"} => fs.open = {} /\ rpdh = 0
    /\ pc \in {"header", "announce"} =>
          fs.open = {curr + 1} /\ pdh = curr + 1 /\ rpdh = curr + 1 /\ saveFile = curr + 1
    /\ pc = "count" => fs.open = {} /\ parent # 0
    /\ pc \in {"exit", "end"} /\ parent # 0 => fs.open = {}

(* The files opened and the switches made.                                 *)
FilesInv ==
    opts.stopfiles > 0 =>
        /\ curr <= fileCount /\ curr + 1 <= opts.stopfiles
        /\ pc = "rbclose" => curr + 1 <= fileCount /\ fileCount < opts.stopfiles

(* The packets of the current file, and those of the files before it.      *)
OnlyFull == opts.conditions \subseteq {"signal", "duration"}

QuotaInv ==
    /\ \A n \in Names : n > curr + 1 => wrote[n] = 0
    /\ pc \in Running /\ InStep => wrote[curr + 1] = inFile
    /\ pc \in {"rbopen", "rbfdopen", "header", "announce"} => wrote[curr + 1] = 0
    /\ pc \in {"header", "announce"} => inFile = 0
    /\ opts.packets > 0 =>
          /\ inFile <= opts.packets /\ \A n \in Names : wrote[n] <= opts.packets
          /\ pc \in Running /\ pc \notin {"switch", "rbclose"} /\ go => inFile < opts.packets
          /\ OnlyFull => /\ ret # "interval" /\ pc # "interval"
                         /\ pc \in {"switch", "rbclose"} => InStep /\ inFile = opts.packets
                         /\ \A n \in 1..curr : wrote[n] = opts.packets

(* The packets told, those waiting to be told, and those on the disk.      *)
CountInv ==
    /\ parent # 0 => \A n \in Names :
                        told[n] + (IF n = parent THEN inpkts ELSE 0) = wrote[n]
    /\ pc \in {"exit", "end"} /\ parent # 0 => inpkts = 0
    /\ \A n \in Names \ fs.failed : fs.disk[n] + fs.buf[n] = wrote[n] /\ told[n] <= fs.disk[n]
    /\ \A n \in Names : n \notin fs.open => fs.buf[n] = 0

(* The names printed.                                                      *)
PrintInv ==
    /\ \A i \in 1..Len(printed) :
          /\ printed[i] = i /\ i \notin fs.open /\ Settled(i)
          /\ i < Len(printed) \/ (fs.bad = {} /\ i <= curr) => i \in fs.closed
    /\ pc \in {"open", "printname"} => nameH = "null"
    /\ pc \in RingPCs \ {"count"} =>
          /\ nameH = IF opts.printname THEN "open" ELSE "null"
          /\ Len(printed) = IF opts.printname THEN curr ELSE 0
    /\ pc \in {"count", "exit", "end"} /\ parent # 0 =>
          Len(printed) = IF opts.printname THEN curr + 1 ELSE 0

(* Where only writing fails nothing goes wrong but the writing.            *)
OnlyWrites == opts.failures \subseteq {"write", "flush", "gzopen", "gzcopy", "gzclose", "unlink"}

OwnerInv ==
    /\ pc \in RingPCs \ {"rbopen"} => curr + 1 \in heap
    /\ pc = "printname" /\ files # NoFiles => curr + 1 \in heap
    /\ pc = "exit" /\ parent # 0 => files # NoFiles
    /\ "free" \in fs.bad => parent = 0
    /\ OnlyWrites => /\ fs.bad = {} /\ pc \notin {"cleanup", "error"}
                     /\ pc \in Running => InStep
                     /\ pc = "printname" => files # NoFiles
                     /\ pc \in {"exit", "end"} => parent # 0

OutputInv ==
    /\ Typing /\ FilesInv /\ QuotaInv /\ CountInv /\ PrintInv /\ OwnerInv
    /\ fs.bad = {} => StreamInv

(* What the types say of numbers and names.                                *)
LEMMA TypesUsed ==
    ASSUME Typing
    PROVE  /\ curr \in Nat /\ curr + 1 \in Names /\ curr # -1 /\ Names \subseteq Nat \ {0}
           /\ fs \in FsType /\ fs.open \subseteq Names /\ fs.bad \subseteq Misuses
           /\ fs.disk \in [Names -> Nat] /\ fs.buf \in [Names -> Nat]
           /\ told \in [Names -> Nat] /\ wrote \in [Names -> Nat]
           /\ inpkts \in Nat /\ inFile \in Nat /\ fileCount \in Nat
           /\ parent \in Names \cup {0} /\ rpdh \in Names \cup {0} /\ pdh \in Names \cup {0}
           /\ printed \in Seq(Names) /\ pc \in PCs
           /\ opts.packets \in Nat /\ opts.stopfiles \in Nat /\ opts.printname \in BOOLEAN
           /\ go \in BOOLEAN /\ err \in BOOLEAN
<1>1. curr \in Nat /\ curr + 1 \in Names /\ Names \subseteq Nat \ {0}
  BY MaxFilesAssumption DEF Typing, RingTypes, Names
<1>2. /\ fs \in FsType /\ fs.open \subseteq Names /\ fs.bad \subseteq Misuses
      /\ fs.disk \in [Names -> Nat] /\ fs.buf \in [Names -> Nat]
  BY DEF Typing, FsType
<1>3. opts.packets \in Nat /\ opts.stopfiles \in Nat /\ opts.printname \in BOOLEAN
  BY OptionTypes DEF Typing
<1>4. /\ told \in [Names -> Nat] /\ wrote \in [Names -> Nat] /\ pc \in PCs
      /\ inpkts \in Nat /\ inFile \in Nat /\ fileCount \in Nat
      /\ parent \in Names \cup {0} /\ pdh \in Names \cup {0} /\ go \in BOOLEAN /\ err \in BOOLEAN
  BY DEF Typing, LoopTypes
<1>5. rpdh \in Names \cup {0} /\ printed \in Seq(Names)
  BY DEF Typing, RingTypes
<1>6. curr # -1
  BY <1>1
<1> QED BY <1>1, <1>2, <1>3, <1>4, <1>5, <1>6

(* The invariant holds at the start.                                       *)
LEMMA InitOutput == Init => OutputInv
<1> SUFFICES ASSUME Init PROVE OutputInv
  OBVIOUS
<1>1. Typing /\ opts \in Options
  BY InitTyping DEF Typing
<1>2. opts.packets \in Nat /\ opts.stopfiles \in Nat
  BY <1>1, TypesUsed
<1>3. StreamInv
  BY DEF Init, RbInit, FsInit, StreamInv, Starting, Running
<1>4. FilesInv
  BY <1>2 DEF Init, RbInit, FilesInv
<1>5. QuotaInv
  BY <1>1, <1>2, TypesUsed DEF Init, RbInit, QuotaInv, Running
<1>6. CountInv
  BY DEF Init, RbInit, FsInit, CountInv
<1>7. PrintInv
  BY DEF Init, RbInit, PrintInv, RingPCs
<1>8. OwnerInv
  BY DEF Init, RbInit, FsInit, OwnerInv, RingPCs, Running
<1> QED BY <1>1, <1>3, <1>4, <1>5, <1>6, <1>7, <1>8 DEF OutputInv

(* What is told stays true when nothing is told and nothing is lost.       *)
LEMMA CountsKept ==
    ASSUME CountInv, Typing, Typing', UNCHANGED <<opts, told, wrote, parent, inpkts>>,
           pc' \in {"exit", "end"} /\ parent # 0 => pc \in {"exit", "end"},
           Keeps(fs, fs'),
           \A m \in Names : m \notin fs'.open /\ (m \notin fs.open => fs.buf[m] = 0) => fs'.buf[m] = 0
    PROVE  CountInv'
<1>1. \A m \in Names : wrote[m] \in Nat /\ told[m] \in Nat /\ fs.disk[m] \in Nat
                       /\ fs.buf[m] \in Nat /\ fs'.disk[m] \in Nat /\ fs'.buf[m] \in Nat
  BY TypesUsed DEF Typing, FsType
<1>2. ASSUME NEW m \in Names \ fs'.failed
      PROVE  fs'.disk[m] + fs'.buf[m] = wrote'[m] /\ told'[m] <= fs'.disk[m]
  <2>1. m \in Names \ fs.failed
    BY <1>2 DEF Keeps
  <2>2. fs.disk[m] + fs.buf[m] = wrote[m] /\ told[m] <= fs.disk[m]
    BY <2>1 DEF CountInv
  <2>3. fs'.disk[m] + fs'.buf[m] = fs.disk[m] + fs.buf[m] /\ fs'.disk[m] >= fs.disk[m]
    BY <1>2 DEF Keeps
  <2> QED BY <1>1, <1>2, <2>2, <2>3
<1>3. \A m \in Names : m \notin fs'.open => fs'.buf[m] = 0
  BY DEF CountInv
<1> QED BY <1>2, <1>3 DEF CountInv

(* A step of the loop that only decides where to go on.                    *)
LEMMA LoopOutput ==
    ASSUME OutputInv, StreamInv, UNCHANGED opts, Typing',
           \/ LoopTest \/ NoPacket \/ WriteError \/ NoUpdate \/ Interval
           \/ SwitchOrStop \/ Signal \/ Ended \/ UNCHANGED vars
    PROVE  OutputInv'
<1> USE DEF loopvars, msgs, gzvars, rbvars
<1>0. Typing
  BY DEF OutputInv
<1>1. UNCHANGED <<opts, files, curr, fd, rpdh, nameH, heap, printed, pdh, saveFile, parent,
                  told, wrote, inFile, inpkts>>
  BY DEF LoopTest, NoPacket, WriteError, NoUpdate, Interval, SwitchOrStop, Signal, Ended, vars
<1>1a. /\ fs'.open = fs.open /\ fs'.bad = fs.bad /\ fs'.closed = fs.closed /\ Keeps(fs, fs')
       /\ fs.failed \subseteq fs'.failed /\ \A m \in Names : fs'.buf[m] \in {0, fs.buf[m]}
  <2>1. fs \in FsType /\ \A m \in Names : fs.disk[m] \in Nat /\ fs.buf[m] \in Nat
    BY <1>0, TypesUsed
  <2>2. CASE WriteError
    BY <2>1, <2>2, WriteErrorIs DEF Keeps
  <2>3. CASE ~WriteError
    <3>1. fs' = fs
      BY <2>3 DEF LoopTest, NoPacket, NoUpdate, Interval, SwitchOrStop, Signal, Ended, vars
    <3> QED BY <2>1, <3>1 DEF Keeps
  <2> QED BY <2>2, <2>3
<1>2. (err => err') /\ (go' => go)
  BY DEF LoopTest, NoPacket, WriteError, NoUpdate, Interval, SwitchOrStop, Signal, Ended, vars
<1>3. \/ pc' = pc
      \/ /\ pc \in {"loop", "dispatch", "update", "interval", "switch"}
         /\ pc' \in {"dispatch", "report", "update", "loop", "switch", "rbclose"}
         /\ pc' = "switch" => pc = "interval"
         /\ pc' = "rbclose" => SwitchOrStop /\ pc = "switch"
         /\ pc = "switch" /\ pc' # "rbclose" => ~go'
  <2>1. CASE SwitchOrStop
    <3>1. pc = "switch" /\ pc' \in {"rbclose", StopAt} /\ StopAt \in {"loop", "update"}
      BY <1>0, <2>1 DEF SwitchOrStop, StopAt, Typing, LoopTypes
    <3>2. pc' = "rbclose" \/ ~go'
      BY <2>1 DEF SwitchOrStop
    <3> QED BY <2>1, <3>1, <3>2
  <2>2. CASE ~SwitchOrStop
    BY <2>2 DEF LoopTest, NoPacket, WriteError, NoUpdate, Interval, Signal, Ended, vars
  <2> QED BY <2>1, <2>2
<1>4. (UNCHANGED ret \/ ret' = "loop")
  BY DEF LoopTest, NoPacket, WriteError, NoUpdate, Interval, SwitchOrStop, Signal, Ended, vars
<1>5. (InStep' <=> InStep) /\ (Broken => Broken') /\ (OnlyFull' <=> OnlyFull) /\ (OnlyWrites' <=> OnlyWrites)
  BY <1>1, <1>1a, <1>2 DEF InStep, Broken, Settled, OnlyFull, OnlyWrites
<1>6. StreamInv'
  BY <1>1, <1>1a, <1>3, <1>5 DEF StreamInv, Starting, Running
<1>7. FilesInv'
  <2>1. CASE SwitchOrStop
    <3>1. fileCount \in Nat /\ curr \in Nat /\ opts.stopfiles \in Nat
      BY <1>0, TypesUsed
    <3>2. opts.stopfiles > 0 =>
              /\ fileCount' = fileCount + 1
              /\ pc' = "rbclose" => fileCount' < opts.stopfiles
      <4> SUFFICES ASSUME opts.stopfiles > 0
                   PROVE  /\ fileCount' = fileCount + 1
                          /\ pc' = "rbclose" => fileCount' < opts.stopfiles
        OBVIOUS
      <4>1. fileCount' = fileCount + 1
        BY <2>1 DEF SwitchOrStop
      <4>2. CASE NoFilesLeft(fileCount')
        BY <2>1, <4>1, <4>2 DEF SwitchOrStop, StopAt, Typing, LoopTypes, OutputInv
      <4>3. CASE ~NoFilesLeft(fileCount')
        BY <3>1, <4>1, <4>3 DEF NoFilesLeft
      <4> QED BY <4>1, <4>2, <4>3
    <3>3. FilesInv
      BY DEF OutputInv
    <3> QED BY <1>1, <3>1, <3>2, <3>3 DEF FilesInv
  <2>2. CASE ~SwitchOrStop
    <3>1. UNCHANGED fileCount
      BY <2>2 DEF LoopTest, NoPacket, WriteError, NoUpdate, Interval, SwitchOrStop, Signal, Ended, vars
    <3> QED BY <1>1, <1>3, <2>2, <3>1 DEF FilesInv, OutputInv
  <2> QED BY <2>1, <2>2
<1>8. QuotaInv'
  BY <1>1, <1>2, <1>3, <1>4, <1>5 DEF QuotaInv, OutputInv, Running
<1>9. CountInv'
  <2>1. \A m \in Names : m \notin fs'.open /\ (m \notin fs.open => fs.buf[m] = 0) => fs'.buf[m] = 0
    BY <1>1a
  <2> QED BY <1>0, <1>1, <1>1a, <1>3, <2>1, CountsKept DEF OutputInv
<1>10. PrintInv'
  BY <1>1, <1>1a, <1>3 DEF PrintInv, OutputInv, RingPCs, PCs, Settled
<1>11. OwnerInv'
  BY <1>1, <1>1a, <1>3, <1>5 DEF OwnerInv, OutputInv, RingPCs, PCs, Running
<1> QED BY <1>6, <1>7, <1>8, <1>9, <1>10, <1>11 DEF OutputInv

(* A packet goes to the stream of the current file.                        *)
LEMMA WriteOutput ==
    ASSUME OutputInv, StreamInv, UNCHANGED opts, Typing', WritePacket
    PROVE  OutputInv'
<1> USE DEF loopvars, msgs, gzvars, rbvars
<1>0. Typing
  BY DEF OutputInv
<1>1. /\ pc = "dispatch" /\ go /\ pc' \in {"update", "switch"}
      /\ UNCHANGED <<opts, files, curr, fd, rpdh, nameH, heap, printed, pdh, saveFile, parent,
                     told, fileCount, err>>
      /\ captured' = captured + 1 /\ inFile' = inFile + 1 /\ inpkts' = inpkts + 1
      /\ wrote' = [wrote EXCEPT ![pdh] = @ + 1]
      /\ (go' => go)
      /\ (ret' = ret \/ ret' = "update")
  BY DEF WritePacket
<1>2. /\ go' /\ pc' = "update" => ~(opts.packets > 0 /\ inFile' >= opts.packets)
      /\ pc' = "switch" => (opts.packets > 0 /\ inFile' >= opts.packets) \/ "filesize" \in opts.conditions
  BY <1>1 DEF WritePacket
<1>3. InStep /\ pdh = curr + 1 /\ pdh \in Names /\ pdh \in fs.open /\ parent = pdh
  <2>1. InStep
    BY <1>1 DEF StreamInv, Running, Broken
  <2> QED BY <1>0, <2>1, TypesUsed DEF InStep
<1>4. fs' = FsWrite(fs, pdh) \/ \E ok \in BOOLEAN : fs' = FsFlush(FsWrite(fs, pdh), pdh, ok)
  BY DEF WritePacket, Outcomes
<1>5. /\ fs'.open = fs.open /\ fs'.bad = fs.bad /\ fs'.closed = fs.closed
      /\ fs.failed \subseteq fs'.failed
      /\ \A m \in Names :
            /\ m \notin fs'.failed =>
                  fs'.disk[m] + fs'.buf[m] = fs.disk[m] + fs.buf[m] + (IF m = pdh THEN 1 ELSE 0)
            /\ fs'.disk[m] >= fs.disk[m]
            /\ m \notin fs.open => fs'.buf[m] = fs.buf[m]
  <2>1. PICK f : f = FsWrite(fs, pdh)
    OBVIOUS
  <2>2. /\ f \in FsType /\ f.open = fs.open /\ f.bad = fs.bad /\ f.disk = fs.disk
        /\ f.buf = [fs.buf EXCEPT ![pdh] = @ + 1] /\ f.closed = fs.closed /\ f.failed = fs.failed
    BY <1>0, <1>3, <2>1, FsWriteIs, TypesUsed, SMTT(30)
  <2>3. fs.disk \in [Names -> Nat] /\ fs.buf \in [Names -> Nat]
    BY <1>0, TypesUsed
  <2>4. \A m \in Names : /\ f.buf[m] = fs.buf[m] + (IF m = pdh THEN 1 ELSE 0)
                         /\ fs.buf[m] \in Nat /\ fs.disk[m] \in Nat
    BY <2>2, <2>3
  <2>5. CASE fs' = f
    <3>1. \A m \in Names :
              /\ f.disk[m] + f.buf[m] = fs.disk[m] + fs.buf[m] + (IF m = pdh THEN 1 ELSE 0)
              /\ f.disk[m] >= fs.disk[m]
              /\ m \notin fs.open => f.buf[m] = fs.buf[m]
      BY <1>3, <2>2, <2>4
    <3> QED BY <2>2, <2>5, <3>1
  <2>6. ASSUME NEW ok \in BOOLEAN, fs' = FsFlush(f, pdh, ok)
        PROVE  /\ fs'.open = fs.open /\ fs'.bad = fs.bad /\ fs'.closed = fs.closed
               /\ fs.failed \subseteq fs'.failed
               /\ \A m \in Names :
                     /\ m \notin fs'.failed =>
                           fs'.disk[m] + fs'.buf[m] = fs.disk[m] + fs.buf[m] + (IF m = pdh THEN 1 ELSE 0)
                     /\ fs'.disk[m] >= fs.disk[m]
                     /\ m \notin fs.open => fs'.buf[m] = fs.buf[m]
    <3>1. /\ FsFlush(f, pdh, ok).open = f.open /\ FsFlush(f, pdh, ok).bad = f.bad
          /\ FsFlush(f, pdh, ok).closed = f.closed
          /\ Keeps(f, FsFlush(f, pdh, ok))
          /\ \A m \in Names : m \notin f.open => FsFlush(f, pdh, ok).buf[m] = f.buf[m]
      <4>1. pdh \in Names \cup {0} /\ pdh \in f.open \cup {0} /\ f \in FsType
        BY <1>3, <2>2
      <4> QED BY <4>1, FlushKeeps
    <3>2. /\ fs'.open = f.open /\ fs'.bad = f.bad /\ fs'.closed = f.closed
          /\ f.failed \subseteq fs'.failed
          /\ \A m \in Names :
                /\ m \notin fs'.failed => fs'.disk[m] + fs'.buf[m] = f.disk[m] + f.buf[m]
                /\ fs'.disk[m] >= f.disk[m]
                /\ m \notin f.open => fs'.buf[m] = f.buf[m]
      BY <2>6, <3>1 DEF Keeps
    <3> QED BY <1>3, <2>2, <2>4, <3>2
  <2>7. fs' = f \/ \E ok \in BOOLEAN : fs' = FsFlush(f, pdh, ok)
    BY <1>4, <2>1
  <2> QED BY <2>5, <2>6, <2>7
<1>6. (InStep' <=> InStep) /\ (OnlyFull' <=> OnlyFull) /\ (OnlyWrites' <=> OnlyWrites)
  BY <1>1, <1>5 DEF InStep, OnlyFull, OnlyWrites
<1>7. StreamInv'
  BY <1>1, <1>3, <1>6 DEF StreamInv, Starting, Running
<1>8. FilesInv'
  BY <1>1 DEF FilesInv, OutputInv
<1>9. QuotaInv'
  <2>1. \A m \in Names : wrote'[m] = wrote[m] + (IF m = pdh THEN 1 ELSE 0)
    BY <1>0, <1>1, TypesUsed, Added
  <2>2. \A m \in Names : wrote[m] \in Nat
    BY <1>0, TypesUsed
  <2>3. QuotaInv /\ inFile \in Nat /\ opts.packets \in Nat /\ curr \in Nat /\ Names \subseteq Nat
    BY <1>0, TypesUsed DEF OutputInv
  <2>4. wrote[pdh] = inFile /\ (opts.packets > 0 => inFile < opts.packets)
    BY <1>1, <1>3, <2>3 DEF QuotaInv, Running
  <2>5. \A m \in Names : m > curr + 1 => wrote'[m] = 0
    BY <1>3, <2>1, <2>3 DEF QuotaInv
  <2>6. wrote'[curr + 1] = inFile'
    BY <1>1, <1>3, <2>1, <2>4
  <2>7. opts.packets > 0 =>
            /\ inFile' <= opts.packets
            /\ \A m \in Names : wrote'[m] <= opts.packets
    BY <1>1, <1>3, <2>1, <2>2, <2>3, <2>4 DEF QuotaInv
  <2>8. opts.packets > 0 /\ OnlyFull =>
            /\ ret' # "interval"
            /\ pc' = "switch" => inFile' = opts.packets
            /\ \A m \in 1..curr : wrote'[m] = opts.packets
    <3>1. opts.packets > 0 /\ OnlyFull => \A m \in 1..curr : wrote'[m] = opts.packets
      <4>1. \A m \in 1..curr : m \in Names /\ m # pdh
        BY <1>0, <1>3, <2>3, TypesUsed, MaxFilesAssumption DEF Names
      <4> QED BY <2>1, <2>3, <4>1 DEF QuotaInv
    <3>2. OnlyFull => "filesize" \notin opts.conditions
      BY DEF OnlyFull
    <3> QED BY <1>1, <1>2, <2>3, <2>4, <3>1, <3>2 DEF QuotaInv
  <2> QED BY <1>1, <1>2, <1>3, <1>6, <2>3, <2>5, <2>6, <2>7, <2>8 DEF QuotaInv, Running
<1>10. CountInv'
  <2>1. \A m \in Names : wrote'[m] = wrote[m] + (IF m = pdh THEN 1 ELSE 0)
    BY <1>0, <1>1, TypesUsed, Added
  <2>2. /\ \A m \in Names : wrote[m] \in Nat /\ told[m] \in Nat /\ fs.disk[m] \in Nat
                            /\ fs.buf[m] \in Nat /\ fs'.disk[m] \in Nat /\ fs'.buf[m] \in Nat
        /\ inpkts \in Nat /\ CountInv
    BY <1>0, TypesUsed DEF OutputInv, Typing, FsType
  <2>3. parent # 0 => \A m \in Names :
                        told[m] + (IF m = parent THEN inpkts' ELSE 0) = wrote'[m]
    BY <1>1, <1>3, <2>1, <2>2 DEF CountInv
  <2>4. /\ \A m \in Names \ fs'.failed : fs'.disk[m] + fs'.buf[m] = wrote'[m] /\ told[m] <= fs'.disk[m]
        /\ \A m \in Names : m \notin fs'.open => fs'.buf[m] = 0
    BY <1>5, <2>1, <2>2 DEF CountInv
  <2> QED BY <1>1, <2>3, <2>4 DEF CountInv
<1>11. PrintInv'
  BY <1>1, <1>5 DEF PrintInv, OutputInv, RingPCs, PCs, Settled
<1>12. OwnerInv'
  BY <1>1, <1>3, <1>5, <1>6 DEF OwnerInv, OutputInv, RingPCs, PCs, Running
<1> QED BY <1>7, <1>8, <1>9, <1>10, <1>11, <1>12 DEF OutputInv

(* A count goes to the parent once what it counts is on the disk.          *)
LEMMA UpdateOutput ==
    ASSUME OutputInv, StreamInv, fs.bad = {}, UNCHANGED opts, Typing', Update
    PROVE  OutputInv'
<1> USE DEF loopvars, msgs, gzvars, rbvars
<1>0. Typing
  BY DEF OutputInv
<1>1. /\ pc = "update" /\ pc' \in {"loop", "switch"}
      /\ UNCHANGED <<opts, files, curr, fd, rpdh, nameH, heap, printed, pdh, saveFile, parent,
                     fileCount, err, inFile, wrote>>
      /\ inpkts' = 0 /\ (go' => go)
      /\ pc' = "switch" \/ ret' = "interval" => "timer" \in opts.conditions \/ ret' = ret
      /\ pc' = "switch" => "timer" \in opts.conditions
      /\ (inpkts > 0 => \E ok \in BOOLEAN : fs' = FsFlush(fs, pdh, ok)) /\ (inpkts = 0 => fs' = fs)
  <2>1. inpkts = 0 => fs' = fs
    BY DEF Update
  <2>2. inpkts > 0 => \E ok \in BOOLEAN : fs' = FsFlush(fs, pdh, ok)
    BY DEF Update, Flush, Outcomes
  <2> QED BY <2>1, <2>2 DEF Update, Flush, Count
<1>2. parent # 0 /\ (InStep \/ Broken) /\ parent \in Names
  BY <1>0, <1>1, TypesUsed DEF StreamInv, Running
<1>3. \A m \in Names : told'[m] = wrote[m] /\ told'[m] = told[m] + (IF m = parent THEN inpkts ELSE 0)
  <2>1. told' = [told EXCEPT ![parent] = @ + inpkts]
    BY <1>2 DEF Update, Count
  <2>2. \A m \in Names : told'[m] = told[m] + (IF m = parent THEN inpkts ELSE 0)
    BY <1>0, <2>1, TypesUsed, Added
  <2> QED BY <1>2, <2>2 DEF OutputInv, CountInv
<1>4. /\ fs'.open = fs.open /\ (InStep => fs'.bad = fs.bad) /\ ("free" \in fs'.bad => "free" \in fs.bad)
      /\ Keeps(fs, fs') /\ fs.closed \subseteq fs'.closed /\ fs.failed \subseteq fs'.failed
      /\ \A m \in Names :
            /\ m \notin fs.open => fs'.buf[m] = fs.buf[m]
            /\ m = parent /\ InStep /\ inpkts > 0 => fs'.buf[m] = 0
  <2>1. CASE inpkts = 0
    <3>1. fs' = fs
      BY <1>1, <2>1
    <3>2. \A m \in Names : fs.disk[m] \in Nat
      BY <1>0, TypesUsed
    <3> QED BY <2>1, <3>1, <3>2 DEF Keeps
  <2>2. CASE inpkts > 0
    <3>0. PICK ok \in BOOLEAN : fs' = FsFlush(fs, pdh, ok)
      BY <1>1, <2>2
    <3>1. fs' = FsFlush(fs, pdh, ok) /\ fs \in FsType /\ pdh \in Names \cup {0}
      BY <1>0, <3>0, TypesUsed
    <3>2. InStep => pdh \in fs.open /\ pdh = parent
      BY DEF InStep
    <3>3. /\ FsFlush(fs, pdh, ok).open = fs.open
          /\ FsFlush(fs, pdh, ok).bad \subseteq fs.bad \cup {"fflush"}
          /\ pdh \in fs.open \cup {0} => FsFlush(fs, pdh, ok).bad = fs.bad
          /\ Keeps(fs, FsFlush(fs, pdh, ok))
          /\ \A m \in Names :
                /\ m \notin fs.open => FsFlush(fs, pdh, ok).buf[m] = fs.buf[m]
                /\ m \in fs.open /\ pdh \in {0, m} => FsFlush(fs, pdh, ok).buf[m] = 0
      BY <3>1, FlushKeeps
    <3>4. fs.closed \subseteq fs'.closed /\ fs.failed \subseteq fs'.failed
      BY <3>1, <3>3 DEF Keeps
    <3> QED BY <3>1, <3>2, <3>3, <3>4
  <2>3. inpkts = 0 \/ inpkts > 0
    BY <1>0, TypesUsed
  <2> QED BY <2>1, <2>2, <2>3
<1>5. /\ (InStep' <=> InStep) /\ (Broken => Broken') /\ (OnlyFull' <=> OnlyFull)
      /\ (OnlyWrites' <=> OnlyWrites)
  BY <1>1, <1>4 DEF InStep, Broken, Settled, OnlyFull, OnlyWrites
<1>6. StreamInv'
  BY <1>1, <1>2, <1>5 DEF StreamInv, Starting, Running
<1>7. FilesInv'
  BY <1>1 DEF FilesInv, OutputInv
<1>8. QuotaInv'
  <2>1. OnlyFull => pc' = "loop" /\ ret' = ret
    BY <1>1 DEF OnlyFull, Update
  <2> QED BY <1>1, <1>5, <2>1 DEF QuotaInv, OutputInv, Running
<1>9. CountInv'
  <2>1. /\ \A m \in Names : wrote[m] \in Nat /\ told[m] \in Nat /\ fs.disk[m] \in Nat
                            /\ fs.buf[m] \in Nat /\ fs'.disk[m] \in Nat /\ fs'.buf[m] \in Nat
        /\ inpkts \in Nat /\ CountInv
    BY <1>0, TypesUsed DEF OutputInv, Typing, FsType
  <2>2a. \A m \in Names : m \notin fs'.open => fs'.buf[m] = 0
    BY <1>4, <2>1 DEF CountInv
  <2>2. ASSUME NEW m \in Names \ fs'.failed
        PROVE  fs'.disk[m] + fs'.buf[m] = wrote'[m] /\ told'[m] <= fs'.disk[m]
    <3>1. /\ fs.disk[m] + fs.buf[m] = wrote[m] /\ told[m] <= fs.disk[m]
          /\ m \notin fs.open => fs.buf[m] = 0
      BY <1>4, <2>1, <2>2 DEF CountInv
    <3>2. fs'.disk[m] + fs'.buf[m] = wrote'[m] /\ fs'.disk[m] >= fs.disk[m]
      BY <1>1, <1>4, <2>2, <3>1 DEF Keeps
    <3>3. CASE m # parent \/ inpkts = 0
      <4>1. told'[m] = told[m]
        BY <1>3, <2>1, <3>3
      <4> QED BY <1>4, <2>1, <3>1, <3>2, <4>1
    <3>4. CASE m = parent /\ inpkts > 0 /\ InStep
      <4>1. fs'.buf[m] = 0 /\ told'[m] = wrote[m]
        BY <1>3, <1>4, <3>4
      <4> QED BY <1>1, <2>1, <3>2, <4>1
    <3>5. CASE Broken
      <4>1. m \notin fs'.open
        BY <1>4, <3>5 DEF Broken
      <4>2. fs'.buf[m] = 0 /\ told'[m] = wrote[m]
        BY <1>3, <2>2a, <4>1
      <4> QED BY <1>1, <2>1, <3>2, <4>2
    <3> QED BY <1>2, <2>1, <3>3, <3>4, <3>5
  <2>3. \A m \in Names : told'[m] + (IF m = parent THEN inpkts' ELSE 0) = wrote'[m]
    BY <1>1, <1>3, <2>1
  <2> QED BY <1>1, <2>2, <2>2a, <2>3 DEF CountInv
<1>10. PrintInv'
  BY <1>1, <1>4 DEF PrintInv, OutputInv, RingPCs, PCs, Settled
<1>11. OwnerInv'
  BY <1>1, <1>4, <1>5 DEF OwnerInv, OutputInv, RingPCs, PCs, Running
<1> QED BY <1>6, <1>7, <1>8, <1>9, <1>10, <1>11 DEF OutputInv

(* The new file is announced: its parent has been told of all the packets  *)
(* of the one before, and they are on the disk.                            *)
LEMMA AnnounceOutput ==
    ASSUME OutputInv, StreamInv, fs.bad = {}, UNCHANGED opts, Typing', Announce \/ Start
    PROVE  OutputInv'
<1> USE DEF loopvars, msgs, gzvars, rbvars
<1>0. Typing
  BY DEF OutputInv
<1>1. /\ pc \in {"announce", "start"} /\ pc' \in {"loop", "update", "interval"}
      /\ pc' \in {"loop", ret}
      /\ UNCHANGED <<opts, files, curr, fd, rpdh, nameH, heap, printed, pdh, saveFile,
                     fileCount, err, go, ret, inFile, wrote>>
      /\ inpkts' = 0 /\ parent' = saveFile
      /\ \E ok \in BOOLEAN : fs' = FsFlush(fs, pdh, ok)
  <2>1. CASE Announce
    BY <1>0, <2>1 DEF Announce, Flush, Outcomes, Typing, LoopTypes
  <2>2. CASE Start
    <3>1. inpkts = 0
      BY <2>2 DEF Start, StreamInv, Starting
    <3> QED BY <2>2, <3>1 DEF Start, Flush, Outcomes
  <2> QED BY <2>1, <2>2
<1>2. /\ fs.open = {curr + 1} /\ pdh = curr + 1 /\ rpdh = curr + 1 /\ saveFile = curr + 1
      /\ curr + 1 \in Names /\ wrote[curr + 1] = 0 /\ inFile = 0 /\ parent # curr + 1
      /\ curr \in Nat
  <2>1. curr + 1 \in Names /\ curr \in Nat
    BY <1>0, TypesUsed
  <2>2. CASE pc = "announce"
    BY <2>1, <2>2 DEF StreamInv, OutputInv, QuotaInv
  <2>3. CASE pc = "start"
    BY <2>1, <2>3 DEF StreamInv, Starting
  <2> QED BY <1>1, <2>1, <2>2, <2>3
<1>3. \A m \in Names : told'[m] = wrote[m] /\ told'[m] = told[m] + (IF m = parent THEN inpkts ELSE 0)
  <2>1. CASE Announce
    <3>1. told' = [told EXCEPT ![parent] = @ + inpkts] /\ parent # 0
      BY <1>0, <2>1, TypesUsed DEF Announce, StreamInv
    <3>2. \A m \in Names : told'[m] = told[m] + (IF m = parent THEN inpkts ELSE 0)
      BY <1>0, <3>1, TypesUsed, Added
    <3> QED BY <3>1, <3>2 DEF OutputInv, CountInv
  <2>2. CASE Start
    <3>1. told' = told /\ inpkts = 0 /\ told = [n \in Names |-> 0] /\ wrote = told /\ parent = 0
      BY <2>2 DEF Start, StreamInv, Starting
    <3> QED BY <3>1
  <2> QED BY <2>1, <2>2
<1>4. /\ fs'.open = fs.open /\ fs'.bad = {}
      /\ Keeps(fs, fs') /\ fs.closed \subseteq fs'.closed /\ fs.failed \subseteq fs'.failed
      /\ \A m \in Names :
               m \notin fs.open => fs'.buf[m] = fs.buf[m] /\ fs'.disk[m] = fs.disk[m]
  <2>1. fs \in FsType /\ pdh \in Names \cup {0} /\ pdh \in fs.open \cup {0}
    BY <1>0, <1>2, TypesUsed
  <2>2. PICK ok \in BOOLEAN : fs' = FsFlush(fs, pdh, ok)
    BY <1>1
  <2>3. /\ FsFlush(fs, pdh, ok).open = fs.open /\ FsFlush(fs, pdh, ok).bad = fs.bad
        /\ Keeps(fs, FsFlush(fs, pdh, ok))
        /\ \A m \in Names :
              m \notin fs.open =>
                    FsFlush(fs, pdh, ok).buf[m] = fs.buf[m] /\ FsFlush(fs, pdh, ok).disk[m] = fs.disk[m]
    BY <2>1, FlushKeeps
  <2>4. fs.closed \subseteq fs'.closed /\ fs.failed \subseteq fs'.failed
    BY <2>2, <2>3 DEF Keeps
  <2> QED BY <2>2, <2>3, <2>4
<1>5. InStep' /\ parent' # 0 /\ (OnlyFull' <=> OnlyFull) /\ (OnlyWrites' <=> OnlyWrites)
  BY <1>1, <1>2, <1>4 DEF InStep, OnlyFull, OnlyWrites
<1>6. StreamInv'
  BY <1>1, <1>5 DEF StreamInv, Starting, Running
<1>7. FilesInv'
  BY <1>1 DEF FilesInv, OutputInv
<1>8. QuotaInv'
  <2>1. QuotaInv
    BY DEF OutputInv
  <2>2. OnlyFull /\ opts.packets > 0 => pc' # "interval"
    BY <1>1, <2>1 DEF QuotaInv
  <2> QED BY <1>1, <1>2, <1>5, <2>1, <2>2 DEF QuotaInv, Running
<1>9. CountInv'
  <2>1. /\ \A m \in Names : wrote[m] \in Nat /\ told[m] \in Nat /\ fs.disk[m] \in Nat
                            /\ fs.buf[m] \in Nat /\ fs'.disk[m] \in Nat /\ fs'.buf[m] \in Nat
        /\ inpkts \in Nat /\ CountInv
    BY <1>0, TypesUsed DEF OutputInv, Typing, FsType
  <2>2a. \A m \in Names : m \notin fs'.open => fs'.buf[m] = 0
    BY <1>4, <2>1 DEF CountInv
  <2>2. ASSUME NEW m \in Names \ fs'.failed
        PROVE  fs'.disk[m] + fs'.buf[m] = wrote'[m] /\ told'[m] <= fs'.disk[m]
    <3>1. /\ fs.disk[m] + fs.buf[m] = wrote[m] /\ told[m] <= fs.disk[m]
          /\ m \notin fs.open => fs.buf[m] = 0
      BY <1>4, <2>1, <2>2 DEF CountInv
    <3>2. fs'.disk[m] + fs'.buf[m] = wrote'[m] /\ fs'.disk[m] >= fs.disk[m]
      BY <1>1, <1>4, <2>2, <3>1 DEF Keeps
    <3>3. CASE m # parent
      <4>1. told'[m] = told[m]
        BY <1>3, <2>1, <3>3
      <4> QED BY <1>4, <2>1, <3>1, <3>2, <4>1
    <3>4. CASE m = parent
      <4>1. m \notin fs'.open
        BY <1>2, <1>4, <3>4
      <4>2. fs'.buf[m] = 0 /\ told'[m] = wrote[m]
        BY <1>3, <2>2a, <4>1
      <4> QED BY <1>1, <2>1, <3>2, <4>2
    <3> QED BY <3>3, <3>4
  <2>3. \A m \in Names : told'[m] + (IF m = parent' THEN inpkts' ELSE 0) = wrote'[m]
    BY <1>1, <1>3, <2>1
  <2> QED BY <1>1, <2>2, <2>2a, <2>3 DEF CountInv
<1>10. PrintInv'
  BY <1>1, <1>4 DEF PrintInv, OutputInv, RingPCs, PCs, Settled
<1>11. OwnerInv'
  BY <1>1, <1>4, <1>5 DEF OwnerInv, OutputInv, RingPCs, PCs, Running
<1> QED BY <1>6, <1>7, <1>8, <1>9, <1>10, <1>11 DEF OutputInv

(* The header of the new file, or the failure that closes it.              *)
LEMMA HeaderOutput ==
    ASSUME OutputInv, StreamInv, UNCHANGED opts, Typing', WriteHeader \/ FirstHeader
    PROVE  OutputInv'
<1> USE DEF loopvars, msgs, gzvars, rbvars
<1>0. Typing
  BY DEF OutputInv
<1>1. /\ UNCHANGED <<opts, files, curr, fd, rpdh, nameH, heap, printed, saveFile, parent,
                     told, wrote, inFile, inpkts, fileCount, ret>>
      /\ \/ fs' = fs /\ pdh' = pdh /\ pc = "header" /\ pc' = "announce"
         \/ fs' = fs /\ pdh' = pdh /\ pc = "firstheader" /\ pc' = "start"
         \/ /\ fs' = FsClose(fs, pdh, TRUE) /\ pdh' = 0 /\ pc = "header"
            /\ pc' \in {"loop", "update"} /\ ~go' /\ err' /\ "header" \in opts.failures
         \/ /\ fs' = FsClose(fs, pdh, TRUE) /\ pdh' = 0 /\ pc = "firstheader"
            /\ pc' = "error" /\ "start" \in opts.failures
  <2>1. CASE WriteHeader
    <3>1. PICK ok \in BOOLEAN :
              /\ ok \/ "header" \in opts.failures
              /\ Continue(ok, "announce")
              /\ pdh' = IF ok THEN pdh ELSE 0
              /\ fs' = IF ok THEN fs ELSE FsClose(fs, pdh, TRUE)
      BY <2>1 DEF WriteHeader, Outcomes
    <3>2. StopAt \in {"loop", "update"}
      BY <1>0 DEF StopAt, Typing, LoopTypes
    <3> QED BY <2>1, <3>1, <3>2 DEF WriteHeader, Continue
  <2>2. CASE FirstHeader
    BY <2>2 DEF FirstHeader
  <2> QED BY <2>1, <2>2
<1>2. (OnlyFull' <=> OnlyFull) /\ (OnlyWrites' <=> OnlyWrites)
  BY <1>1 DEF OnlyFull, OnlyWrites
<1>3. FilesInv'
  BY <1>1 DEF FilesInv, OutputInv
<1>4. CASE fs' = fs /\ pdh' = pdh /\ <<pc, pc'>> \in {<<"header", "announce">>, <<"firstheader", "start">>}
  <2>1. StreamInv'
    BY <1>1, <1>4 DEF StreamInv, Starting, Running
  <2>2. QuotaInv'
    BY <1>1, <1>2, <1>4 DEF QuotaInv, OutputInv, Running
  <2>3. CountInv'
    BY <1>1, <1>4 DEF CountInv, OutputInv
  <2>4. PrintInv'
    BY <1>1, <1>4 DEF PrintInv, OutputInv, RingPCs, PCs, Settled
  <2>5. OwnerInv'
    BY <1>1, <1>2, <1>4 DEF OwnerInv, OutputInv, RingPCs, PCs, Running
  <2> QED BY <1>3, <2>1, <2>2, <2>3, <2>4, <2>5 DEF OutputInv
<1>5. CASE fs' = FsClose(fs, pdh, TRUE) /\ pc = "header" /\ pc' \in {"loop", "update"}
           /\ ~go' /\ err' /\ "header" \in opts.failures
  <2>1. fs.open = {curr + 1} /\ pdh = curr + 1 /\ curr + 1 \in Names /\ fs \in FsType
        /\ parent = curr /\ parent # 0
    BY <1>0, <1>5, TypesUsed DEF StreamInv
  <2>2. /\ fs'.open = {} /\ fs'.bad = fs.bad /\ pdh \in fs'.closed
        /\ Keeps(fs, fs') /\ fs.closed \subseteq fs'.closed /\ fs.failed \subseteq fs'.failed
        /\ \A m \in Names : /\ m \notin fs.open => fs'.buf[m] = fs.buf[m]
                            /\ m \in fs.open => fs'.buf[m] = 0
    <3>1. pdh \in fs.open /\ fs \in FsType
      BY <2>1
    <3>2. /\ FsClose(fs, pdh, TRUE).open = fs.open \ {pdh}
          /\ FsClose(fs, pdh, TRUE).bad = fs.bad /\ pdh \in FsClose(fs, pdh, TRUE).closed
          /\ Keeps(fs, FsClose(fs, pdh, TRUE))
          /\ \A m \in Names :
                /\ m # pdh => FsClose(fs, pdh, TRUE).buf[m] = fs.buf[m]
                /\ m = pdh => FsClose(fs, pdh, TRUE).buf[m] = 0
      BY <3>1, CloseWhole
    <3>3. \A m \in fs.open : m = pdh
      BY <2>1
    <3>4. fs.open \ {pdh} = {}
      BY <3>3
    <3>5. /\ fs'.open = {} /\ fs'.bad = fs.bad /\ pdh \in fs'.closed /\ Keeps(fs, fs')
          /\ \A m \in Names : m # pdh => fs'.buf[m] = fs.buf[m]
          /\ \A m \in Names : m = pdh => fs'.buf[m] = 0
      BY <1>5, <3>2, <3>4
    <3>6. fs.closed \subseteq fs'.closed /\ fs.failed \subseteq fs'.failed
      BY <3>5 DEF Keeps
    <3> QED BY <3>1, <3>3, <3>5, <3>6
  <2>3. Broken' /\ ~InStep'
    BY <1>1, <1>5, <2>1, <2>2 DEF Broken, InStep, Settled
  <2>4. StreamInv'
    BY <1>1, <1>5, <2>1, <2>3 DEF StreamInv, Starting, Running
  <2>5. QuotaInv'
    BY <1>1, <1>2, <1>5, <2>3 DEF QuotaInv, OutputInv, Running
  <2>6. CountInv'
    <3>1. CountInv
      BY DEF OutputInv
    <3>2. \A m \in Names : m \notin fs'.open /\ (m \notin fs.open => fs.buf[m] = 0) => fs'.buf[m] = 0
      BY <2>2
    <3> QED BY <1>0, <1>1, <1>5, <2>2, <3>1, <3>2, CountsKept
  <2>7. PrintInv'
    BY <1>1, <1>5, <2>2 DEF PrintInv, OutputInv, RingPCs, PCs, Settled
  <2>8. OwnerInv'
    <3>1. ~OnlyWrites
      BY <1>5 DEF OnlyWrites
    <3> QED BY <1>1, <1>2, <1>5, <2>2, <3>1 DEF OwnerInv, OutputInv, RingPCs, PCs, Running
  <2> QED BY <1>3, <2>4, <2>5, <2>6, <2>7, <2>8 DEF OutputInv
<1>6. CASE fs' = FsClose(fs, pdh, TRUE) /\ pc = "firstheader" /\ pc' = "error"
           /\ "start" \in opts.failures
  <2>1. fs.open = {1} /\ pdh = 1 /\ 1 \in Names /\ fs \in FsType
    <3>1. curr = 0 /\ curr + 1 \in Names /\ fs \in FsType
      BY <1>0, <1>6, TypesUsed DEF StreamInv, Starting
    <3> QED BY <1>6, <3>1 DEF StreamInv
  <2>2. /\ fs'.open = {} /\ fs'.bad = fs.bad /\ pdh \in fs'.closed
        /\ Keeps(fs, fs') /\ fs.closed \subseteq fs'.closed /\ fs.failed \subseteq fs'.failed
        /\ \A m \in Names : /\ m \notin fs.open => fs'.buf[m] = fs.buf[m]
                            /\ m \in fs.open => fs'.buf[m] = 0
    <3>1. pdh \in fs.open /\ fs \in FsType
      BY <2>1
    <3>2. /\ FsClose(fs, pdh, TRUE).open = fs.open \ {pdh}
          /\ FsClose(fs, pdh, TRUE).bad = fs.bad /\ pdh \in FsClose(fs, pdh, TRUE).closed
          /\ Keeps(fs, FsClose(fs, pdh, TRUE))
          /\ \A m \in Names :
                /\ m # pdh => FsClose(fs, pdh, TRUE).buf[m] = fs.buf[m]
                /\ m = pdh => FsClose(fs, pdh, TRUE).buf[m] = 0
      BY <3>1, CloseWhole
    <3>3. \A m \in fs.open : m = pdh
      BY <2>1
    <3>4. fs.open \ {pdh} = {}
      BY <3>3
    <3>5. /\ fs'.open = {} /\ fs'.bad = fs.bad /\ pdh \in fs'.closed /\ Keeps(fs, fs')
          /\ \A m \in Names : m # pdh => fs'.buf[m] = fs.buf[m]
          /\ \A m \in Names : m = pdh => fs'.buf[m] = 0
      BY <1>6, <3>2, <3>4
    <3>6. fs.closed \subseteq fs'.closed /\ fs.failed \subseteq fs'.failed
      BY <3>5 DEF Keeps
    <3> QED BY <3>1, <3>3, <3>5, <3>6
  <2>4. StreamInv'
    BY <1>1, <1>6 DEF StreamInv, Starting, Running
  <2>5. QuotaInv'
    BY <1>1, <1>2, <1>6 DEF QuotaInv, OutputInv, Running
  <2>6. CountInv'
    <3>1. CountInv
      BY DEF OutputInv
    <3>2. \A m \in Names : m \notin fs'.open /\ (m \notin fs.open => fs.buf[m] = 0) => fs'.buf[m] = 0
      BY <2>2
    <3> QED BY <1>0, <1>1, <1>6, <2>2, <3>1, <3>2, CountsKept
  <2>7. PrintInv'
    BY <1>1, <1>6, <2>2 DEF PrintInv, OutputInv, RingPCs, PCs, Settled
  <2>8. OwnerInv'
    <3>1. ~OnlyWrites
      BY <1>6 DEF OnlyWrites
    <3> QED BY <1>1, <1>2, <1>6, <2>2, <3>1 DEF OwnerInv, OutputInv, RingPCs, PCs, Running
  <2> QED BY <1>3, <2>4, <2>5, <2>6, <2>7, <2>8 DEF OutputInv
<1> QED BY <1>1, <1>4, <1>5, <1>6

(* The current file is closed and its name printed; a failure to close it  *)
(* stops the capture.                                                      *)
LEMMA CloseCurrentOutput ==
    ASSUME OutputInv, StreamInv, fs.bad = {}, UNCHANGED opts, Typing', CloseCurrent
    PROVE  OutputInv'
<1> USE DEF loopvars, msgs, gzvars, rbvars
<1>0. Typing
  BY DEF OutputInv
<1>1. PICK ok \in BOOLEAN : /\ ok = TRUE \/ (ok = FALSE /\ "close" \in opts.failures)
                            /\ SwitchClose(ok) /\ Continue(ok, "rbopen")
  BY DEF CloseCurrent, Outcomes
<1>2. /\ pc = "rbclose"
      /\ UNCHANGED <<opts, ret, pdh, saveFile, fileCount, captured, inFile, inpkts, wrote,
                     parent, told, files, nameH, heap>>
      /\ fs' = FsClose(fs, rpdh, ok) /\ rpdh' = 0
      /\ ok => curr' = curr + 1 /\ pc' = "rbopen"
      /\ ~ok => curr' = curr /\ printed' = printed /\ pc' \in {"loop", "update"} /\ ~go' /\ err'
  <2>1. StopAt \in {"loop", "update"}
    BY <1>0 DEF StopAt, Typing, LoopTypes
  <2> QED BY <1>1, <2>1 DEF CloseCurrent, SwitchClose, Continue
<1>3. /\ parent # 0 /\ (InStep \/ Broken) /\ curr + 1 \in Names /\ fs \in FsType /\ curr \in Nat
      /\ fs.open \subseteq {curr + 1} /\ rpdh \in Names \cup {0} /\ curr + 1 \in heap
      /\ parent \in {curr, curr + 1} /\ CurrentName = curr + 1
  <2>1. parent # 0 /\ (InStep \/ Broken)
    BY <1>2 DEF StreamInv, Running
  <2>2. curr + 1 \in heap
    BY <1>2 DEF OutputInv, OwnerInv, RingPCs, PCs
  <2>3. CurrentName = curr + 1
    BY <1>0, <1>2 DEF Typing, RingInv, RingPCs, PCs
  <2> QED BY <1>0, <2>1, <2>2, <2>3, TypesUsed DEF InStep, Broken
<1>4. /\ fs'.bad \subseteq {"fclose"} /\ fs'.open \subseteq fs.open
      /\ fs'.open = {}
      /\ (fs'.bad = {} => InStep)
      /\ InStep => fs'.bad = {}
      /\ Keeps(fs, fs') /\ fs.closed \subseteq fs'.closed /\ fs.failed \subseteq fs'.failed
      /\ curr + 1 \in fs'.closed \cup fs'.failed /\ (InStep => curr + 1 \in fs'.closed)
      /\ \A m \in Names : m \notin fs'.open /\ (m \notin fs.open => fs.buf[m] = 0) => fs'.buf[m] = 0
  <2>1. /\ FsClose(fs, rpdh, ok).open = fs.open \ {rpdh}
        /\ FsClose(fs, rpdh, ok).bad \subseteq fs.bad \cup {"fclose"}
        /\ rpdh \in fs.open => FsClose(fs, rpdh, ok).bad = fs.bad
        /\ rpdh \in fs.open => rpdh \in FsClose(fs, rpdh, ok).closed
        /\ rpdh \notin fs.open => FsClose(fs, rpdh, ok) = Misuse(fs, "fclose")
        /\ Keeps(fs, FsClose(fs, rpdh, ok))
        /\ \A m \in Names :
              /\ m # rpdh \/ m \notin fs.open =>
                    FsClose(fs, rpdh, ok).buf[m] = fs.buf[m] /\ FsClose(fs, rpdh, ok).disk[m] = fs.disk[m]
              /\ m = rpdh /\ m \in fs.open => FsClose(fs, rpdh, ok).buf[m] = 0
    <3>1. rpdh \notin fs.open => FsClose(fs, rpdh, ok) = Misuse(fs, "fclose")
      BY DEF FsClose
    <3> QED BY <1>3, <3>1, CloseKeeps
  <2>2. InStep => rpdh \in fs.open /\ fs.open \ {rpdh} = {}
    BY DEF InStep
  <2>3. ~InStep => rpdh \notin fs.open /\ fs.open \ {rpdh} = {}
    BY <1>3 DEF Broken
  <2>4. rpdh \notin fs.open => FsClose(fs, rpdh, ok).bad # {}
    <3>1. "fclose" \in Misuses /\ fs \in FsType
      BY <1>3 DEF Misuses
    <3>2. Misuse(fs, "fclose").bad = fs.bad \cup {"fclose"}
      BY <3>1, MisuseIs
    <3> QED BY <2>1, <3>2
  <2>5. PICK g : g = FsClose(fs, rpdh, ok)
    OBVIOUS
  <2>6. /\ g.open = {} /\ g.bad \subseteq {"fclose"} /\ (InStep => g.bad = {}) /\ (g.bad = {} => InStep)
        /\ Keeps(fs, g) /\ (InStep => curr + 1 \in g.closed)
        /\ \A m \in Names : (m \notin fs.open => fs.buf[m] = 0) => g.buf[m] = 0
    <3>1. InStep => rpdh = curr + 1
      BY DEF InStep
    <3>2. InStep => \A m \in fs.open : m = rpdh
      BY DEF InStep
    <3>3. ~InStep => fs.open = {}
      BY <1>3 DEF Broken
    <3>4. \A m \in Names : (m \notin fs.open => fs.buf[m] = 0) => g.buf[m] = 0
      BY <2>1, <2>5, <3>2, <3>3
    <3> QED BY <2>1, <2>2, <2>3, <2>4, <2>5, <3>1, <3>4
  <2>7. fs.closed \subseteq g.closed /\ fs.failed \subseteq g.failed
    BY <2>6 DEF Keeps
  <2>8. curr + 1 \in g.closed \cup g.failed
    BY <1>3, <2>6, <2>7 DEF Broken, Settled
  <2>9. fs' = g
    BY <1>2, <2>5
  <2> QED BY <2>6, <2>7, <2>8, <2>9
<1>5. (OnlyFull' <=> OnlyFull) /\ (OnlyWrites' <=> OnlyWrites)
  BY <1>2 DEF OnlyFull, OnlyWrites
<1>6. fs'.bad = {} => StreamInv'
  <2> SUFFICES ASSUME fs'.bad = {} PROVE StreamInv'
    OBVIOUS
  <2>1. InStep /\ fs'.open = {} /\ parent = curr + 1
    BY <1>4 DEF InStep
  <2>2. CASE ok
    BY <1>2, <1>3, <2>1, <2>2 DEF StreamInv, Starting, Running
  <2>3. CASE ~ok
    <3>1. Broken'
      BY <1>2, <1>3, <1>4, <2>1, <2>3 DEF Broken, Settled
    <3> QED BY <1>2, <1>3, <2>3, <3>1 DEF StreamInv, Starting, Running
  <2> QED BY <2>2, <2>3
<1>7. FilesInv'
  <2>1. fileCount \in Nat /\ opts.stopfiles \in Nat /\ FilesInv
    BY <1>0, TypesUsed DEF OutputInv
  <2> QED BY <1>2, <1>3, <2>1 DEF FilesInv
<1>8. QuotaInv'
  <2>1. QuotaInv /\ opts.packets \in Nat /\ inFile \in Nat /\ Names \subseteq Nat
        /\ \A m \in Names : wrote[m] \in Nat
    BY <1>0, TypesUsed DEF OutputInv
  <2>2. CASE ok
    <3>1. pc' = "rbopen" /\ curr' = curr + 1 /\ curr' + 1 \in Names
      <4>1. curr' \in 0..MaxFiles-1
        BY DEF Typing, RingTypes
      <4> QED BY <1>2, <2>2, <4>1, MaxFilesAssumption DEF Names
    <3>2. \A n \in Names : n > curr' + 1 => wrote'[n] = 0
      BY <1>2, <1>3, <2>1, <3>1 DEF QuotaInv
    <3>3. wrote'[curr' + 1] = 0
      BY <1>2, <1>3, <2>1, <3>1 DEF QuotaInv
    <3>4. opts.packets > 0 /\ OnlyFull => \A n \in 1..curr' : wrote'[n] = opts.packets
      <4> SUFFICES ASSUME opts.packets > 0, OnlyFull, NEW n \in 1..curr'
                   PROVE  wrote[n] = opts.packets
        BY <1>2
      <4>1. InStep /\ inFile = opts.packets /\ wrote[curr + 1] = inFile
        BY <1>2, <2>1 DEF QuotaInv, Running
      <4>2. n \in 1..curr \/ n = curr + 1
        BY <1>3, <3>1
      <4> QED BY <2>1, <4>1, <4>2 DEF QuotaInv
    <3> QED BY <1>2, <1>5, <2>1, <3>1, <3>2, <3>3, <3>4 DEF QuotaInv, Running
  <2>3. CASE ~ok
    <3>1. ~InStep'
      <4>1. rpdh' = 0 /\ curr' = curr
        BY <1>2, <2>3
      <4> QED BY <1>3, <4>1 DEF InStep
    <3> QED BY <1>2, <1>5, <2>1, <2>3, <3>1 DEF QuotaInv, Running
  <2> QED BY <2>2, <2>3
<1>9. CountInv'
  <2>1. CountInv
    BY DEF OutputInv
  <2>2. pc' \notin {"exit", "end"}
    BY <1>2
  <2> QED BY <1>0, <1>1, <1>2, <1>4, <2>1, <2>2, CountsKept
<1>10. PrintInv'
  <2>1. PrintInv /\ nameH = (IF opts.printname THEN "open" ELSE "null")
        /\ Len(printed) = (IF opts.printname THEN curr ELSE 0) /\ printed \in Seq(Names)
    BY <1>0, <1>2, TypesUsed DEF OutputInv, PrintInv, RingPCs, PCs
  <2>2. CASE ok
    <3>1. printed' = IF nameH = "null" THEN printed ELSE Append(printed, curr + 1)
      BY <1>1, <1>3, <2>2 DEF SwitchClose, PrintName
    <3>2. CASE opts.printname
      <4>1. printed' = Append(printed, curr + 1) /\ Len(printed) = curr
        BY <2>1, <3>1, <3>2
      <4>2. Len(printed') = curr + 1 /\ \A i \in 1..curr + 1 : printed'[i] = i
        BY <1>3, <2>1, <4>1 DEF PrintInv
      <4>3. \A i \in 1..curr + 1 : i \notin fs'.open /\ i \in fs'.closed \cup fs'.failed
        <5>1. \A i \in 1..curr : i \in fs.closed \cup fs.failed
          BY <2>1, <4>1 DEF PrintInv, Settled
        <5>2. \A i \in 1..curr + 1 : i \in 1..curr \/ i = curr + 1
          BY <1>3
        <5> QED BY <1>4, <5>1, <5>2
      <4>4. \A i \in 1..curr + 1 : i < curr + 1 \/ fs'.bad = {} => i \in fs'.closed
        <5>1. \A i \in 1..curr : i \in fs.closed
          BY <1>3, <2>1, <4>1 DEF PrintInv
        <5>2. \A i \in 1..curr + 1 : i \in 1..curr \/ (i = curr + 1 /\ ~(i < curr + 1))
          BY <1>3
        <5> QED BY <1>4, <5>1, <5>2
      <4> QED BY <1>2, <2>1, <2>2, <3>2, <4>2, <4>3, <4>4 DEF PrintInv, RingPCs, PCs, Settled
    <3>3. CASE ~opts.printname
      <4>1. printed' = printed /\ Len(printed') = 0 /\ 1..Len(printed') = {}
        BY <2>1, <3>1, <3>3
      <4> QED BY <1>2, <2>1, <2>2, <3>3, <4>1 DEF PrintInv, RingPCs, PCs
    <3> QED BY <3>2, <3>3
  <2>3. CASE ~ok
    BY <1>2, <1>4, <2>1, <2>3 DEF PrintInv, RingPCs, PCs, Settled
  <2> QED BY <2>2, <2>3
<1>11. OwnerInv'
  <2>1. OwnerInv
    BY DEF OutputInv
  <2>2. OnlyWrites => ok /\ InStep
    BY <1>1, <1>2, <2>1 DEF OnlyWrites, OwnerInv, Running
  <2>3. CASE ok
    BY <1>2, <1>4, <1>5, <2>1, <2>2, <2>3 DEF OwnerInv, RingPCs, PCs, Running
  <2>4. CASE ~ok
    BY <1>2, <1>3, <1>4, <1>5, <2>1, <2>2, <2>4 DEF OwnerInv, RingPCs, PCs, Running
  <2> QED BY <2>3, <2>4
<1> QED BY <1>6, <1>7, <1>8, <1>9, <1>10, <1>11 DEF OutputInv

(* The next file is opened, and the slot's old name freed.                 *)
LEMMA OpenNextOutput ==
    ASSUME OutputInv, StreamInv, fs.bad = {}, UNCHANGED opts, Typing', OpenNext
    PROVE  OutputInv'
<1> USE DEF loopvars, msgs, gzvars, rbvars
<1>0. Typing
  BY DEF OutputInv
<1>1. PICK ok \in BOOLEAN : /\ ok = TRUE \/ (ok = FALSE /\ "open" \in opts.failures)
                            /\ SwitchOpen(ok) /\ Continue(ok, "rbfdopen")
  BY DEF OpenNext, Outcomes
<1>2. /\ pc = "rbopen"
      /\ UNCHANGED <<opts, ret, pdh, saveFile, fileCount, captured, inFile, inpkts, wrote,
                     parent, told, nameH, printed, curr, rpdh>>
      /\ ok => pc' = "rbfdopen"
      /\ ~ok => pc' \in {"loop", "update"} /\ ~go' /\ err'
  <2>1. StopAt \in {"loop", "update"}
    BY <1>0 DEF StopAt, Typing, LoopTypes
  <2> QED BY <1>1, <2>1 DEF OpenNext, SwitchOpen, OpenFile, Continue
<1>3. /\ parent = curr /\ curr # 0 /\ fs.open = {} /\ rpdh = 0 /\ fs \in FsType
      /\ curr \in Nat /\ curr + 1 \in Names
  BY <1>0, <1>2, TypesUsed DEF StreamInv
<1>4. /\ fs'.open = {} /\ fs'.bad = {} /\ fs'.disk = fs.disk /\ fs'.buf = fs.buf /\ curr + 1 \in heap'
      /\ fs'.closed = fs.closed /\ fs.failed \subseteq fs'.failed
      /\ ~ok => curr + 1 \in fs'.failed
  <2>1. PICK f : f = IF Unlimited THEN fs ELSE FsUnlink(fs, {files[curr % Slots]})
    OBVIOUS
  <2>2. /\ f \in FsType /\ f.open = fs.open /\ f.bad = fs.bad /\ f.disk = fs.disk /\ f.buf = fs.buf
        /\ f.closed = fs.closed /\ f.failed = fs.failed
    BY <1>3, <2>1, FsNamesIs
  <2>3. fs' = (IF ok THEN FsCreate(f, Newname) ELSE FsFail(f, {Newname})) /\ curr + 1 \in heap'
    BY <1>1, <2>1 DEF SwitchOpen, OpenFile, Newname
  <2>4. Newname \in Names /\ Newname = curr + 1
    BY <1>3 DEF Newname
  <2>5. /\ FsCreate(f, Newname).open = f.open /\ FsCreate(f, Newname).bad = f.bad
        /\ FsCreate(f, Newname).disk = f.disk /\ FsCreate(f, Newname).buf = f.buf
        /\ FsCreate(f, Newname).closed = f.closed /\ FsCreate(f, Newname).failed = f.failed
    BY <2>2, <2>4, FsNamesIs
  <2>6. /\ FsFail(f, {Newname}).open = f.open /\ FsFail(f, {Newname}).bad = f.bad
        /\ FsFail(f, {Newname}).disk = f.disk /\ FsFail(f, {Newname}).buf = f.buf
        /\ FsFail(f, {Newname}).closed = f.closed /\ FsFail(f, {Newname}).failed = f.failed \cup {Newname}
    <3>1. {Newname} \in SUBSET Names
      BY <2>4
    <3> QED BY <2>2, <3>1, FsFailIs
  <2>7. CASE ok
    BY <1>3, <2>2, <2>3, <2>5, <2>7
  <2>8. CASE ~ok
    BY <1>3, <2>2, <2>3, <2>4, <2>6, <2>8
  <2> QED BY <2>7, <2>8
<1>5. (OnlyFull' <=> OnlyFull) /\ (OnlyWrites' <=> OnlyWrites) /\ ~InStep' /\ (~ok => Broken')
  BY <1>2, <1>3, <1>4 DEF OnlyFull, OnlyWrites, InStep, Broken, Settled
<1>6. StreamInv'
  BY <1>1, <1>2, <1>3, <1>4, <1>5 DEF StreamInv, Starting, Running
<1>7. FilesInv'
  BY <1>2 DEF FilesInv, OutputInv
<1>8. QuotaInv'
  BY <1>2, <1>5 DEF QuotaInv, OutputInv, Running
<1>9. CountInv'
  BY <1>2, <1>3, <1>4 DEF CountInv, OutputInv
<1>10. PrintInv'
  BY <1>2, <1>3, <1>4 DEF PrintInv, OutputInv, RingPCs, PCs, Settled
<1>11. OwnerInv'
  <2>1. OnlyWrites => ok
    BY <1>1 DEF OnlyWrites
  <2> QED BY <1>2, <1>4, <1>5, <2>1 DEF OwnerInv, OutputInv, RingPCs, PCs, Running
<1> QED BY <1>6, <1>7, <1>8, <1>9, <1>10, <1>11 DEF OutputInv

(* The stream of a new file.                                               *)
LEMMA FdopenOutput ==
    ASSUME OutputInv, StreamInv, fs.bad = {}, UNCHANGED opts, Typing', FdopenNext \/ FirstFdopen
    PROVE  OutputInv'
<1> USE DEF loopvars, msgs, gzvars, rbvars
<1>0. Typing
  BY DEF OutputInv
<1>1. PICK ok \in BOOLEAN :
          /\ Fdopen(ok)
          /\ \/ /\ FdopenNext /\ Continue(ok, "header") /\ NewFile(ok)
                /\ ok = TRUE \/ (ok = FALSE /\ "fdopen" \in opts.failures)
             \/ /\ FirstFdopen /\ pdh' = (IF ok THEN fd ELSE 0)
                /\ pc' = (IF ok THEN "firstheader" ELSE "error")
                /\ ok = TRUE \/ (ok = FALSE /\ "start" \in opts.failures)
  BY DEF FdopenNext, FirstFdopen, Outcomes
<1>2. /\ fd = curr + 1 /\ CurrentName = curr + 1 /\ curr + 1 \in heap /\ pc \in {"fdopen", "rbfdopen"}
  <2>1. pc \in {"fdopen", "rbfdopen"}
    BY DEF FdopenNext, FirstFdopen
  <2> QED BY <1>0, <2>1 DEF Typing, RingInv, RingPCs, PCs, OutputInv, OwnerInv
<1>3. fs.open = {} /\ rpdh = 0 /\ fs \in FsType /\ curr \in Nat /\ curr + 1 \in Names
  BY <1>0, <1>2, TypesUsed DEF StreamInv
<1>4. /\ fs'.open = (IF ok THEN {curr + 1} ELSE {}) /\ fs'.bad = {} /\ fs'.disk = fs.disk /\ fs'.buf = fs.buf
      /\ fs'.closed = fs.closed /\ fs.failed \subseteq fs'.failed /\ (~ok => curr + 1 \in fs'.failed)
      /\ rpdh' = (IF ok THEN curr + 1 ELSE 0)
      /\ UNCHANGED <<files, curr, nameH, heap, printed>>
  <2>1. /\ FsOpen(fs, fd).open = fs.open \cup {fd} /\ FsOpen(fs, fd).bad = fs.bad
        /\ FsOpen(fs, fd).disk = fs.disk /\ FsOpen(fs, fd).buf = fs.buf
        /\ FsOpen(fs, fd).closed = fs.closed /\ FsOpen(fs, fd).failed = fs.failed
    BY <1>2, <1>3, FsNamesIs
  <2>2. /\ FsFail(fs, {fd}).open = fs.open /\ FsFail(fs, {fd}).bad = fs.bad
        /\ FsFail(fs, {fd}).disk = fs.disk /\ FsFail(fs, {fd}).buf = fs.buf
        /\ FsFail(fs, {fd}).closed = fs.closed /\ FsFail(fs, {fd}).failed = fs.failed \cup {fd}
    <3>1. {fd} \in SUBSET Names
      BY <1>2, <1>3
    <3> QED BY <1>3, <3>1, FsFailIs
  <2>3. /\ rpdh' = (IF ok THEN curr + 1 ELSE 0) /\ UNCHANGED <<files, curr, nameH, heap, printed>>
        /\ fs' = IF ok THEN FsOpen(fs, fd) ELSE FsFail(fs, {fd})
    BY <1>1, <1>2 DEF Fdopen
  <2>4. CASE ok
    BY <1>2, <1>3, <2>1, <2>3, <2>4
  <2>5. CASE ~ok
    BY <1>2, <1>3, <2>2, <2>3, <2>5
  <2> QED BY <2>4, <2>5
<1>5. (OnlyFull' <=> OnlyFull) /\ (OnlyWrites' <=> OnlyWrites) /\ (OnlyWrites => ok)
  BY <1>1 DEF OnlyFull, OnlyWrites
<1>6. CASE FdopenNext
  <2>1. /\ pc = "rbfdopen"
        /\ UNCHANGED <<opts, ret, fileCount, captured, inpkts, wrote, parent, told>>
        /\ ok => pc' = "header" /\ saveFile' = curr + 1 /\ pdh' = curr + 1 /\ inFile' = 0
        /\ ~ok => /\ pc' \in {"loop", "update"} /\ ~go' /\ err'
                  /\ UNCHANGED <<saveFile, pdh, inFile>>
    <3>1. StopAt \in {"loop", "update"}
      BY <1>0 DEF StopAt, Typing, LoopTypes
    <3>2. ~FirstFdopen
      BY <1>6 DEF FdopenNext, FirstFdopen
    <3>3. CurrentName' = CurrentName
      BY <1>4 DEF CurrentName, Slots, Unlimited
    <3> QED BY <1>1, <1>2, <1>6, <3>1, <3>2, <3>3 DEF FdopenNext, Continue, NewFile
  <2>2. parent = curr /\ curr # 0
    BY <2>1 DEF StreamInv
  <2>3. (~ok => Broken' /\ ~InStep')
    BY <1>3, <1>4, <2>1, <2>2 DEF Broken, InStep, Settled
  <2>4. StreamInv'
    BY <1>1, <1>4, <2>1, <2>2, <2>3 DEF StreamInv, Starting, Running
  <2>5. FilesInv'
    BY <1>4, <2>1 DEF FilesInv, OutputInv
  <2>6. QuotaInv'
    BY <1>1, <1>3, <1>4, <1>5, <2>1, <2>3 DEF QuotaInv, OutputInv, Running
  <2>7. CountInv'
    BY <1>3, <1>4, <2>1 DEF CountInv, OutputInv
  <2>8. PrintInv'
    <3>1. Len(printed) <= curr /\ curr \in Nat /\ Len(printed) \in Nat
      <4>1. Len(printed) = (IF opts.printname THEN curr ELSE 0) \/ Len(printed) = 0
        BY <2>1 DEF PrintInv, OutputInv, RingPCs, PCs
      <4>2. printed \in Seq(Names) /\ curr \in Nat
        BY <1>0, TypesUsed
      <4> QED BY <4>1, <4>2
    <3>2. \A i \in 1..Len(printed) : i \notin fs'.open
      BY <1>4, <3>1
    <3> QED BY <1>1, <1>4, <2>1, <3>2 DEF PrintInv, OutputInv, RingPCs, PCs, Settled
  <2>9. OwnerInv'
    BY <1>1, <1>2, <1>4, <1>5, <2>1 DEF OwnerInv, OutputInv, RingPCs, PCs, Running
  <2> QED BY <2>4, <2>5, <2>6, <2>7, <2>8, <2>9 DEF OutputInv
<1>7. CASE FirstFdopen
  <2>1. /\ pc = "fdopen" /\ pc' = (IF ok THEN "firstheader" ELSE "error")
        /\ UNCHANGED <<opts, ret, go, err, saveFile, fileCount, captured, inFile, inpkts, wrote, parent, told>>
        /\ ok => pdh' = curr + 1
    <3>1. ~FdopenNext
      BY <1>7 DEF FdopenNext, FirstFdopen
    <3> QED BY <1>1, <1>2, <1>7, <3>1 DEF FirstFdopen
  <2>2. curr = 0 /\ saveFile = 1
    BY <2>1 DEF StreamInv, Starting
  <2>4. StreamInv'
    BY <1>1, <1>4, <2>1, <2>2 DEF StreamInv, Starting, Running
  <2>5. FilesInv'
    BY <1>4, <2>1 DEF FilesInv, OutputInv
  <2>6. QuotaInv'
    BY <1>1, <1>3, <1>4, <1>5, <2>1 DEF QuotaInv, OutputInv, Running
  <2>7. CountInv'
    BY <1>3, <1>4, <2>1 DEF CountInv, OutputInv
  <2>8. PrintInv'
    <3>1. Len(printed) <= curr /\ curr \in Nat /\ Len(printed) \in Nat
      <4>1. Len(printed) = (IF opts.printname THEN curr ELSE 0) \/ Len(printed) = 0
        BY <2>1 DEF PrintInv, OutputInv, RingPCs, PCs
      <4>2. printed \in Seq(Names) /\ curr \in Nat
        BY <1>0, TypesUsed
      <4> QED BY <4>1, <4>2
    <3>2. \A i \in 1..Len(printed) : i \notin fs'.open
      BY <1>4, <3>1
    <3> QED BY <1>1, <1>4, <2>1, <3>2 DEF PrintInv, OutputInv, RingPCs, PCs, Settled
  <2>9. OwnerInv'
    BY <1>1, <1>2, <1>4, <1>5, <2>1 DEF OwnerInv, OutputInv, RingPCs, PCs, Running
  <2> QED BY <2>4, <2>5, <2>6, <2>7, <2>8, <2>9 DEF OutputInv
<1> QED BY <1>6, <1>7

(* The first file is opened, or is not.                                    *)
LEMMA OpenFirstOutput ==
    ASSUME OutputInv, StreamInv, fs.bad = {}, UNCHANGED opts, Typing', OpenFirst \/ PrintNameTo
    PROVE  OutputInv'
<1> USE DEF loopvars, msgs, gzvars, rbvars
<1>0. Typing
  BY DEF OutputInv
<1>1. (OnlyFull' <=> OnlyFull) /\ (OnlyWrites' <=> OnlyWrites) /\ 1 \in Names /\ fs \in FsType
  BY <1>0, TypesUsed, MaxFilesAssumption DEF OnlyFull, OnlyWrites, Names
<1>2. CASE OpenFirst
  <2>1. PICK ok \in BOOLEAN : /\ ok = TRUE \/ (ok = FALSE /\ "start" \in opts.failures)
                              /\ InitRing(ok)
    BY <1>2 DEF OpenFirst, Outcomes
  <2>2. pc = "open" /\ pc' = "printname" /\ curr = 0 /\ nameH = "null" /\ printed = <<>>
        /\ UNCHANGED <<opts, ret, go, err, pdh, saveFile, fileCount, captured, inFile, inpkts,
                       wrote, parent, told, curr, rpdh, nameH, printed>>
    BY <1>2, <2>1 DEF OpenFirst, InitRing, StreamInv, Starting, OutputInv, PrintInv
  <2>3. /\ fs'.open = fs.open /\ fs'.bad = {} /\ fs'.disk = fs.disk /\ fs'.buf = fs.buf
        /\ fs'.closed = fs.closed /\ fs'.failed = fs.failed
        /\ ok => 1 \in heap' /\ files' # NoFiles
        /\ ~ok => files' = files
    <3>1. FsCreate(fs, 1).open = fs.open /\ FsCreate(fs, 1).bad = fs.bad
          /\ FsCreate(fs, 1).disk = fs.disk /\ FsCreate(fs, 1).buf = fs.buf
          /\ FsCreate(fs, 1).closed = fs.closed /\ FsCreate(fs, 1).failed = fs.failed
      BY <1>1, FsNamesIs
    <3>2. ok => files' # NoFiles
      <4>1. Slots \in Nat \ {0}
        BY <1>0, OptionTypes DEF Typing
      <4>2. ok => 0 \in DOMAIN files'
        BY <2>1, <4>1 DEF InitRing
      <4>3. 0 \notin DOMAIN NoFiles
        BY DEF NoFiles
      <4> QED BY <4>2, <4>3
    <3> QED BY <2>1, <3>1, <3>2 DEF InitRing
  <2>4. files = NoFiles
    BY <1>0, <2>2 DEF Typing, RingInv
  <2>5. StreamInv'
    BY <2>2, <2>3 DEF StreamInv, Starting, Running
  <2>6. FilesInv' /\ QuotaInv'
    BY <1>1, <2>2 DEF FilesInv, QuotaInv, OutputInv, Running
  <2>7. CountInv'
    BY <2>2, <2>3 DEF CountInv, OutputInv
  <2>8. PrintInv'
    BY <2>2, <2>3 DEF PrintInv, OutputInv, RingPCs, PCs
  <2>9. OwnerInv'
    <3>1. OnlyWrites => ok
      BY <2>1 DEF OnlyWrites
    <3> QED BY <1>1, <2>2, <2>3, <2>4, <3>1 DEF OwnerInv, OutputInv, RingPCs, PCs, Running
  <2> QED BY <2>5, <2>6, <2>7, <2>8, <2>9 DEF OutputInv
<1>3. CASE PrintNameTo
  <2>1. PICK ok \in BOOLEAN :
            /\ ok = TRUE \/ (ok = FALSE /\ "printname" \in opts.failures)
            /\ IF opts.printname THEN SetPrintName(ok) ELSE UNCHANGED rbvars
            /\ IF (opts.printname /\ ~ok) \/ files = NoFiles
                 THEN pc' = "cleanup" /\ UNCHANGED saveFile
                 ELSE pc' = "fdopen" /\ saveFile' = CurrentName
    BY <1>3 DEF PrintNameTo, Outcomes
  <2>2. pc = "printname" /\ curr = 0 /\ nameH = "null" /\ printed = <<>>
        /\ UNCHANGED <<opts, ret, go, err, pdh, fileCount, captured, inFile, inpkts,
                       wrote, parent, told, files, curr, rpdh, heap, fs, printed>>
    BY <1>3, <2>1 DEF PrintNameTo, SetPrintName, StreamInv, Starting, OutputInv, PrintInv
  <2>3. \/ pc' = "cleanup" /\ ((opts.printname /\ ~ok) \/ files = NoFiles)
        \/ /\ pc' = "fdopen" /\ saveFile' = 1 /\ curr + 1 \in heap
           /\ nameH' = IF opts.printname THEN "open" ELSE "null"
    <3>1. files # NoFiles => CurrentName = curr + 1 /\ curr + 1 \in heap
      BY <1>0, <2>2 DEF Typing, RingInv, OutputInv, OwnerInv
    <3>2. CASE (opts.printname /\ ~ok) \/ files = NoFiles
      BY <2>1, <3>2
    <3>3. CASE ~((opts.printname /\ ~ok) \/ files = NoFiles)
      BY <2>1, <2>2, <3>1, <3>3 DEF SetPrintName
    <3> QED BY <3>2, <3>3
  <2>5. StreamInv'
    BY <2>2, <2>3 DEF StreamInv, Starting, Running
  <2>6. FilesInv' /\ QuotaInv'
    BY <1>1, <2>2, <2>3 DEF FilesInv, QuotaInv, OutputInv, Running
  <2>7. CountInv'
    BY <2>2, <2>3 DEF CountInv, OutputInv
  <2>8. PrintInv'
    <3>1. Len(printed) = 0 /\ opts.printname \in BOOLEAN
      BY <1>0, <2>2, TypesUsed
    <3> QED BY <2>2, <2>3, <3>1 DEF PrintInv, OutputInv, RingPCs, PCs
  <2>9. OwnerInv'
    <3>1. OnlyWrites => ok /\ files # NoFiles
      BY <2>1, <2>2 DEF OnlyWrites, OwnerInv, OutputInv
    <3> QED BY <1>1, <2>2, <2>3, <3>1 DEF OwnerInv, OutputInv, RingPCs, PCs, Running
  <2> QED BY <2>2, <2>5, <2>6, <2>7, <2>8, <2>9 DEF OutputInv
<1> QED BY <1>2, <1>3

(* An output error is reported, and the last file closed and counted.      *)
LEMMA CloseOutputOutput ==
    ASSUME OutputInv, StreamInv, fs.bad = {}, UNCHANGED opts, Typing', ReportError \/ CloseOutput
    PROVE  OutputInv'
<1> USE DEF loopvars, msgs, gzvars, rbvars
<1>0. Typing
  BY DEF OutputInv
<1>1. (OnlyFull' <=> OnlyFull) /\ (OnlyWrites' <=> OnlyWrites)
  BY DEF OnlyFull, OnlyWrites
<1>2. /\ pc \in {"report", "close"} /\ parent # 0 /\ (InStep \/ Broken) /\ curr + 1 \in heap
      /\ fs \in FsType /\ curr \in Nat /\ curr + 1 \in Names /\ rpdh \in Names \cup {0}
      /\ CurrentName = curr + 1
  <2>1. pc \in {"report", "close"}
    BY DEF ReportError, CloseOutput
  <2> QED BY <1>0, <2>1, TypesUsed DEF StreamInv, Running, OutputInv, OwnerInv, RingPCs, PCs,
                                       Typing, RingInv
<1>3. CASE ReportError
  <2>1. pc = "report" /\ pc' = "close"
        /\ UNCHANGED <<opts, files, curr, fd, rpdh, nameH, heap, printed, ret, go, err, pdh, saveFile,
                       fileCount, captured, inFile, inpkts, wrote, parent, told>>
    BY <1>3 DEF ReportError
  <2>2. /\ fs'.open = fs.open /\ fs'.bad \subseteq {"name"} /\ fs'.disk = fs.disk /\ fs'.buf = fs.buf
        /\ fs'.closed = fs.closed /\ fs'.failed = fs.failed
        /\ InStep => fs'.bad = {}
    <3>1. Misuse(fs, "name").open = fs.open /\ Misuse(fs, "name").bad = {"name"}
          /\ Misuse(fs, "name").disk = fs.disk /\ Misuse(fs, "name").buf = fs.buf
          /\ Misuse(fs, "name").closed = fs.closed /\ Misuse(fs, "name").failed = fs.failed
      <4>1. "name" \in Misuses
        BY DEF Misuses
      <4> QED BY <1>2, <4>1, MisuseIs
    <3>2. InStep => saveFile \in heap
      BY <1>2 DEF InStep
    <3> QED BY <1>3, <3>1, <3>2 DEF ReportError
  <2>3. (InStep' <=> InStep) /\ (Broken' <=> Broken)
    BY <2>1, <2>2 DEF InStep, Broken, Settled
  <2>4. StreamInv'
    BY <2>1, <2>2, <2>3 DEF StreamInv, Starting, Running
  <2>5. FilesInv' /\ QuotaInv'
    BY <1>1, <2>1, <2>3 DEF FilesInv, QuotaInv, OutputInv, Running
  <2>6. CountInv' /\ PrintInv'
    BY <2>1, <2>2 DEF CountInv, PrintInv, OutputInv, RingPCs, PCs, Settled
  <2>7. OwnerInv'
    BY <1>1, <2>1, <2>2, <2>3 DEF OwnerInv, OutputInv, RingPCs, PCs, Running
  <2> QED BY <2>4, <2>5, <2>6, <2>7 DEF OutputInv
<1>4. CASE CloseOutput
  <2>1. PICK ok \in BOOLEAN : /\ ok = TRUE \/ (ok = FALSE /\ "close" \in opts.failures)
                              /\ DumpClose(ok)
    BY <1>4 DEF CloseOutput, Outcomes
  <2>2. pc = "close" /\ pc' = "count"
        /\ UNCHANGED <<opts, files, curr, heap, ret, go, err, pdh,
                       fileCount, captured, inFile, inpkts, wrote, parent, told>>
    BY <1>4, <2>1 DEF CloseOutput, DumpClose
  <2>3. nameH = IF opts.printname THEN "open" ELSE "null"
    BY <2>2 DEF OutputInv, PrintInv, RingPCs, PCs
  <2>4. fs' = IF rpdh # 0 THEN FsClose(fs, rpdh, ok) ELSE fs
    BY <2>1, <2>3 DEF DumpClose
  <2>5. /\ fs'.bad \subseteq {"fclose"} /\ fs'.open = {} /\ (InStep => fs'.bad = {})
        /\ Keeps(fs, fs') /\ (InStep => curr + 1 \in fs'.closed)
        /\ \A m \in Names : m \notin fs'.open /\ (m \notin fs.open => fs.buf[m] = 0) => fs'.buf[m] = 0
    <3>1. CASE rpdh # 0
      <4>1. /\ FsClose(fs, rpdh, ok).open = fs.open \ {rpdh}
            /\ FsClose(fs, rpdh, ok).bad \subseteq fs.bad \cup {"fclose"}
            /\ rpdh \in fs.open => FsClose(fs, rpdh, ok).bad = fs.bad
            /\ rpdh \in fs.open => rpdh \in FsClose(fs, rpdh, ok).closed
            /\ Keeps(fs, FsClose(fs, rpdh, ok))
            /\ \A m \in Names :
                  /\ m # rpdh \/ m \notin fs.open =>
                        FsClose(fs, rpdh, ok).buf[m] = fs.buf[m] /\ FsClose(fs, rpdh, ok).disk[m] = fs.disk[m]
                  /\ m = rpdh /\ m \in fs.open => FsClose(fs, rpdh, ok).buf[m] = 0
        BY <1>2, CloseKeeps
      <4>2. fs.open \ {rpdh} = {} /\ (InStep => rpdh \in fs.open /\ rpdh = curr + 1)
            /\ \A m \in fs.open : m = rpdh
        BY <1>2 DEF InStep, Broken
      <4>3. fs' = FsClose(fs, rpdh, ok)
        BY <2>4, <3>1
      <4>4. \A m \in Names : (m \notin fs.open => fs.buf[m] = 0) => FsClose(fs, rpdh, ok).buf[m] = 0
        BY <4>1, <4>2
      <4>5. fs.bad = {}
        OBVIOUS
      <4> QED BY <4>1, <4>2, <4>3, <4>4, <4>5
    <3>2. CASE rpdh = 0
      <4>1. fs' = fs /\ fs.open = {} /\ ~InStep
        BY <1>2, <2>4, <3>2 DEF InStep, Broken
      <4>2. \A m \in Names : fs.disk[m] \in Nat
        BY <1>0, TypesUsed
      <4> QED BY <4>1, <4>2 DEF Keeps
    <3> QED BY <3>1, <3>2
  <2>5a. /\ fs.closed \subseteq fs'.closed /\ fs.failed \subseteq fs'.failed
         /\ curr + 1 \in fs'.closed \cup fs'.failed
    <3>1. fs.closed \subseteq fs'.closed /\ fs.failed \subseteq fs'.failed
      BY <2>5 DEF Keeps
    <3> QED BY <1>2, <2>5, <3>1 DEF Broken, Settled
  <2>6. StreamInv'
    BY <1>2, <2>2, <2>5 DEF StreamInv, Starting, Running
  <2>7. FilesInv' /\ QuotaInv'
    BY <1>1, <2>2 DEF FilesInv, QuotaInv, OutputInv, Running
  <2>8. CountInv'
    <3>1. CountInv
      BY DEF OutputInv
    <3> QED BY <1>0, <2>1, <2>2, <2>5, <3>1, CountsKept
  <2>9. PrintInv'
    <3>1. PrintInv /\ Len(printed) = (IF opts.printname THEN curr ELSE 0) /\ printed \in Seq(Names)
          /\ opts.printname \in BOOLEAN
      BY <1>0, <2>2, TypesUsed DEF OutputInv, PrintInv, RingPCs, PCs
    <3>2. printed' = IF nameH = "null" THEN printed ELSE Append(printed, curr + 1)
      BY <1>2, <2>1 DEF DumpClose, PrintName
    <3>3. CASE opts.printname
      <4>1. printed' = Append(printed, curr + 1) /\ Len(printed) = curr
        BY <2>3, <3>1, <3>2, <3>3
      <4>2. Len(printed') = curr + 1 /\ \A i \in 1..curr + 1 : printed'[i] = i
        BY <1>2, <3>1, <4>1 DEF PrintInv
      <4>3. \A i \in 1..curr + 1 : i \notin fs'.open /\ i \in fs'.closed \cup fs'.failed
        <5>1. \A i \in 1..curr : i \in fs.closed \cup fs.failed
          BY <3>1, <4>1 DEF PrintInv, Settled
        <5>2. \A i \in 1..curr + 1 : i \in 1..curr \/ i = curr + 1
          BY <1>2
        <5> QED BY <2>5, <2>5a, <5>1, <5>2
      <4>4. \A i \in 1..curr + 1 : i < curr + 1 \/ i <= curr => i \in fs'.closed
        <5>1. \A i \in 1..curr : i \in fs.closed
          BY <1>2, <3>1, <4>1 DEF PrintInv
        <5>2. \A i \in 1..curr + 1 : i < curr + 1 \/ i <= curr => i \in 1..curr
          BY <1>2
        <5> QED BY <2>5a, <5>1, <5>2
      <4> QED BY <2>2, <3>3, <4>2, <4>3, <4>4 DEF PrintInv, RingPCs, PCs, Settled
    <3>4. CASE ~opts.printname
      BY <2>2, <2>3, <2>5, <3>1, <3>2, <3>4 DEF PrintInv, RingPCs, PCs, Settled
    <3> QED BY <3>1, <3>3, <3>4
  <2>10. OwnerInv'
    BY <1>1, <1>2, <2>2, <2>5 DEF OwnerInv, OutputInv, RingPCs, PCs, Running
  <2> QED BY <2>6, <2>7, <2>8, <2>9, <2>10 DEF OutputInv
<1> QED BY <1>3, <1>4

(* The last count of the capture.                                          *)
LEMMA FinalCountOutput ==
    ASSUME OutputInv, StreamInv, fs.bad = {}, UNCHANGED opts, Typing', FinalCount
    PROVE  OutputInv'
<1> USE DEF loopvars, msgs, gzvars, rbvars
<1>0. Typing
  BY DEF OutputInv
<1>1. (OnlyFull' <=> OnlyFull) /\ (OnlyWrites' <=> OnlyWrites)
  BY DEF OnlyFull, OnlyWrites
<1>2. /\ pc = "count" /\ pc' = "exit" /\ inpkts' = 0
      /\ UNCHANGED <<opts, files, curr, fd, rpdh, nameH, heap, printed, fs, ret, go, err, pdh, saveFile,
                     fileCount, captured, inFile, wrote, parent>>
  BY DEF FinalCount, Count
<1>3. parent # 0 /\ fs.open = {} /\ parent \in Names
  BY <1>0, <1>2, TypesUsed DEF StreamInv
<1>4. \A m \in Names : told'[m] = wrote[m] /\ told'[m] = told[m] + (IF m = parent THEN inpkts ELSE 0)
  <2>1. told' = [told EXCEPT ![parent] = @ + inpkts]
    BY <1>3 DEF FinalCount, Count
  <2>2. \A m \in Names : told'[m] = told[m] + (IF m = parent THEN inpkts ELSE 0)
    BY <1>0, <2>1, TypesUsed, Added
  <2> QED BY <1>3, <2>2 DEF OutputInv, CountInv
<1>5. StreamInv'
  BY <1>2, <1>3 DEF StreamInv, Starting, Running
<1>6. FilesInv' /\ QuotaInv'
  BY <1>1, <1>2 DEF FilesInv, QuotaInv, OutputInv, Running
<1>7. CountInv'
  <2>1. \A m \in Names : wrote[m] \in Nat /\ fs.disk[m] \in Nat /\ fs.buf[m] \in Nat
    BY <1>0, TypesUsed
  <2>2. ASSUME NEW m \in Names \ fs.failed
        PROVE  fs.disk[m] + fs.buf[m] = wrote[m] /\ told'[m] <= fs.disk[m]
    <3>1. fs.disk[m] + fs.buf[m] = wrote[m] /\ fs.buf[m] = 0
      BY <1>3, <2>2 DEF OutputInv, CountInv
    <3> QED BY <1>4, <2>1, <3>1
  <2>3. \A m \in Names : told'[m] + (IF m = parent THEN 0 ELSE 0) = wrote[m]
    BY <1>4, <2>1
  <2>4. \A m \in Names : m \notin fs.open => fs.buf[m] = 0
    BY DEF OutputInv, CountInv
  <2> QED BY <1>2, <2>2, <2>3, <2>4 DEF CountInv
<1>8. PrintInv'
  BY <1>2 DEF PrintInv, OutputInv, RingPCs, PCs, Settled
<1>9. OwnerInv'
  <2>1. files # NoFiles
    <3>1. files \in [0..Slots-1 -> Names \cup {0}] /\ Slots \in Nat \ {0}
      BY <1>0, <1>2, OptionTypes DEF Typing, RingInv, RingHere, RingPCs, PCs
    <3>2. 0 \in DOMAIN files /\ 0 \notin DOMAIN NoFiles
      BY <3>1 DEF NoFiles
    <3> QED BY <3>2
  <2> QED BY <1>1, <1>2, <1>3, <2>1 DEF OwnerInv, OutputInv, RingPCs, PCs, Running
<1> QED BY <1>2, <1>5, <1>6, <1>7, <1>8, <1>9 DEF OutputInv

(* The ring is given back, and the process ends.                           *)
LEMMA EndOutput ==
    ASSUME OutputInv, StreamInv, fs.bad = {}, UNCHANGED opts, Typing',
           Cleanup \/ Exit \/ CompressFiles
    PROVE  OutputInv'
<1> USE DEF loopvars, msgs, gzvars, rbvars
<1>0. Typing /\ fs \in FsType /\ GzTypes /\ RingTypes
  BY DEF OutputInv, Typing
<1>1. (OnlyFull' <=> OnlyFull) /\ (OnlyWrites' <=> OnlyWrites)
  BY DEF OnlyFull, OnlyWrites
<1>2. UNCHANGED <<ret, go, err, pdh, fileCount, captured, inFile, inpkts, wrote, parent, told, curr, printed>>
  <2>1. Cleanup \/ Exit => UNCHANGED <<curr, printed>>
    BY DEF Cleanup, ErrorCleanup, Exit, Free
  <2> QED BY <2>1 DEF Cleanup, Exit, CompressFiles, Compress
<1>3. CountInv
  BY DEF OutputInv
<1>4. CASE CompressFiles
  <2>1. /\ UNCHANGED <<files, curr, fd, rpdh, nameH, heap, printed>>
        /\ fs'.bad = fs.bad /\ fs'.open = fs.open /\ fs'.disk = fs.disk /\ fs'.buf = fs.buf
        /\ fs'.closed = fs.closed /\ fs'.failed = fs.failed
    BY <1>0, <1>4, CompressIs DEF CompressFiles
  <2>2. pc' = pc /\ saveFile' = saveFile
    BY <1>4 DEF CompressFiles
  <2>3. (InStep' <=> InStep) /\ (Broken' <=> Broken)
    BY <1>2, <2>1, <2>2 DEF InStep, Broken, Settled
  <2>4. StreamInv'
    BY <1>2, <2>1, <2>2, <2>3 DEF StreamInv
  <2>5. FilesInv' /\ QuotaInv'
    BY <1>1, <1>2, <2>1, <2>2, <2>3 DEF FilesInv, QuotaInv, OutputInv
  <2>6. CountInv' /\ PrintInv'
    BY <1>2, <1>3, <2>1, <2>2 DEF CountInv, PrintInv, OutputInv, Settled
  <2>7. OwnerInv'
    BY <1>1, <1>2, <2>1, <2>2, <2>3 DEF OwnerInv, OutputInv
  <2> QED BY <2>4, <2>5, <2>6, <2>7 DEF OutputInv
<1>5. CASE Cleanup
  <2>1. pc \in {"cleanup", "error"} /\ pc' \in {"error", "exit"} /\ saveFile' = saveFile /\ ErrorCleanup
    BY <1>5 DEF Cleanup
  <2>2. /\ Keeps(fs, fs')
        /\ \A m \in Names : m \notin fs'.open /\ (m \notin fs.open => fs.buf[m] = 0) => fs'.buf[m] = 0
    BY <1>0, <2>1, GivenBackIs
  <2>3. /\ curr = 0 /\ parent = 0 /\ inpkts = 0 /\ inFile = 0 /\ printed = <<>>
        /\ told = [n \in Names |-> 0] /\ wrote = [n \in Names |-> 0] /\ ~OnlyWrites
    BY <2>1 DEF StreamInv, Starting, OutputInv, OwnerInv
  <2>4. StreamInv'
    BY <1>2, <2>1, <2>3 DEF StreamInv, Starting, Running
  <2>5. FilesInv' /\ QuotaInv'
    BY <1>1, <1>2, <2>1, <2>3 DEF FilesInv, QuotaInv, OutputInv, Running
  <2>6. CountInv'
    BY <1>0, <1>2, <1>3, <2>1, <2>2, <2>3, CountsKept
  <2>7. PrintInv'
    BY <1>2, <2>1, <2>3 DEF PrintInv, OutputInv, RingPCs, PCs
  <2>8. OwnerInv'
    BY <1>1, <1>2, <2>1, <2>3 DEF OwnerInv, OutputInv, RingPCs, PCs, Running
  <2> QED BY <2>4, <2>5, <2>6, <2>7, <2>8 DEF OutputInv
<1>6. CASE Exit
  <2>1. pc = "exit" /\ pc' = "end"
    BY <1>6 DEF Exit
  <2>2. /\ fs'.open \subseteq fs.open
        /\ files # NoFiles => fs'.bad = {}
        /\ Keeps(fs, fs')
        /\ \A m \in Names : m \notin fs'.open /\ (m \notin fs.open => fs.buf[m] = 0) => fs'.buf[m] = 0
    <3>1. CASE files # NoFiles
      <4>1. Free
        BY <1>6, <3>1 DEF Exit
      <4> QED BY <1>0, <4>1, GivenBackIs
    <3>2. CASE files = NoFiles
      <4>1. fs' = fs \/ fs' = Misuse(fs, "free")
        BY <1>6, <3>2 DEF Exit
      <4>2. "free" \in Misuses
        BY DEF Misuses
      <4>3. /\ fs'.open = fs.open /\ fs'.disk = fs.disk /\ fs'.buf = fs.buf
            /\ fs'.closed = fs.closed /\ fs'.failed = fs.failed
        BY <1>0, <4>1, <4>2, MisuseIs
      <4>4. \A m \in Names : fs.disk[m] \in Nat
        BY <1>0, TypesUsed
      <4> QED BY <3>2, <4>3, <4>4 DEF Keeps
    <3> QED BY <3>1, <3>2
  <2>2a. fs.closed \subseteq fs'.closed /\ fs.failed \subseteq fs'.failed
    BY <2>2 DEF Keeps
  <2>3. parent # 0 => files # NoFiles
    BY <2>1 DEF OutputInv, OwnerInv
  <2>4. StreamInv'
    BY <1>2, <2>1, <2>2 DEF StreamInv, Starting, Running
  <2>5. FilesInv' /\ QuotaInv'
    BY <1>1, <1>2, <2>1 DEF FilesInv, QuotaInv, OutputInv, Running
  <2>6. CountInv'
    BY <1>0, <1>2, <1>3, <2>1, <2>2, CountsKept
  <2>7. PrintInv'
    BY <1>2, <2>1, <2>2, <2>2a DEF PrintInv, OutputInv, RingPCs, PCs, Settled
  <2>8. OwnerInv'
    BY <1>1, <1>2, <2>1, <2>2, <2>3 DEF OwnerInv, OutputInv, RingPCs, PCs, Running
  <2> QED BY <2>4, <2>5, <2>6, <2>7, <2>8 DEF OutputInv
<1> QED BY <1>4, <1>5, <1>6

(* Every step keeps the invariant.                                         *)
LEMMA NextOutput == OutputInv /\ [Next]_vars => OutputInv'
<1> SUFFICES ASSUME OutputInv, [Next]_vars PROVE OutputInv'
  OBVIOUS
<1>1. Typing'
  BY NextTyping DEF OutputInv
<1>2. CASE fs.bad = {} /\ Step /\ UNCHANGED opts
  <2>1. StreamInv
    BY <1>2 DEF OutputInv
  <2>2. CASE \/ OpenFirst \/ PrintNameTo \/ FirstFdopen \/ FirstHeader \/ Start
             \/ LoopTest \/ NoPacket \/ WritePacket \/ WriteError \/ NoUpdate \/ Update \/ Interval
    BY <1>1, <1>2, <2>1, <2>2, OpenFirstOutput, FdopenOutput, HeaderOutput, AnnounceOutput, LoopOutput,
       WriteOutput, UpdateOutput
  <2>3. CASE \/ SwitchOrStop \/ CloseCurrent \/ OpenNext \/ FdopenNext \/ WriteHeader \/ Announce
    BY <1>1, <1>2, <2>1, <2>3, LoopOutput, CloseCurrentOutput, OpenNextOutput, FdopenOutput, HeaderOutput,
       AnnounceOutput
  <2>4. CASE \/ ReportError \/ CloseOutput \/ FinalCount \/ Cleanup \/ Exit
             \/ Signal \/ CompressFiles \/ Ended
    BY <1>1, <1>2, <2>1, <2>4, CloseOutputOutput, FinalCountOutput, EndOutput, LoopOutput
  <2> QED BY <1>2, <2>2, <2>3, <2>4 DEF Step
<1>3. CASE UNCHANGED vars
  <2>1. UNCHANGED <<opts, files, curr, fd, rpdh, nameH, heap, printed, fs, pc, ret, go, err, pdh,
                    saveFile, fileCount, captured, inFile, inpkts, wrote, parent, told>>
    BY <1>3 DEF vars, rbvars, loopvars, msgs
  <2>2. StreamInv' <=> StreamInv
    BY <2>1 DEF StreamInv, InStep, Broken, Settled
  <2>3. (FilesInv' <=> FilesInv) /\ (QuotaInv' <=> QuotaInv)
    BY <2>1 DEF FilesInv, QuotaInv, InStep, OnlyFull
  <2>4. (CountInv' <=> CountInv) /\ (PrintInv' <=> PrintInv)
    BY <2>1 DEF CountInv, PrintInv, Settled
  <2>5. OwnerInv' <=> OwnerInv
    BY <2>1 DEF OwnerInv, InStep, OnlyWrites
  <2> QED BY <1>1, <2>1, <2>2, <2>3, <2>4, <2>5 DEF OutputInv
<1> QED BY <1>2, <1>3 DEF Next, Undefined

(* So it always holds.                                                     *)
LEMMA OutputAlways == Spec => []OutputInv
BY InitOutput, NextOutput, PTL DEF Spec

(***************************************************************************)
(* The properties.                                                         *)
(***************************************************************************)
(* Of a file none of whose writes, flushes and closes has failed so far    *)
(* the parent is never told of a packet that is not in it; and at the end, *)
(* whatever failed, it was told of every packet under the name of its file.*)
THEOREM CountsAreTrue == Spec => []CountsTrue
<1>1. OutputInv => CountsTrue
  <2> SUFFICES ASSUME OutputInv PROVE CountsTrue
    OBVIOUS
  <2>1. CountInv /\ told \in [Names -> Nat] /\ wrote \in [Names -> Nat]
    BY TypesUsed DEF OutputInv
  <2>2. FinalCounts
    <3> SUFFICES ASSUME pc \in {"exit", "end"}, parent # 0 PROVE told = wrote
      BY DEF FinalCounts
    <3>1. \A n \in Names : told[n] = wrote[n]
      <4>1. \A n \in Names : told[n] + (IF n = parent THEN 0 ELSE 0) = wrote[n] /\ told[n] \in Nat
        BY <2>1 DEF CountInv
      <4> QED BY <4>1
    <3> QED BY <2>1, <3>1
  <2> QED BY <2>1, <2>2 DEF CountsTrue, CountsOnDisk, CountInv
<1> QED BY <1>1, OutputAlways, PTL

(* As long as only writing fails no stream or name is misused, and once    *)
(* the capture has started save_file is freed once whatever fails.         *)
THEOREM OneOwnerAlways == Spec => []OneOwner
<1>1. OutputInv => OneOwner
  BY DEF OutputInv, OwnerInv, OnlyWrites, OneOwner, NoMisuse, SaveFileFreedOnce
<1> QED BY <1>1, OutputAlways, PTL

(* No file has more packets than -b packets, each but the last has as many *)
(* unless something else may end a file, and no more files are opened than *)
(* -a files.                                                               *)
THEOREM QuotasHold == Spec => []Quotas
<1>1. OutputInv => Quotas
  BY DEF OutputInv, QuotaInv, FilesInv, OnlyFull, Quotas, FileQuota, FilesQuota
<1> QED BY <1>1, OutputAlways, PTL

(* A file whose name is printed has been closed and has all its packets,   *)
(* unless opening, writing, flushing or closing it failed; only the last   *)
(* may never have been closed; the names are in order, in the end all.     *)
THEOREM AllPrintedInOrder == Spec => []PrintedInOrder
<1>1. OutputInv => PrintedInOrder
  <2> SUFFICES ASSUME OutputInv PROVE PrintedInOrder
    OBVIOUS
  <2>1. /\ DOMAIN printed = 1..Len(printed) /\ printed \in Seq(Names)
        /\ \A n \in Names : fs.disk[n] \in Nat /\ fs.buf[n] \in Nat
    <3>1. Typing
      BY DEF OutputInv
    <3>2. fs.disk \in [Names -> Nat] /\ fs.buf \in [Names -> Nat] /\ printed \in Seq(Names)
      BY <3>1, TypesUsed
    <3> QED BY <3>2
  <2>2. ASSUME NEW i \in DOMAIN printed
        PROVE  /\ printed[i] = i /\ i \notin fs.open
               /\ i \in fs.failed \/ (i \in fs.closed /\ fs.disk[i] = wrote[i])
               /\ i < Len(printed) => i \in fs.closed
    <3>1. /\ printed[i] = i /\ i \notin fs.open /\ i \in fs.closed \cup fs.failed
          /\ i < Len(printed) => i \in fs.closed
      BY <2>1, <2>2 DEF OutputInv, PrintInv, Settled
    <3>2. i \in Names
      BY <2>1, <3>1
    <3>3. i \notin fs.failed => fs.disk[i] + fs.buf[i] = wrote[i] /\ fs.buf[i] = 0
      BY <3>1, <3>2 DEF OutputInv, CountInv
    <3> QED BY <2>1, <3>1, <3>2, <3>3
  <2>3. (pc = "end" /\ opts.printname /\ parent # 0) => Len(printed) = curr + 1
    BY DEF OutputInv, PrintInv
  <2> QED BY <2>2, <2>3 DEF PrintedInOrder
<1> QED BY <1>1, OutputAlways, PTL

(***************************************************************************)
(* The directory.                                                          *)
(***************************************************************************)
(* The number of the last file opened, or tried; whether all packets of a  *)
(* file are in a compressed file that is taken for complete.               *)
Top      == IF pc = "rbopen" THEN curr ELSE curr + 1
Whole(n) == gz[n] = fs.disk[n] \/ ("gzclose" \in opts.failures /\ gz[n] = Torn)
Latest   == {n \in 1..Top : Unlimited \/ n + opts.files > Top}

(* The slots have the names of the last files, each in its own; those not  *)
(* yet used are empty.                                                     *)
SlotInv ==
    files # NoFiles =>
        /\ RingHere
        /\ \A n \in 1..Top : n + Slots > Top => files[(n - 1) % Slots] = n
        /\ \A i \in 0..Slots-1 : i >= Top => files[i] = 0

(* Threads compress closed files of unlimited sets only; what is removed,  *)
(* or remembered to be, is in a compressed file.                           *)
Started == {n \in Names : thread[n] # "none"}

ThreadInv ==
    /\ \A n \in Names :
          /\ thread[n] # "none" => Unlimited /\ n < Top
          /\ thread[n] \in {"none", "begin", "copy"} => gz[n] = None
          /\ thread[n] \in {"unlink", "cleanup"} => Whole(n)
          /\ thread[n] = "ended" => gz[n] = None \/ gz[n] = Torn \/ Whole(n)
          /\ thread[n] = "ended" /\ gz[n] # None /\ n \in fs.exists =>
                n \in oldnames \/ gz[n] = Torn \/ Cardinality(Started) > MAX_FILENAME_QUEUE
    /\ \A n \in oldnames : thread[n] = "ended" /\ n \in fs.exists /\ Whole(n)

(* The files of the directory are the last ones.                           *)
NewThere == {"fdopen", "firstheader", "start", "rbfdopen", "header", "announce"}

ExistInv ==
    /\ \A n \in fs.exists : n \in 1..Top /\ (Unlimited \/ n + opts.files > Top)
    /\ files # NoFiles /\ ~err => \A n \in Latest : n \in fs.exists \/ Whole(n)
    /\ pc \in NewThere \/ (pc = "printname" /\ files # NoFiles) => curr + 1 \in fs.exists
    /\ parent # 0 /\ opts.files # 1 => parent \in fs.exists \/ Whole(parent)

KeptInv == SlotInv /\ ThreadInv /\ ExistInv

(***************************************************************************)
(* Slots: a number modulo that of slots.                                   *)
(***************************************************************************)
(* A number is its quotient times the divisor, and its remainder.          *)
LEMMA Remainder ==
    ASSUME NEW a \in Nat, NEW k \in Nat \ {0}
    PROVE  a = k * (a \div k) + (a % k) /\ a \div k \in Int /\ a % k \in 0..k-1
<1>1. a = k * (a \div k) + (a % k)
  BY Z3
<1>2. a \div k \in Int /\ a % k \in 0..k-1
  OBVIOUS
<1> QED BY <1>1, <1>2

(* A multiple of a number that is between it and its negative is 0.        *)
LEMMA SmallMultiple ==
    ASSUME NEW k \in Nat \ {0}, NEW q \in Int, -k < k * q, k * q < k
    PROVE  q = 0
<1>1. CASE q >= 1
  <2>1. k * q >= k
    BY <1>1
  <2> QED BY <2>1
<1>2. CASE q <= -1
  <2>1. k * q <= -k
    BY <1>2
  <2> QED BY <2>1
<1> QED BY <1>1, <1>2

(* Numbers that are closer than there are slots have different slots.      *)
LEMMA SlotsApart ==
    ASSUME NEW k \in Nat \ {0}, NEW a \in Nat, NEW b \in Nat, a < b, b - a < k
    PROVE  a % k # b % k
<1> SUFFICES ASSUME a % k = b % k PROVE FALSE
  OBVIOUS
<1>1. PICK q \in Int, p \in Int : a = k * q + (a % k) /\ b = k * p + (b % k)
  BY Remainder
<1>2. a % k \in Int
  BY Remainder
<1>3. b - a = k * p - k * q
  BY <1>1, <1>2
<1>4. k * p - k * q = k * (p - q)
  OBVIOUS
<1>5. p - q = 0
  <2>1. -k < k * (p - q) /\ k * (p - q) < k
    BY <1>3, <1>4
  <2> QED BY <2>1, SmallMultiple
<1>6. k * p = k * q
  BY <1>5
<1> QED BY <1>3, <1>6

(* The first numbers have slots of their own.                              *)
LEMMA SlotSmall ==
    ASSUME NEW k \in Nat \ {0}, NEW a \in Nat, a < k
    PROVE  a % k = a
OBVIOUS

(* A number has the slot of the one that is as many below it as there are  *)
(* slots.                                                                  *)
LEMMA SlotAgain ==
    ASSUME NEW k \in Nat \ {0}, NEW a \in Nat, a >= k
    PROVE  (a - k) % k = a % k
<1>1. a - k \in Nat
  OBVIOUS
<1>2. PICK q \in Int, r \in 0..k-1 : a = k * q + r /\ r = a % k
  BY Remainder
<1>3. PICK p \in Int, s \in 0..k-1 : a - k = k * p + s /\ s = (a - k) % k
  BY <1>1, Remainder
<1>4. k * (q - p - 1) = k * q - k * p - k
  <2>1. k * (q - p - 1) = k * (q - p) - k
    OBVIOUS
  <2>2. k * (q - p) = k * q - k * p
    OBVIOUS
  <2> QED BY <2>1, <2>2
<1>5. k * (q - p - 1) = s - r
  <2>1. PICK x \in Int, y \in Int : x = k * q /\ y = k * p
    OBVIOUS
  <2>2. a = x + r /\ a - k = y + s
    BY <1>2, <1>3, <2>1
  <2>3. s - r = x - y - k
    BY <2>2
  <2> QED BY <1>4, <2>1, <2>3
<1>6. q - p - 1 = 0
  <2>1. -k < s - r /\ s - r < k
    BY <1>2, <1>3
  <2> QED BY <1>5, <2>1, SmallMultiple
<1>7. s = r
  <2>1. k * (q - p - 1) = 0
    BY <1>6
  <2> QED BY <1>5, <2>1
<1> QED BY <1>2, <1>3, <1>7

(***************************************************************************)
(* The steps that leave the names of the directory alone.                  *)
(***************************************************************************)
(* Only the stream of the last file is ever open.                          *)
LEMMA OpenIsTop ==
    ASSUME Typing, StreamInv
    PROVE  /\ Top \in Nat /\ Top <= curr + 1 /\ (pc # "rbopen" => Top = curr + 1)
           /\ \A n \in fs.open : n >= Top
<1>1. curr \in Nat /\ curr + 1 \in Names /\ Names \subseteq Nat \ {0} /\ fs.open \subseteq Names /\ pc \in PCs
  BY TypesUsed
<1>2. Top \in Nat /\ Top <= curr + 1 /\ (pc # "rbopen" => Top = curr + 1)
  BY <1>1 DEF Top
<1>3. CASE pc \in Starting \/ (pc \in {"exit", "end"} /\ parent = 0)
  <2>1. curr = 0
    BY <1>3 DEF StreamInv
  <2>2. Top <= 1
    BY <1>2, <2>1
  <2>3. \A n \in fs.open : n \in Nat \ {0}
    BY <1>1
  <2> QED BY <1>2, <2>2, <2>3
<1>4. CASE pc \in Running
  <2>1. fs.open \subseteq {curr + 1}
    BY <1>4 DEF StreamInv, InStep, Broken
  <2> QED BY <1>1, <1>2, <2>1
<1>5. CASE pc \in {"rbopen", "rbfdopen", "count"} \/ (pc \in {"exit", "end"} /\ parent # 0)
  <2>1. fs.open = {}
    BY <1>5 DEF StreamInv
  <2> QED BY <1>2, <2>1
<1>6. CASE pc \in {"header", "announce"}
  BY <1>1, <1>2, <1>6 DEF StreamInv
<1> QED BY <1>1, <1>2, <1>3, <1>4, <1>5, <1>6 DEF PCs, Starting, Running

(* A file that is not compressed yet is not in a compressed file.          *)
LEMMA NotWhole ==
    ASSUME Typing, NEW n \in Names, gz[n] = None
    PROVE  ~Whole(n)
<1>1. fs.disk[n] \in Nat /\ gz[n] # Torn
  BY DEF Typing, FsType, None, Torn
<1> QED BY <1>1 DEF Whole, None

(* A step that leaves the names of the directory and the threads alone     *)
(* keeps all of it, if the file it goes to is there, and that of the       *)
(* parent.                                                                 *)
LEMMA KeptStays ==
    ASSUME Typing, Typing', KeptInv, \A n \in fs.open : n >= Top,
           UNCHANGED <<opts, files, thread, gz, oldnames>>, Top' = Top,
           fs'.exists = fs.exists, \A n \in Names \ fs.open : fs'.disk[n] = fs.disk[n],
           err => err',
           pc' \in NewThere \/ (pc' = "printname" /\ files # NoFiles) => curr' + 1 \in fs.exists,
           parent' # 0 /\ opts.files # 1 => parent' \in fs.exists \/ parent' = parent
    PROVE  KeptInv'
<1>0. Slots' = Slots /\ (Unlimited' <=> Unlimited) /\ Latest' = Latest /\ Started' = Started
  BY DEF Slots, Unlimited, Latest, Started
<1>1. \A n \in Names : Whole(n)' <=> Whole(n)
  <2> SUFFICES ASSUME NEW n \in Names PROVE Whole(n)' <=> Whole(n)
    OBVIOUS
  <2>1. CASE gz[n] = None
    <3>1. fs'.disk[n] \in Nat
      BY DEF Typing, FsType
    <3>2. ~Whole(n)
      BY <2>1, NotWhole
    <3>3. ~Whole(n)'
      BY <2>1, <3>1 DEF Whole, None, Torn
    <3> QED BY <3>2, <3>3
  <2>2. CASE gz[n] # None
    <3>1. thread[n] # "none"
      BY <2>2 DEF KeptInv, ThreadInv
    <3>2. n < Top /\ n \in Nat /\ Top \in Nat
      BY <3>1, TypesUsed DEF KeptInv, ThreadInv, Top
    <3>3. n \notin fs.open
      BY <3>2
    <3> QED BY <3>3 DEF Whole
  <2> QED BY <2>1, <2>2
<1>2. SlotInv'
  BY <1>0 DEF KeptInv, SlotInv, RingHere
<1>3. ThreadInv'
  <2>1. oldnames \subseteq Names
    BY DEF Typing, GzTypes
  <2> QED BY <1>0, <1>1, <2>1 DEF KeptInv, ThreadInv
<1>4. ExistInv'
  <2>1. Latest \subseteq Names
    <3>1. Top \in Nat /\ Top <= MaxFiles
      BY MaxFilesAssumption DEF Typing, RingTypes, Top
    <3> QED BY <3>1, MaxFilesAssumption DEF Latest, Names
  <2>2. files' # NoFiles /\ ~err' => \A n \in Latest' : n \in fs'.exists \/ Whole(n)'
    BY <1>0, <1>1, <2>1 DEF KeptInv, ExistInv
  <2>3. parent' # 0 /\ opts'.files # 1 => parent' \in fs'.exists \/ Whole(parent)'
    <3> SUFFICES ASSUME parent' # 0, opts.files # 1, parent' \notin fs.exists
                 PROVE  Whole(parent)'
      OBVIOUS
    <3>1. parent' = parent /\ parent \in Names
      BY TypesUsed
    <3>2. Whole(parent)
      BY <3>1 DEF KeptInv, ExistInv
    <3>3. PICK n \in Names : n = parent
      BY <3>1
    <3> QED BY <1>1, <3>1, <3>2, <3>3 DEF Whole
  <2> QED BY <1>0, <2>2, <2>3 DEF KeptInv, ExistInv
<1> QED BY <1>2, <1>3, <1>4 DEF KeptInv

(* The calls on streams leave the names alone, and the packets on the disk *)
(* of the files that are not open.                                         *)
SameNames(f, g) ==
    g.exists = f.exists /\ \A m \in Names \ f.open : g.disk[m] = f.disk[m]

(* That is what closing, flushing, writing and opening a stream do.        *)
LEMMA StreamCalls ==
    ASSUME NEW f \in FsType, NEW n \in Names \cup {0}
    PROVE  /\ \A ok \in BOOLEAN : SameNames(f, FsClose(f, n, ok))
           /\ SameNames(f, FsClose(f, n, TRUE))
           /\ SameNames(f, FsWrite(f, n))
           /\ \A ok \in BOOLEAN : SameNames(f, FsFlush(f, n, ok))
           /\ \A ok \in BOOLEAN : SameNames(f, FsFlush(FsWrite(f, n), n, ok))
           /\ \A ns \in SUBSET Names : SameNames(f, FsFail(f, ns))
           /\ \A what \in Misuses : SameNames(f, Misuse(f, what))
           /\ n \in Names => SameNames(f, FsOpen(f, n))
<1>1. ASSUME NEW ok \in BOOLEAN PROVE SameNames(f, FsClose(f, n, ok))
  <2>1. /\ FsClose(f, n, ok).exists = f.exists
        /\ \A m \in Names : m \notin f.open \/ m # n => FsClose(f, n, ok).disk[m] = f.disk[m]
    BY CloseFrame
  <2> QED BY <2>1 DEF SameNames
<1>2. ASSUME NEW g \in FsType, NEW ok \in BOOLEAN PROVE SameNames(g, FsFlush(g, n, ok))
  <2>1. /\ FsFlush(g, n, ok).exists = g.exists
        /\ \A m \in Names : m \notin g.open => FsFlush(g, n, ok).disk[m] = g.disk[m]
    BY FlushFrame
  <2> QED BY <2>1 DEF SameNames
<1>3. SameNames(f, FsWrite(f, n))
  BY FsWriteIs DEF SameNames
<1>4. ASSUME NEW ok \in BOOLEAN PROVE SameNames(f, FsFlush(FsWrite(f, n), n, ok))
  <2>1. PICK g \in FsType : g = FsWrite(f, n) /\ g.open = f.open /\ g.exists = f.exists /\ g.disk = f.disk
    BY FsWriteIs
  <2>2. SameNames(g, FsFlush(g, n, ok))
    BY <1>2
  <2> QED BY <2>1, <2>2 DEF SameNames
<1>5. \A what \in Misuses : SameNames(f, Misuse(f, what))
  BY MisuseIs DEF SameNames
<1>6. n \in Names => SameNames(f, FsOpen(f, n))
  BY FsNamesIs DEF SameNames
<1>7. \A ns \in SUBSET Names : SameNames(f, FsFail(f, ns))
  BY FsFailIs DEF SameNames
<1>8. SameNames(f, FsClose(f, n, TRUE))
  <2>1. PICK ok \in BOOLEAN : ok = TRUE
    OBVIOUS
  <2> QED BY <1>1, <2>1
<1> QED BY <1>1, <1>2, <1>3, <1>4, <1>5, <1>6, <1>7, <1>8

(* The steps of the start, of the loop and of the switch, but for those    *)
(* that open a file; the reports, and the closing at the end.              *)
LEMMA QuietKept ==
    ASSUME Typing, StreamInv, KeptInv, Typing', UNCHANGED opts,
           \/ PrintNameTo \/ FirstFdopen \/ FirstHeader \/ Start
           \/ LoopTest \/ NoPacket \/ WritePacket \/ WriteError \/ NoUpdate \/ Update \/ Interval
           \/ SwitchOrStop \/ CloseCurrent \/ FdopenNext \/ WriteHeader \/ Announce
           \/ ReportError \/ CloseOutput \/ FinalCount \/ Signal \/ UNCHANGED vars
    PROVE  KeptInv'
<1> USE DEF loopvars, msgs, gzvars, rbvars
<1>1. /\ fs \in FsType /\ pdh \in Names \cup {0} /\ rpdh \in Names \cup {0} /\ fd \in Names \cup {0}
      /\ ret \in {"loop", "update", "interval"} /\ StopAt \in {"loop", "update"} /\ curr \in Nat
  BY TypesUsed DEF Typing, LoopTypes, RingTypes, StopAt
<1>2. /\ Top \in Nat /\ (pc # "rbopen" => Top = curr + 1) /\ \A n \in fs.open : n >= Top
  BY OpenIsTop
<1>3. SUFFICES /\ UNCHANGED <<files, thread, gz, oldnames>> /\ Top' = Top
               /\ SameNames(fs, fs') /\ (err => err')
               /\ pc' \in NewThere \/ (pc' = "printname" /\ files # NoFiles) => curr' + 1 \in fs.exists
               /\ parent' # 0 => parent' \in fs.exists \/ parent' = parent
  BY <1>2, KeptStays DEF SameNames
<1>4. pc \in NewThere \/ (pc = "printname" /\ files # NoFiles) => curr + 1 \in fs.exists
  BY DEF KeptInv, ExistInv
<1>5. SameNames(fs, fs)
  BY DEF SameNames
<1>6. CASE PrintNameTo
  <2>1. /\ UNCHANGED <<files, curr, thread, gz, oldnames, fs, err, parent>>
        /\ pc = "printname" /\ pc' \in {"cleanup", "fdopen"} /\ (pc' = "fdopen" => files # NoFiles)
    BY <1>6 DEF PrintNameTo, SetPrintName
  <2> QED BY <1>2, <1>4, <1>5, <2>1 DEF Top, NewThere
<1>7. CASE FirstFdopen \/ FdopenNext
  <2>1. /\ UNCHANGED <<files, curr, thread, gz, oldnames, parent>> /\ pc \in {"fdopen", "rbfdopen"}
        /\ (fs' = FsOpen(fs, fd) \/ fs' = FsFail(fs, {fd})) /\ (err => err')
        /\ pc' \in {"firstheader", "error", "header", "loop", "update"}
    <3>1. PICK ok \in BOOLEAN : Fdopen(ok) /\ (FdopenNext => Continue(ok, "header"))
      BY <1>7 DEF FirstFdopen, FdopenNext, Outcomes
    <3>2. err => err'
      BY <1>7, <3>1 DEF FirstFdopen, Continue
    <3> QED BY <1>1, <1>7, <3>1, <3>2 DEF FirstFdopen, FdopenNext, Fdopen, Continue
  <2>2. fd \in Names
    BY <2>1, TypesUsed DEF Typing, RingInv
  <2>3. SameNames(fs, fs')
    <3>1. {fd} \in SUBSET Names
      BY <2>2
    <3>2. SameNames(fs, FsOpen(fs, fd)) /\ SameNames(fs, FsFail(fs, {fd}))
      BY <1>1, <2>2, <3>1, StreamCalls
    <3> QED BY <2>1, <3>2
  <2> QED BY <1>2, <1>4, <2>1, <2>3 DEF Top, NewThere
<1>8. CASE FirstHeader \/ WriteHeader
  <2>1. /\ UNCHANGED <<files, curr, thread, gz, oldnames, parent>> /\ pc \in {"firstheader", "header"}
        /\ (fs' = FsClose(fs, pdh, TRUE) \/ fs' = fs) /\ (err => err')
        /\ pc' \in {"start", "error", "announce", "loop", "update"}
    <3>1. PICK ok \in BOOLEAN : WriteHeader => Continue(ok, "announce")
      BY <1>8 DEF FirstHeader, WriteHeader, Outcomes
    <3>2. err => err'
      BY <1>8, <3>1 DEF FirstHeader, Continue
    <3> QED BY <1>1, <1>8, <3>2 DEF FirstHeader, WriteHeader, Continue
  <2>2. SameNames(fs, fs')
    BY <1>1, <1>5, <2>1, StreamCalls
  <2> QED BY <1>2, <1>4, <2>1, <2>2 DEF Top, NewThere
<1>9. CASE Start \/ Announce
  <2>1. /\ UNCHANGED <<files, curr, thread, gz, oldnames, err>> /\ pc \in {"start", "announce"}
        /\ (\E ok \in BOOLEAN : fs' = FsFlush(fs, pdh, ok)) /\ pc' \in {"loop", "update", "interval"}
        /\ parent' = saveFile
    BY <1>1, <1>9 DEF Start, Announce, Flush, Outcomes
  <2>2. SameNames(fs, fs')
    BY <1>1, <2>1, StreamCalls
  <2>3. saveFile = curr + 1
    BY <1>1, <2>1 DEF StreamInv, Starting
  <2>4. parent' \in fs.exists
    BY <1>4, <2>1, <2>3 DEF NewThere
  <2> QED BY <1>2, <2>1, <2>2, <2>4, StreamCalls DEF Top, NewThere, SameNames
<1>10. CASE LoopTest \/ NoPacket \/ WriteError \/ NoUpdate \/ Interval \/ SwitchOrStop \/ FinalCount
  <2>1. /\ UNCHANGED <<files, curr, thread, gz, oldnames, parent>> /\ (err => err')
        /\ pc \in {"loop", "dispatch", "update", "interval", "switch", "count"}
        /\ pc' \in {"dispatch", "report", "update", "loop", "switch", "rbclose", "exit"}
        /\ ~WriteError => fs' = fs
    BY <1>1, <1>10 DEF LoopTest, NoPacket, WriteError, NoUpdate, Interval, SwitchOrStop, FinalCount, Count
  <2>2. SameNames(fs, fs')
    <3>1. CASE WriteError
      BY <1>1, <3>1, WriteErrorIs DEF SameNames
    <3>2. CASE ~WriteError
      BY <1>5, <2>1, <3>2
    <3> QED BY <3>1, <3>2
  <2> QED BY <1>2, <2>1, <2>2 DEF Top, NewThere
<1>11. CASE WritePacket
  <2>1. /\ UNCHANGED <<files, curr, thread, gz, oldnames, err, parent>> /\ pc = "dispatch"
        /\ pc' \in {"update", "switch"}
        /\ (\E ok \in BOOLEAN : fs' = FsFlush(FsWrite(fs, pdh), pdh, ok)) \/ fs' = FsWrite(fs, pdh)
    BY <1>11 DEF WritePacket, Outcomes
  <2>2. SameNames(fs, fs')
    BY <1>1, <2>1, StreamCalls
  <2> QED BY <1>2, <2>1, <2>2 DEF Top, NewThere
<1>12. CASE Update
  <2>1. /\ UNCHANGED <<files, curr, thread, gz, oldnames, err, parent>> /\ pc = "update"
        /\ pc' \in {"loop", "switch"}
        /\ (\E ok \in BOOLEAN : fs' = FsFlush(fs, pdh, ok)) \/ fs' = fs
    BY <1>12 DEF Update, Flush, Count, Outcomes
  <2>2. SameNames(fs, fs')
    BY <1>1, <1>5, <2>1, StreamCalls
  <2> QED BY <1>2, <2>1, <2>2 DEF Top, NewThere
<1>13. CASE CloseCurrent
  <2>1. PICK ok \in BOOLEAN : SwitchClose(ok) /\ Continue(ok, "rbopen")
    BY <1>13 DEF CloseCurrent, Outcomes
  <2>2. /\ UNCHANGED <<files, thread, gz, oldnames, parent>> /\ pc = "rbclose" /\ (err => err')
        /\ fs' = FsClose(fs, rpdh, ok)
        /\ ok => pc' = "rbopen" /\ curr' = curr + 1
        /\ ~ok => pc' \in {"loop", "update"} /\ curr' = curr
    BY <1>1, <1>13, <2>1 DEF CloseCurrent, SwitchClose, Continue
  <2>3. SameNames(fs, fs')
    BY <1>1, <2>2, StreamCalls
  <2> QED BY <1>2, <2>2, <2>3 DEF Top, NewThere
<1>14. CASE ReportError
  <2>1. /\ UNCHANGED <<files, curr, thread, gz, oldnames, err, parent>> /\ pc = "report" /\ pc' = "close"
        /\ (fs' = Misuse(fs, "name") \/ fs' = fs)
    BY <1>14 DEF ReportError
  <2>2. SameNames(fs, fs')
    BY <1>1, <1>5, <2>1, StreamCalls DEF Misuses
  <2> QED BY <1>2, <2>1, <2>2 DEF Top, NewThere
<1>15. CASE CloseOutput
  <2>1. PICK ok \in BOOLEAN : DumpClose(ok)
    BY <1>15 DEF CloseOutput, Outcomes
  <2>2. /\ UNCHANGED <<files, curr, thread, gz, oldnames, err, parent>> /\ pc = "close" /\ pc' = "count"
    BY <1>15, <2>1 DEF CloseOutput, DumpClose
  <2>3. PICK f : /\ f = IF rpdh # 0 THEN FsClose(fs, rpdh, ok) ELSE fs
                 /\ fs' = IF nameH = "closed" THEN Misuse(f, "name_h") ELSE f
    BY <2>1 DEF DumpClose
  <2>4. SameNames(fs, f) /\ f \in FsType
    BY <1>1, <1>5, <2>3, StreamCalls, CloseFrame
  <2>5. SameNames(fs, fs')
    <3>1. Misuse(f, "name_h").exists = f.exists /\ Misuse(f, "name_h").disk = f.disk
      BY <2>4, MisuseIs DEF Misuses
    <3> QED BY <2>3, <2>4, <3>1 DEF SameNames
  <2> QED BY <1>2, <2>2, <2>5 DEF Top, NewThere
<1>16. CASE Signal \/ UNCHANGED vars
  <2>1. UNCHANGED <<files, curr, thread, gz, oldnames, fs, pc, err, parent>>
    BY <1>16 DEF Signal, vars
  <2> QED BY <1>4, <1>5, <2>1 DEF Top
<1> QED BY <1>6, <1>7, <1>8, <1>9, <1>10, <1>11, <1>12, <1>13, <1>14, <1>15, <1>16

(***************************************************************************)
(* The steps that open and remove files.                                   *)
(***************************************************************************)
(* The first file.                                                         *)
LEMMA OpenFirstKept ==
    ASSUME Typing, StreamInv, KeptInv, Typing', UNCHANGED opts, OpenFirst
    PROVE  KeptInv'
<1> USE DEF loopvars, msgs, gzvars, rbvars
<1>1. PICK ok \in BOOLEAN : InitRing(ok)
  BY DEF OpenFirst, Outcomes
<1>2. /\ pc = "open" /\ pc' = "printname" /\ files = NoFiles /\ curr = 0 /\ curr' = 0
      /\ UNCHANGED <<thread, gz, oldnames, err, parent, opts>> /\ fs \in FsType /\ 1 \in Names
      /\ parent = 0
  BY <1>1, TypesUsed DEF OpenFirst, InitRing, Typing, RingInv, StreamInv, Starting
<1>3. /\ Top = 1 /\ Top' = 1 /\ Slots' = Slots /\ (Unlimited' <=> Unlimited) /\ Started' = Started
      /\ opts.files \in Nat /\ Slots \in Nat \ {0} /\ (Unlimited <=> opts.files = 0)
  BY <1>2, OptionTypes DEF Top, Slots, Unlimited, Started, Typing
<1>4. CASE ~ok
  <2>1. UNCHANGED <<files, fs>>
    BY <1>1, <1>4 DEF InitRing
  <2> QED BY <1>2, <1>3, <2>1, OpenIsTop, KeptStays DEF NewThere
<1>5. CASE ok
  <2>1. files' = [i \in 0..Slots-1 |-> IF i = 0 THEN 1 ELSE 0] /\ fs' = FsCreate(fs, 1)
    BY <1>1, <1>5 DEF InitRing
  <2>2. fs'.exists = fs.exists \cup {1} /\ fs'.disk = fs.disk
    BY <1>2, <2>1, FsNamesIs
  <2>3. \A n \in Names : Whole(n)' <=> Whole(n)
    BY <1>2, <2>2 DEF Whole
  <2>4. fs'.exists = {1} /\ fs.exists \subseteq {1}
    BY <1>3, <2>2 DEF KeptInv, ExistInv
  <2>5. SlotInv'
    <3>1. RingHere'
      BY <1>2, <1>3, <2>1 DEF RingHere
    <3>2. files'[0] = 1 /\ \A i \in 0..Slots-1 : i >= 1 => files'[i] = 0
      BY <1>3, <2>1
    <3>3. 0 % Slots = 0
      BY <1>3, SlotSmall
    <3> QED BY <1>3, <3>1, <3>2, <3>3 DEF SlotInv
  <2>6. ThreadInv'
    <3>0. \A n \in Names : n \in Nat \ {0} /\ ~(n < 1)
      BY TypesUsed
    <3>2. \A n \in Names : thread[n] = "none"
      BY <1>3, <3>0 DEF KeptInv, ThreadInv
    <3>1. oldnames = {}
      <4>1. \A n \in oldnames : n \in Names /\ thread[n] = "ended"
        BY DEF KeptInv, ThreadInv, Typing, GzTypes
      <4> QED BY <3>2, <4>1
    <3> QED BY <1>2, <3>1, <3>2 DEF KeptInv, ThreadInv
  <2>7. ExistInv'
    <3>1. Latest' \subseteq {1}
      BY <1>3 DEF Latest
    <3> QED BY <1>2, <1>3, <2>4, <3>1 DEF ExistInv, NewThere
  <2> QED BY <2>5, <2>6, <2>7 DEF KeptInv
<1> QED BY <1>4, <1>5

(* The next file: that of its slot is removed, or its compression begun.   *)
LEMMA OpenNextKept ==
    ASSUME Typing, StreamInv, KeptInv, Typing', UNCHANGED opts, OpenNext
    PROVE  KeptInv'
<1> USE DEF loopvars, msgs, gzvars, rbvars
<1>1. PICK ok \in BOOLEAN : SwitchOpen(ok) /\ Continue(ok, "rbfdopen")
  BY DEF OpenNext, Outcomes
<1>2. /\ pc = "rbopen" /\ curr' = curr /\ curr \in Nat \ {0} /\ curr + 1 \in Names /\ curr \in Names
      /\ parent = curr /\ fs \in FsType /\ opts.files \in Nat /\ Slots \in Nat \ {0}
      /\ (~Unlimited => Slots = opts.files) /\ (Unlimited => Slots = 1) /\ (Unlimited <=> opts.files = 0)
      /\ UNCHANGED <<opts, gz, oldnames, parent>>
      /\ ok => pc' = "rbfdopen"
      /\ ~ok => pc' \in {"loop", "update"} /\ err'
      /\ (err => err')
  <2>1. StopAt \in {"loop", "update"} /\ err \in BOOLEAN
    BY DEF StopAt, Typing, LoopTypes
  <2>2. pc = "rbopen" /\ curr \in Nat /\ curr + 1 \in Names /\ curr # 0 /\ parent = curr /\ fs \in FsType
    BY TypesUsed DEF StreamInv, OpenNext
  <2>3. curr \in Names
    BY <2>2, MaxFilesAssumption DEF Names
  <2>4. /\ opts.files \in Nat /\ Slots \in Nat \ {0} /\ (Unlimited => Slots = 1) /\ (Unlimited <=> opts.files = 0)
        /\ (~Unlimited => Slots = opts.files)
    BY OptionTypes DEF Slots, Unlimited, Typing
  <2> QED BY <1>1, <2>1, <2>2, <2>3, <2>4 DEF OpenNext, SwitchOpen, OpenFile, Continue
<1>3. Top = curr /\ Top' = curr + 1 /\ Slots' = Slots /\ (Unlimited' <=> Unlimited)
  BY <1>2 DEF Top, Slots, Unlimited
<1>4. PICK slot \in 0..Slots-1 : slot = curr % Slots
  BY <1>2, SlotOfCurr
<1>5. /\ files' = [files EXCEPT ![slot] = curr + 1] /\ RingHere /\ files # NoFiles
      /\ thread' = IF Unlimited /\ opts.compress THEN [thread EXCEPT ![files[slot]] = "begin"] ELSE thread
  <2>1. RingHere
    BY <1>2 DEF Typing, RingInv, RingPCs, PCs
  <2>2. files # NoFiles
    BY <1>2, <1>4, <2>1 DEF RingHere, NoFiles
  <2> QED BY <1>1, <1>4, <2>1, <2>2 DEF SwitchOpen, OpenFile, Newname, StartCompress
(* the old file of the slot *)
<1>6. /\ curr >= Slots => files[slot] = curr + 1 - Slots
      /\ curr < Slots => slot = curr /\ files[slot] = 0
  <2>1. CASE curr >= Slots
    <3>1. PICK n \in 1..Top : n = curr + 1 - Slots /\ n + Slots > Top
      BY <1>2, <1>3, <2>1
    <3>2. files[(n - 1) % Slots] = n
      BY <1>5, <3>1 DEF KeptInv, SlotInv
    <3>3. n - 1 = curr - Slots
      BY <1>2, <3>1
    <3>4. (curr - Slots) % Slots = slot
      BY <1>2, <1>4, <2>1, SlotAgain
    <3> QED BY <1>2, <2>1, <3>1, <3>2, <3>3, <3>4
  <2>2. CASE curr < Slots
    <3>1. slot = curr
      BY <1>2, <1>4, <2>2, SlotSmall
    <3>2. files[slot] = 0
      BY <1>2, <1>3, <1>5, <3>1 DEF KeptInv, SlotInv
    <3> QED BY <1>2, <2>2, <3>1, <3>2
  <2> QED BY <1>2, <2>1, <2>2
<1>7. /\ fs'.disk = fs.disk
      /\ fs'.exists = (IF Unlimited THEN fs.exists ELSE fs.exists \ {files[slot]})
                      \cup (IF ok THEN {curr + 1} ELSE {})
  <2>1. PICK f : f = IF Unlimited THEN fs ELSE FsUnlink(fs, {files[slot]})
    OBVIOUS
  <2>2. f \in FsType /\ f.disk = fs.disk /\ f.exists = IF Unlimited THEN fs.exists ELSE fs.exists \ {files[slot]}
    BY <1>2, <2>1, FsNamesIs
  <2>3. fs' = IF ok THEN FsCreate(f, curr + 1) ELSE FsFail(f, {curr + 1})
    BY <1>1, <1>4, <2>1 DEF SwitchOpen, OpenFile, Newname
  <2>4. /\ FsCreate(f, curr + 1).disk = f.disk /\ FsCreate(f, curr + 1).exists = f.exists \cup {curr + 1}
        /\ FsFail(f, {curr + 1}).disk = f.disk /\ FsFail(f, {curr + 1}).exists = f.exists
    <3>1. {curr + 1} \in SUBSET Names
      BY <1>2
    <3> QED BY <1>2, <2>2, <3>1, FsNamesIs, FsFailIs
  <2> QED BY <2>2, <2>3, <2>4
<1>8. \A n \in Names : Whole(n)' <=> Whole(n)
  BY <1>2, <1>7 DEF Whole
<1>9. SlotInv'
  <2>1. RingHere'
    BY <1>2, <1>3, <1>5 DEF RingHere
  <2>2. ASSUME NEW n \in 1..curr+1, n + Slots > curr + 1
        PROVE  files'[(n - 1) % Slots] = n
    <3>1. CASE n = curr + 1
      <4>1. n - 1 = curr
        BY <1>2, <3>1
      <4> QED BY <1>4, <1>5, <3>1, <4>1 DEF RingHere
    <3>2. CASE n < curr + 1
      <4>1. n - 1 \in Nat /\ n - 1 < curr /\ curr - (n - 1) < Slots
        BY <1>2, <2>2, <3>2
      <4>2. (n - 1) % Slots # slot /\ (n - 1) % Slots \in 0..Slots-1
        BY <1>2, <1>4, <4>1, SlotsApart, SlotOfCurr
      <4>3. files[(n - 1) % Slots] = n
        <5>1. n \in 1..Top /\ n + Slots > Top
          BY <1>2, <1>3, <2>2, <3>2
        <5> QED BY <1>5, <5>1 DEF KeptInv, SlotInv
      <4> QED BY <1>5, <4>2, <4>3 DEF RingHere
    <3> QED BY <1>2, <3>1, <3>2
  <2>3. ASSUME NEW i \in 0..Slots-1, i >= curr + 1
        PROVE  files'[i] = 0
    <3>1. slot = curr /\ i >= Top /\ i # slot
      BY <1>2, <1>3, <1>6, <2>3
    <3>2. files[i] = 0
      BY <1>5, <3>1 DEF KeptInv, SlotInv
    <3> QED BY <1>5, <3>1, <3>2 DEF RingHere
  <2> QED BY <1>3, <2>1, <2>2, <2>3 DEF SlotInv
<1>10. ThreadInv'
  <2>1. /\ ~Unlimited => thread' = thread /\ oldnames = {}
        /\ Unlimited => fs.exists \subseteq fs'.exists
    BY <1>5, <1>7, TypesUsed DEF KeptInv, ThreadInv, Typing, GzTypes
  <2>2. /\ Unlimited => files[slot] = curr
        /\ thread[curr] = "none" /\ gz[curr] = None /\ curr \notin oldnames
    <3>1. Unlimited => files[slot] = curr
      BY <1>2, <1>6
    <3>2. thread[curr] = "none"
      BY <1>2, <1>3 DEF KeptInv, ThreadInv
    <3> QED BY <1>2, <3>1, <3>2 DEF KeptInv, ThreadInv
  <2>3. \A n \in Names : thread'[n] = thread[n] \/ (n = curr /\ thread'[n] = "begin" /\ Unlimited)
    BY <1>2, <1>5, <2>2 DEF Typing, GzTypes
  <2>4. Cardinality(Started') >= Cardinality(Started) /\ Cardinality(Started') \in Nat /\ Cardinality(Started) \in Nat
    <3>1. IsFiniteSet(Names)
      BY MaxFilesAssumption, FS_Interval DEF Names
    <3>2. Started \subseteq Started' /\ Started' \subseteq Names
      BY <2>2, <2>3 DEF Started
    <3> QED BY <3>1, <3>2, FS_Subset, FS_CardinalityType
  <2>5. ASSUME NEW n \in Names
        PROVE  /\ thread'[n] # "none" => Unlimited /\ n < curr + 1
               /\ thread'[n] \in {"none", "begin", "copy"} => gz[n] = None
               /\ thread'[n] \in {"unlink", "cleanup"} => Whole(n)
               /\ thread'[n] = "ended" => gz[n] = None \/ gz[n] = Torn \/ Whole(n)
               /\ thread'[n] = "ended" /\ gz[n] # None /\ n \in fs'.exists =>
                     n \in oldnames \/ gz[n] = Torn \/ Cardinality(Started') > MAX_FILENAME_QUEUE
    <3>1. CASE thread'[n] = thread[n]
      <4>1. thread[n] # "none" => Unlimited /\ n < curr + 1
        BY <1>2, <1>3, TypesUsed DEF KeptInv, ThreadInv
      <4>2. thread[n] = "ended" /\ n \in fs'.exists => n \in fs.exists
        BY <1>2, <1>3, <1>7, <4>1, TypesUsed DEF KeptInv, ThreadInv
      <4> QED BY <2>4, <3>1, <4>1, <4>2, MaxFilesAssumption DEF KeptInv, ThreadInv
    <3>2. CASE n = curr /\ thread'[n] = "begin" /\ Unlimited
      BY <1>2, <2>2, <3>2
    <3> QED BY <2>3, <3>1, <3>2
  <2>6. \A n \in oldnames : thread'[n] = "ended" /\ n \in fs'.exists /\ Whole(n)
    <3> SUFFICES ASSUME NEW n \in oldnames PROVE thread'[n] = "ended" /\ n \in fs'.exists /\ Whole(n)
      OBVIOUS
    <3>1. n \in Names /\ thread[n] = "ended" /\ n \in fs.exists /\ Whole(n)
      BY DEF KeptInv, ThreadInv, Typing, GzTypes
    <3> QED BY <2>1, <2>2, <2>3, <3>1
  <2>7. oldnames \subseteq Names
    BY DEF Typing, GzTypes
  <2> QED BY <1>2, <1>3, <1>8, <2>5, <2>6, <2>7 DEF ThreadInv
<1>11. ExistInv'
  <2>1. ASSUME NEW n \in fs'.exists
        PROVE  n \in 1..curr+1 /\ (Unlimited \/ n + opts.files > curr + 1)
    <3>1. CASE n = curr + 1
      BY <1>2, <3>1
    <3>2. CASE n \in fs.exists /\ (Unlimited \/ n # files[slot])
      <4>1. n \in 1..curr /\ (Unlimited \/ n + opts.files > curr)
        BY <1>3, <3>2 DEF KeptInv, ExistInv
      <4> QED BY <1>2, <1>6, <3>2, <4>1
    <3> QED BY <1>7, <3>1, <3>2
  <2>2. ASSUME ~err', NEW n \in Latest'
        PROVE  n \in fs'.exists \/ Whole(n)
    <3>1. ok /\ n \in 1..curr+1 /\ (Unlimited \/ n + opts.files > curr + 1) /\ ~err
      BY <1>2, <1>3, <2>2 DEF Latest
    <3>2. CASE n = curr + 1
      BY <1>7, <3>1, <3>2
    <3>3. CASE n < curr + 1
      <4>1. n \in Latest
        BY <1>2, <1>3, <3>1, <3>3 DEF Latest
      <4>2. n \in fs.exists \/ Whole(n)
        BY <1>5, <3>1, <4>1 DEF KeptInv, ExistInv
      <4>3. Unlimited \/ n # files[slot]
        BY <1>2, <1>6, <3>1, <3>3
      <4> QED BY <1>7, <4>2, <4>3
    <3> QED BY <1>2, <3>1, <3>2, <3>3
  <2>3. pc' \in NewThere => curr + 1 \in fs'.exists
    BY <1>2, <1>7 DEF NewThere
  <2>4. opts.files # 1 => parent \in fs'.exists \/ Whole(parent)
    <3> SUFFICES ASSUME opts.files # 1 PROVE curr \in fs'.exists \/ Whole(curr)
      BY <1>2
    <3>1. curr \in fs.exists \/ Whole(curr)
      BY <1>2 DEF KeptInv, ExistInv
    <3>2. Unlimited \/ curr # files[slot]
      BY <1>2, <1>6
    <3> QED BY <1>7, <3>1, <3>2
  <2>5. Latest' \subseteq Names
    <3>1. Latest' \subseteq 1..curr+1
      BY <1>3 DEF Latest
    <3> QED BY <1>2, <3>1, MaxFilesAssumption DEF Names
  <2> QED BY <1>2, <1>3, <1>8, <2>1, <2>2, <2>3, <2>4, <2>5 DEF ExistInv, Whole
<1> QED BY <1>9, <1>10, <1>11 DEF KeptInv

(* Giving back the ring removes files, of an unlimited set only those that *)
(* were to be removed.                                                     *)
LEMMA GivenBackNames ==
    ASSUME GzTypes, RingTypes, fs \in FsType, ErrorCleanup \/ Free
    PROVE  /\ fs'.exists \subseteq fs.exists /\ oldnames' \subseteq oldnames
           /\ Free => fs'.exists = fs.exists \ (oldnames \ oldnames')
<1>1. 0 \notin Names
  BY DEF Names
<1>2. PICK f \in FsType : /\ f.exists \subseteq fs.exists /\ CleanupOldCap(f, 0)
                          /\ (Free => f = fs)
  <2>1. CASE Free
    BY <2>1 DEF Free
  <2>2. CASE ErrorCleanup /\ ~Free
    <3>1. PICK f, g : /\ f = IF rpdh # 0 THEN FsClose(fs, rpdh, TRUE) ELSE fs
                      /\ g = IF nameH = "closed" THEN Misuse(f, "name_h") ELSE f
                      /\ CleanupOldCap(FsUnlink(g, NamesInSlots), 0)
      BY <2>2 DEF ErrorCleanup
    <3>2. rpdh \in Names \cup {0}
      BY DEF RingTypes
    <3>3. PICK ok \in BOOLEAN : ok = TRUE
      OBVIOUS
    <3>4. FsClose(fs, rpdh, ok) \in FsType /\ FsClose(fs, rpdh, ok).exists = fs.exists
      BY <3>2, CloseFrame
    <3>5. f \in FsType /\ f.exists = fs.exists
      BY <3>1, <3>3, <3>4
    <3>6. g \in FsType /\ g.exists = fs.exists
      BY <3>1, <3>5, MisuseIs DEF Misuses
    <3>7. FsUnlink(g, NamesInSlots) \in FsType /\ FsUnlink(g, NamesInSlots).exists = g.exists \ NamesInSlots
      BY <3>6, FsNamesIs
    <3> QED BY <2>2, <3>1, <3>6, <3>7
  <2> QED BY <2>1, <2>2
<1>3. PICK left \in SUBSET oldnames :
          /\ fs' = FsUnlink(f, oldnames \ left) /\ fs' \in FsType
          /\ oldnames' = IF 0 \in fs'.exists /\ Cardinality(left) < MAX_FILENAME_QUEUE
                           THEN left \cup {0} ELSE left
  BY <1>2, CleanupIs
<1>4. fs'.exists = f.exists \ (oldnames \ left)
  BY <1>2, <1>3, FsNamesIs
<1>5. 0 \notin fs'.exists
  BY <1>1, <1>3 DEF FsType
<1>6. oldnames' = left
  BY <1>3, <1>5
<1> QED BY <1>2, <1>4, <1>6

(* The end of a failed start, and that of the process.                     *)
LEMMA EndKept ==
    ASSUME Typing, StreamInv, KeptInv, Typing', UNCHANGED opts, Cleanup \/ Exit
    PROVE  KeptInv'
<1> USE DEF loopvars, msgs, gzvars, rbvars
<1>1. /\ fs \in FsType /\ GzTypes /\ RingTypes /\ oldnames \subseteq Names /\ Names \subseteq Nat \ {0}
      /\ curr \in Nat /\ opts.files \in Nat
  BY TypesUsed, OptionTypes DEF Typing, GzTypes
<1>2. Slots' = Slots /\ (Unlimited' <=> Unlimited)
  BY DEF Slots, Unlimited
<1>3. CASE Cleanup
  <2>1. /\ files' = NoFiles /\ fs'.exists \subseteq fs.exists /\ oldnames' \subseteq oldnames
        /\ UNCHANGED <<curr, thread, gz>>
    BY <1>1, <1>3, GivenBackIs, GivenBackNames DEF Cleanup
  <2>2. pc \in {"cleanup", "error"} /\ pc' \in {"error", "exit"} /\ parent' = parent /\ err' = err
    BY <1>3 DEF Cleanup
  <2>3. parent = 0 /\ curr = 0 /\ Top = 1 /\ Top' = 1
    BY <2>1, <2>2 DEF StreamInv, Starting, Top
  <2>4. \A n \in Names : thread[n] = "none" /\ gz[n] = None
    <3>1. \A n \in Names : ~(n < 1)
      BY <1>1
    <3> QED BY <2>3, <3>1 DEF KeptInv, ThreadInv
  <2>5. oldnames' = {}
    BY <1>1, <2>1, <2>4 DEF KeptInv, ThreadInv
  <2>6. ThreadInv'
    BY <2>1, <2>4, <2>5 DEF ThreadInv
  <2>7. ExistInv'
    BY <1>2, <2>1, <2>2, <2>3 DEF KeptInv, ExistInv, NewThere
  <2>8. SlotInv'
    BY <2>1 DEF SlotInv
  <2> QED BY <2>6, <2>7, <2>8 DEF KeptInv
<1>4. CASE Exit
  <2>1. pc = "exit" /\ pc' = "end" /\ UNCHANGED <<parent, err>>
    BY <1>4 DEF Exit
  <2>2. CASE files = NoFiles
    <3>1. /\ fs' = fs \/ fs' = Misuse(fs, "free")
          /\ UNCHANGED <<files, curr, thread, gz, oldnames>>
      BY <1>4, <2>2 DEF Exit
    <3>2. SameNames(fs, fs')
      <4>1. SameNames(fs, fs)
        BY DEF SameNames
      <4>2. SameNames(fs, Misuse(fs, "free"))
        BY <1>1, MisuseIs DEF Misuses, SameNames
      <4> QED BY <3>1, <4>1, <4>2
    <3>3. Top' = Top /\ \A n \in fs.open : n >= Top
      BY <2>1, <3>1, OpenIsTop DEF Top
    <3> QED BY <2>1, <3>1, <3>2, <3>3, KeptStays DEF SameNames, NewThere
  <2>3. CASE files # NoFiles
    <3>1. Free
      BY <1>4, <2>3 DEF Exit
    <3>2. /\ files' = NoFiles /\ fs'.disk = fs.disk /\ oldnames' \subseteq oldnames
          /\ fs'.exists = fs.exists \ (oldnames \ oldnames') /\ UNCHANGED <<curr, thread, gz>>
      BY <1>1, <3>1, GivenBackIs, GivenBackNames
    <3>3. Top' = Top /\ Started' = Started
      BY <2>1, <3>2 DEF Top, Started
    <3>4. \A n : Whole(n)' <=> Whole(n)
      BY <3>2 DEF Whole
    <3>5. SlotInv'
      BY <3>2 DEF SlotInv
    <3>6. ThreadInv'
      BY <1>1, <1>2, <3>2, <3>3, <3>4 DEF KeptInv, ThreadInv
    <3>7. ExistInv'
      <4>1. parent # 0 /\ opts.files # 1 => parent \in fs'.exists \/ Whole(parent)
        BY <3>2 DEF KeptInv, ExistInv, ThreadInv
      <4> QED BY <1>2, <2>1, <3>2, <3>3, <3>4, <4>1 DEF KeptInv, ExistInv, NewThere, Whole
    <3> QED BY <3>5, <3>6, <3>7 DEF KeptInv
  <2> QED BY <2>2, <2>3
<1> QED BY <1>3, <1>4

(* The threads: the original is removed, or tried to be, once all of it is *)
(* in the compressed file; if it stays it is remembered while there is     *)
(* room.                                                                   *)
LEMMA CompressKept ==
    ASSUME Typing, StreamInv, KeptInv, Typing', UNCHANGED opts, CompressFiles
    PROVE  KeptInv'
<1> USE DEF loopvars, msgs, gzvars, rbvars
<1>1. PICK n \in Names : GzOpen(n) \/ GzCopy(n) \/ GzUnlink(n) \/ GzCleanup(n)
  BY DEF CompressFiles, Compress
<1>2. /\ UNCHANGED <<files, curr, pc, err, parent>> /\ fs'.disk = fs.disk /\ fs'.exists \subseteq fs.exists
      /\ fs \in FsType /\ GzTypes /\ oldnames \subseteq Names
      /\ \A m \in Names : m \in Nat /\ thread[m] \in {"none", "begin", "copy", "unlink", "cleanup", "ended"}
  <2>1. fs \in FsType /\ GzTypes /\ Compress
    BY DEF Typing, CompressFiles
  <2>2. /\ UNCHANGED <<files, curr>> /\ fs'.disk = fs.disk /\ fs'.exists \subseteq fs.exists
    BY <2>1, CompressIs
  <2> QED BY <2>1, <2>2, TypesUsed DEF CompressFiles, GzTypes
<1>3. /\ Slots' = Slots /\ (Unlimited' <=> Unlimited) /\ Top' = Top /\ Latest' = Latest
      /\ Top \in Nat
  BY <1>2, OpenIsTop DEF Slots, Unlimited, Top, Latest
<1>4. \A m \in Names : m # n => thread'[m] = thread[m] /\ gz'[m] = gz[m]
  BY <1>1, <1>2 DEF GzOpen, GzCopy, GzUnlink, GzCleanup, GzGo, GzTypes
<1>5. thread[n] # "none" /\ thread'[n] # "none" /\ Started' = Started
  <2>1. thread[n] # "none" /\ thread'[n] # "none"
    BY <1>1, <1>2 DEF GzOpen, GzCopy, GzUnlink, GzCleanup, GzGo, GzTypes
  <2> QED BY <1>4, <2>1 DEF Started
<1>6. Unlimited /\ n < Top
  BY <1>5 DEF KeptInv, ThreadInv
<1>7. \A m \in Names : m # n => (Whole(m)' <=> Whole(m))
  BY <1>2, <1>4 DEF Whole
(* of a thread: what it leaves, and what of the old names it tried again *)
<1>8. /\ gz[n] = gz'[n] \/ gz[n] = None
      /\ thread'[n] \in {"none", "begin", "copy"} => gz'[n] = None
      /\ thread'[n] \in {"unlink", "cleanup"} => Whole(n)'
      /\ thread'[n] = "ended" => gz'[n] = None \/ gz'[n] = Torn \/ Whole(n)'
      /\ Whole(n) => Whole(n)'
  <2>0. gz[n] = None => ~Whole(n)
    BY NotWhole
  <2>1. CASE GzOpen(n)
    <3>1. thread[n] = "begin" /\ thread'[n] \in {"copy", "ended"} /\ gz' = gz
      BY <1>2, <2>1 DEF GzOpen, GzGo, GzTypes
    <3>2. gz[n] = None
      BY <3>1 DEF KeptInv, ThreadInv
    <3> QED BY <2>0, <3>1, <3>2
  <2>2. CASE GzCopy(n)
    <3>1. /\ thread[n] = "copy"
          /\ \/ /\ thread'[n] = "unlink"
                /\ gz'[n] = fs.disk[n] \/ ("gzclose" \in opts.failures /\ gz'[n] = Torn)
             \/ thread'[n] = "ended" /\ gz'[n] = Torn
      BY <1>2, <2>2 DEF GzCopy, GzGo, GzTypes, Outcomes
    <3>2. gz[n] = None
      BY <3>1 DEF KeptInv, ThreadInv
    <3> QED BY <1>2, <2>0, <3>1, <3>2 DEF Whole
  <2>3. CASE GzUnlink(n) \/ GzCleanup(n)
    <3>1. thread[n] \in {"unlink", "cleanup"} /\ thread'[n] \in {"cleanup", "ended"} /\ gz' = gz
      BY <1>2, <2>3 DEF GzUnlink, GzCleanup, GzGo, GzTypes
    <3>2. Whole(n) /\ Whole(n)'
      BY <1>2, <3>1 DEF KeptInv, ThreadInv, Whole
    <3> QED BY <3>1, <3>2
  <2> QED BY <1>1, <2>1, <2>2, <2>3
(* whatever goes from the directory is in a compressed file *)
<1>9. /\ \A m \in Names : m \in fs.exists /\ m \notin fs'.exists => Whole(m)'
      /\ \A m \in oldnames' : /\ thread'[m] = "ended" /\ m \in fs'.exists /\ Whole(m)'
      /\ \A m \in Names : m # n /\ m \in oldnames /\ m \in fs'.exists => m \in oldnames'
      /\ thread'[n] = "ended" /\ gz'[n] # None /\ n \in fs'.exists =>
            n \in oldnames' \/ gz'[n] = Torn \/ Cardinality(Started) > MAX_FILENAME_QUEUE
  <2>0. /\ \A m \in oldnames : thread[m] = "ended" /\ m \in fs.exists /\ Whole(m) /\ m \in Names
    BY <1>2 DEF KeptInv, ThreadInv
  <2>1. CASE GzOpen(n) \/ GzCopy(n)
    <3>1. UNCHANGED <<fs, oldnames>> /\ thread[n] # "ended"
      BY <2>1 DEF GzOpen, GzCopy, GzGo
    <3>2. thread'[n] = "ended" => gz'[n] = None \/ gz'[n] = Torn
      <4>1. CASE GzOpen(n)
        <5>1. thread[n] = "begin" /\ gz' = gz
          BY <4>1 DEF GzOpen, GzGo
        <5> QED BY <5>1 DEF KeptInv, ThreadInv
      <4>2. CASE GzCopy(n)
        BY <1>2, <4>2 DEF GzCopy, GzGo, GzTypes
      <4> QED BY <2>1, <4>1, <4>2
    <3> QED BY <1>4, <1>7, <2>0, <3>1, <3>2
  <2>2. CASE GzUnlink(n)
    <3>1. /\ thread[n] = "unlink" /\ thread'[n] = "cleanup" /\ oldnames' = oldnames
          /\ fs' = fs \/ fs' = FsUnlink(fs, {n})
      BY <1>2, <2>2 DEF GzUnlink, GzGo, GzTypes
    <3>2. \A m \in Names : m # n => (m \in fs'.exists <=> m \in fs.exists)
      <4>1. FsUnlink(fs, {n}).exists = fs.exists \ {n}
        BY <1>2, FsNamesIs
      <4> QED BY <3>1, <4>1
    <3>3. n \notin oldnames
      BY <2>0, <3>1
    <3> QED BY <1>4, <1>7, <1>8, <2>0, <3>1, <3>2, <3>3
  <2>3. CASE GzCleanup(n)
    <3>1. /\ thread[n] = "cleanup" /\ thread'[n] = "ended" /\ gz' = gz /\ CleanupOldCap(fs, n)
      BY <1>2, <2>3 DEF GzCleanup, GzGo, GzTypes
    <3>2. PICK left \in SUBSET oldnames :
              /\ fs' = FsUnlink(fs, oldnames \ left)
              /\ oldnames' = IF n \in fs'.exists /\ Cardinality(left) < MAX_FILENAME_QUEUE
                               THEN left \cup {n} ELSE left
      BY <1>2, <3>1, CleanupIs
    <3>3. fs'.exists = fs.exists \ (oldnames \ left)
      BY <1>2, <3>2, FsNamesIs
    <3>4. n \notin oldnames /\ Whole(n)'
      BY <1>8, <2>0, <3>1, <1>2 DEF KeptInv, ThreadInv, Whole
    <3>5. \A m \in Names : m \in fs.exists /\ m \notin fs'.exists => Whole(m)'
      BY <1>7, <2>0, <3>3, <3>4
    <3>6. \A m \in oldnames' : /\ thread'[m] = "ended" /\ m \in fs'.exists /\ Whole(m)'
      BY <1>4, <1>7, <2>0, <3>1, <3>2, <3>3, <3>4
    <3>7. n \in fs'.exists => n \in oldnames' \/ Cardinality(Started) > MAX_FILENAME_QUEUE
      <4> SUFFICES ASSUME n \in fs'.exists, n \notin oldnames'
                   PROVE  Cardinality(Started) > MAX_FILENAME_QUEUE
        OBVIOUS
      <4>1. IsFiniteSet(Names)
        BY MaxFilesAssumption, FS_Interval DEF Names
      <4>2. left \cup {n} \subseteq Started /\ Started \subseteq Names /\ n \notin left
        BY <1>5, <2>0, <3>4 DEF Started
      <4>3. /\ IsFiniteSet(Started) /\ IsFiniteSet(left) /\ IsFiniteSet(left \cup {n})
            /\ Cardinality(left \cup {n}) <= Cardinality(Started)
        BY <4>1, <4>2, FS_Subset
      <4>4. Cardinality(left \cup {n}) = Cardinality(left) + 1
        BY <4>2, <4>3, FS_AddElement
      <4>5. ~(Cardinality(left) < MAX_FILENAME_QUEUE)
        BY <3>2
      <4>6. Cardinality(left) \in Nat /\ Cardinality(Started) \in Nat
        BY <4>3, FS_CardinalityType
      <4> QED BY <4>3, <4>4, <4>5, <4>6, MaxFilesAssumption
    <3>8. \A m \in Names : m # n /\ m \in oldnames /\ m \in fs'.exists => m \in oldnames'
      BY <3>2, <3>3
    <3> QED BY <3>1, <3>5, <3>6, <3>7, <3>8
  <2> QED BY <1>1, <2>1, <2>2, <2>3
<1>10. SlotInv'
  BY <1>2, <1>3 DEF KeptInv, SlotInv, RingHere
<1>11. ThreadInv'
  <2>1. ASSUME NEW m \in Names, m # n
        PROVE  /\ thread'[m] # "none" => Unlimited /\ m < Top
               /\ thread'[m] \in {"none", "begin", "copy"} => gz'[m] = None
               /\ thread'[m] \in {"unlink", "cleanup"} => Whole(m)'
               /\ thread'[m] = "ended" => gz'[m] = None \/ gz'[m] = Torn \/ Whole(m)'
               /\ thread'[m] = "ended" /\ gz'[m] # None /\ m \in fs'.exists =>
                     m \in oldnames' \/ gz'[m] = Torn \/ Cardinality(Started) > MAX_FILENAME_QUEUE
    <3>1. thread'[m] = thread[m] /\ gz'[m] = gz[m] /\ (Whole(m)' <=> Whole(m))
      BY <1>4, <1>7, <2>1
    <3>2. m \in fs'.exists => m \in fs.exists /\ (m \in oldnames => m \in oldnames')
      BY <1>2, <1>9, <2>1
    <3> QED BY <3>1, <3>2 DEF KeptInv, ThreadInv
  <2> QED BY <1>3, <1>5, <1>6, <1>8, <1>9, <2>1 DEF ThreadInv
<1>12. ExistInv'
  <2>1. \A m \in Names : m \in fs.exists \/ Whole(m) => m \in fs'.exists \/ Whole(m)'
    BY <1>7, <1>8, <1>9
  <2>2. Latest \subseteq Names /\ parent \in Names \cup {0}
    <3>1. Top <= MaxFiles
      BY MaxFilesAssumption DEF Typing, RingTypes, Top
    <3> QED BY <1>3, <3>1, MaxFilesAssumption, TypesUsed DEF Latest, Names
  <2>3. pc \in NewThere \/ (pc = "printname" /\ files # NoFiles) => curr + 1 \in fs'.exists
    <3> SUFFICES ASSUME pc \in NewThere \/ (pc = "printname" /\ files # NoFiles) PROVE curr + 1 \in fs'.exists
      OBVIOUS
    <3>0. curr + 1 \in fs.exists /\ pc # "rbopen"
      BY DEF KeptInv, ExistInv, NewThere
    <3>1. PICK m \in Names : m = curr + 1 /\ m \in fs.exists /\ Top = m
      BY <3>0, TypesUsed DEF Top
    <3>2. thread[m] = "none" /\ m # n
      BY <1>2, <1>6, <3>1 DEF KeptInv, ThreadInv
    <3>3. ~Whole(m)'
      <4>1. gz[m] = None
        BY <3>2 DEF KeptInv, ThreadInv
      <4>2. ~Whole(m)
        BY <4>1, NotWhole
      <4> QED BY <1>7, <3>2, <4>2
    <3> QED BY <1>9, <3>1, <3>3
  <2>4. parent # 0 /\ opts.files # 1 => parent \in fs'.exists \/ Whole(parent)'
    <3> SUFFICES ASSUME parent # 0, opts.files # 1 PROVE parent \in fs'.exists \/ Whole(parent)'
      OBVIOUS
    <3>1. PICK m \in Names : m = parent
      BY <2>2
    <3>2. m \in fs.exists \/ Whole(m)
      BY <3>1 DEF KeptInv, ExistInv
    <3>3. m \in fs'.exists \/ Whole(m)'
      BY <2>1, <3>2
    <3> QED BY <1>2, <3>1, <3>3 DEF Whole
  <2> QED BY <1>2, <1>3, <2>1, <2>2, <2>3, <2>4 DEF KeptInv, ExistInv
<1> QED BY <1>10, <1>11, <1>12 DEF KeptInv

(* The directory is as it should be at the start.                          *)
LEMMA InitKept == Init => KeptInv
<1> SUFFICES ASSUME Init PROVE KeptInv
  OBVIOUS
<1>1. SlotInv
  BY DEF Init, RbInit, SlotInv
<1>2. ThreadInv
  BY DEF Init, RbInit, ThreadInv
<1>3. ExistInv
  BY DEF Init, RbInit, FsInit, ExistInv, NewThere
<1> QED BY <1>1, <1>2, <1>3 DEF KeptInv

(* Every step keeps the directory.                                         *)
LEMMA NextKept == OutputInv /\ KeptInv /\ [Next]_vars => KeptInv'
<1> SUFFICES ASSUME OutputInv, KeptInv, [Next]_vars PROVE KeptInv'
  OBVIOUS
<1>1. Typing /\ Typing'
  BY NextTyping DEF OutputInv
<1>2. CASE fs.bad = {} /\ Step /\ UNCHANGED opts
  <2>1. StreamInv
    BY <1>2 DEF OutputInv
  <2>2. CASE Ended
    BY <1>1, <1>2, <2>1, <2>2, QuietKept DEF Ended
  <2> QED BY <1>1, <1>2, <2>1, <2>2, QuietKept, OpenFirstKept, OpenNextKept, EndKept, CompressKept DEF Step
<1>3. CASE UNCHANGED vars
  <2>1. UNCHANGED <<opts, files, curr, fs, thread, gz, oldnames, pc, err, parent>>
    BY <1>3 DEF vars, rbvars, gzvars, msgs
  <2> QED BY <2>1 DEF KeptInv, SlotInv, ThreadInv, ExistInv, RingHere, Slots, Unlimited, Top, Whole,
                      Latest, Started
<1> QED BY <1>2, <1>3 DEF Next, Undefined

(* The directory holds exactly the latest files, each as it was written    *)
(* until all of its packets are in a complete compressed file; whatever    *)
(* call of a switch or of a thread fails, the file the parent was last     *)
(* told of stays; and an original is removed or remembered only when it    *)
(* is compressed.                                                          *)
THEOREM DirectoryKept == Spec => []FilesKept
<1>1. OutputInv /\ KeptInv => FilesKept
  <2> SUFFICES ASSUME OutputInv, KeptInv PROVE FilesKept
    OBVIOUS
  <2>1. TypeOK /\ Typing
    BY TypingIsTypeOK DEF OutputInv
  <2>2. /\ curr \in Nat /\ opts.files \in Nat /\ Top \in Nat /\ Top <= MaxFiles
        /\ fs.exists \subseteq Names /\ oldnames \subseteq Names
    <3>1. curr \in 0..MaxFiles-1
      BY <2>1 DEF Typing, RingTypes
    <3>2. fs.exists \subseteq Names /\ oldnames \subseteq Names
      BY <2>1 DEF Typing, FsType, GzTypes
    <3> QED BY <2>1, <3>1, <3>2, MaxFilesAssumption, OptionTypes DEF Typing, Top
  <2>3. Held \cup MayBeTorn = {n \in Names : n \in fs.exists \/ Whole(n)}
    BY <2>2 DEF Held, MayBeTorn, Whole
  <2>4. RingHoldsLatest
    <3>1. ASSUME Capturing, ~err
          PROVE  Held \cup MayBeTorn = {n \in 1..curr+1 : Unlimited \/ n + opts.files > curr + 1}
      <4>1. Top = curr + 1 /\ files # NoFiles
        <5>1. pc # "rbopen" /\ RingHere
          BY <2>1, <3>1 DEF Capturing, Typing, RingInv, RingPCs, PCs
        <5>2. Slots \in Nat \ {0} /\ 0 \in 0..Slots-1
          BY <2>1, OptionTypes DEF Typing
        <5> QED BY <5>1, <5>2 DEF Top, RingHere, NoFiles
      <4>2. ASSUME NEW n \in Names, n \in fs.exists \/ Whole(n)
            PROVE  n \in Latest
        <5>1. CASE n \in fs.exists
          BY <5>1 DEF KeptInv, ExistInv, Latest
        <5>2. CASE Whole(n)
          <6>1. gz[n] # None
            BY <2>1, <5>2, NotWhole
          <6>2. Unlimited /\ n < Top
            BY <6>1 DEF KeptInv, ThreadInv
          <6> QED BY <2>2, <6>2 DEF Latest, Names
        <5> QED BY <4>2, <5>1, <5>2
      <4>3. \A n \in Latest : n \in Names /\ (n \in fs.exists \/ Whole(n))
        <5>1. Latest \subseteq Names
          BY <2>2, MaxFilesAssumption DEF Latest, Names
        <5> QED BY <3>1, <4>1, <5>1 DEF KeptInv, ExistInv
      <4>4. Held \cup MayBeTorn = Latest
        BY <2>3, <4>2, <4>3
      <4> QED BY <4>1, <4>4 DEF Latest
    <3>2. ASSUME ~Unlimited PROVE Cardinality(fs.exists) <= opts.files
      <4>1. PICK a \in Int : a = Top - opts.files + 1
        BY <2>2
      <4>2. fs.exists \subseteq a..Top
        <5>1. \A n \in fs.exists : n \in 1..Top /\ n + opts.files > Top
          BY <3>2 DEF KeptInv, ExistInv
        <5> QED BY <2>2, <4>1, <5>1
      <4>3. IsFiniteSet(a..Top) /\ Cardinality(a..Top) = (IF a > Top THEN 0 ELSE Top - a + 1)
        <5>1. a \in Int /\ Top \in Int
          BY <2>2
        <5> QED BY <5>1, FS_Interval
      <4>4. Cardinality(fs.exists) <= Cardinality(a..Top) /\ IsFiniteSet(fs.exists)
        BY <4>2, <4>3, FS_Subset
      <4>5. Cardinality(fs.exists) \in Nat
        BY <4>4, FS_CardinalityType
      <4> QED BY <2>2, <4>1, <4>3, <4>4, <4>5
    <3> QED BY <3>1, <3>2 DEF RingHoldsLatest
  <2>5. ParentFileKept
    <3>1. parent \in Names \cup {0}
      BY <2>1, TypesUsed
    <3> QED BY <2>3, <3>1 DEF ParentFileKept, KeptInv, ExistInv
  <2>6. OriginalsRemoved
    BY <2>2 DEF OriginalsRemoved, KeptInv, ThreadInv, Started
  <2> QED BY <2>1, <2>4, <2>5, <2>6 DEF FilesKept
<1>2. Init => OutputInv /\ KeptInv
  BY InitOutput, InitKept
<1>3. OutputInv /\ KeptInv /\ [Next]_vars => OutputInv' /\ KeptInv'
  BY NextOutput, NextKept
<1> QED BY <1>1, <1>2, <1>3, PTL DEF Spec
=============================================================================
