----------------------------- MODULE JpegProofs -----------------------------
(***************************************************************************)
(* Virtual arrays keep their rows, for arrays of any size and windows of   *)
(* any height that takes the rows of one access; and the memory manager is *)
(* sound, whatever the sizes asked for, the memory there is and the limit  *)
(* on it.  Lossless transformations turn pictures of any size, with any    *)
(* whole sampling factors.                                                 *)
(***************************************************************************)
EXTENDS JpegMemory, JpegTransform, FiniteSetTheorems, WellFoundedInduction, TLAPS

\* A control block whose rows are functions of the lengths it says.
Shaped(a) ==
  /\ a \in ArrayRecord
  /\ a.buffer \in [Rows(a.rows_in_mem) -> Cells]
  /\ a.store \in [Rows(a.rows_in_array) -> Cells]
  /\ a.first_undef_row <= a.rows_in_array

LEMMA Lengths ==
  ASSUME NEW n \in Nat, NEW f \in [Rows(n) -> Cells]
  PROVE  f \in RowsOfCells
BY DEF RowsOfCells

\* What no access changes.
SameArray(a, b) ==
  /\ b.kind = a.kind /\ b.pre_zero = a.pre_zero /\ b.width = a.width /\ b.rows_in_array = a.rows_in_array /\ b.maxaccess = a.maxaccess
  /\ b.realized = a.realized /\ b.rows_in_mem = a.rows_in_mem /\ b.b_s_open = a.b_s_open
SameWindow(a, b) ==
  SameArray(a, b) /\ b.cur_start_row = a.cur_start_row /\ b.first_undef_row = a.first_undef_row

\* Before the window moves the store holds every row there is.
LEMMA SavedComplete ==
  ASSUME NEW a, Shaped(a), NEW w, RowsRight(a, w), a.b_s_open
  PROVE  /\ Shaped(SavedWindow(a)) /\ SameWindow(a, SavedWindow(a))
         /\ ~SavedWindow(a).dirty
         /\ \A r \in Rows(a.rows_in_array) : r < a.first_undef_row => SavedWindow(a).store[r] = w[r]
<1> DEFINE s == [r \in Rows(a.rows_in_array) |->
                   IF r \in Moved(a) THEN a.buffer[r - a.cur_start_row] ELSE a.store[r]]
<1>1. CASE ~a.dirty
  BY <1>1 DEF SavedWindow, Shaped, ArrayRecord, SameWindow, SameArray, RowsRight
<1>2. CASE a.dirty
  <2>1. s \in [Rows(a.rows_in_array) -> Cells]
    <3>1. ASSUME NEW r \in Rows(a.rows_in_array), r \in Moved(a)
          PROVE  r - a.cur_start_row \in Rows(a.rows_in_mem)
      BY <3>1 DEF Moved, Rows, Shaped, ArrayRecord
    <3>2. QED
      BY <3>1 DEF Shaped
  <2>2. SavedWindow(a) = [[a EXCEPT !.store = s] EXCEPT !.dirty = FALSE]
    BY <1>2 DEF SavedWindow, WrittenBack
  <2>3. Shaped(SavedWindow(a)) /\ SameWindow(a, SavedWindow(a)) /\ SavedWindow(a).store = s /\ SavedWindow(a).dirty = FALSE
    <3> HIDE DEF s
    <3>1. s \in RowsOfCells
      BY <2>1, Lengths DEF Shaped, ArrayRecord
    <3> QED
      BY <2>1, <2>2, <3>1 DEF Shaped, ArrayRecord, SameWindow, SameArray
  <2>4. ASSUME NEW r \in Rows(a.rows_in_array), r < a.first_undef_row
        PROVE  s[r] = w[r]
    <3>1. r \in Moved(a) <=> InWindow(a, r)
      BY <2>4 DEF Moved, InWindow, Rows, Shaped, ArrayRecord
    <3>2. QED
      BY <2>4, <3>1 DEF RowsRight
  <2>5. QED
    BY <2>3, <2>4
<1>3. QED
  BY <1>1, <1>2

\* Moved, the window takes the rows asked for, and shows of every row what the store holds.
LEMMA SwappedRight ==
  ASSUME NEW a, Shaped(a), NEW w, RowsRight(a, w),
         NEW start \in Nat, NEW end \in Nat, start < end, end <= a.rows_in_array, end - start <= a.maxaccess
  PROVE  \E s \in {Swapped(a, start, end)} :
           /\ Shaped(s) /\ SameArray(a, s) /\ s.first_undef_row = a.first_undef_row /\ RowsRight(s, w)
           /\ s.cur_start_row <= start /\ end <= s.cur_start_row + s.rows_in_mem
<1>1. CASE ~OutsideWindow(a, start, end)
  BY <1>1 DEF OutsideWindow, Swapped, SameArray, Shaped, ArrayRecord
<1>2. CASE OutsideWindow(a, start, end)
  <2>1. a.b_s_open
    BY <1>2 DEF OutsideWindow, RowsRight, Shaped, ArrayRecord
  <2> DEFINE b == SavedWindow(a)
             n == NewStart(a, start, end)
             c == [b EXCEPT !.cur_start_row = n]
             f == [k \in Rows(c.rows_in_mem) |-> IF c.cur_start_row + k \in Moved(c) THEN c.store[c.cur_start_row + k] ELSE c.buffer[k]]
             s == [c EXCEPT !.buffer = f]
  <2>2. /\ Shaped(b) /\ SameWindow(a, b) /\ ~b.dirty
        /\ \A r \in Rows(a.rows_in_array) : r < a.first_undef_row => b.store[r] = w[r]
    BY <2>1, SavedComplete
  <2>3. n \in Nat /\ n <= start /\ end <= n + a.rows_in_mem
    BY <1>2 DEF NewStart, OutsideWindow, Shaped, ArrayRecord, RowsRight
  <2>4. Shaped(c) /\ SameArray(a, c) /\ c.cur_start_row = n /\ ~c.dirty /\ c.store = b.store /\ c.first_undef_row = a.first_undef_row
    <3> HIDE DEF b, n
    <3> QED
      BY <2>2, <2>3 DEF Shaped, ArrayRecord, SameWindow, SameArray
  <2> HIDE DEF c
  <2>5. f \in [Rows(c.rows_in_mem) -> Cells]
    <3>1. c.cur_start_row \in Nat /\ c.rows_in_mem \in Nat /\ c.rows_in_array \in Nat
      BY <2>4 DEF Shaped, ArrayRecord
    <3>2. ASSUME NEW r \in Moved(c) PROVE r \in Rows(c.rows_in_array)
      BY <3>1 DEF Moved, Rows
    <3>3. QED
      BY <2>4, <3>2 DEF Shaped
  <2>6. \A r \in Rows(a.rows_in_array) : r < a.first_undef_row /\ InWindow(c, r) => f[r - c.cur_start_row] = w[r]
    <3> SUFFICES ASSUME NEW r \in Rows(a.rows_in_array), r < a.first_undef_row, InWindow(c, r)
                 PROVE  f[r - c.cur_start_row] = w[r]
      OBVIOUS
    <3>1. r - c.cur_start_row \in Rows(c.rows_in_mem) /\ c.cur_start_row + (r - c.cur_start_row) = r /\ r \in Moved(c)
      BY <2>4, SMTT(30) DEF InWindow, Rows, Moved, Shaped, ArrayRecord, SameArray
    <3>2. QED
      BY <3>1, <2>2, <2>4
  <2>7. Swapped(a, start, end) = s
    BY <1>2 DEF Swapped, ReadIn, c
  <2> HIDE DEF f
  <2>8. f \in RowsOfCells
    BY <2>4, <2>5, Lengths DEF Shaped, ArrayRecord
  <2>9. /\ Shaped(s) /\ SameWindow(c, s) /\ s.store = c.store /\ s.buffer = f /\ s.dirty = c.dirty
    BY <2>4, <2>5, <2>8 DEF Shaped, ArrayRecord, SameWindow, SameArray
  <2> HIDE DEF s
  <2>10. RowsRight(s, w)
    BY <2>1, <2>2, <2>4, <2>6, <2>9 DEF RowsRight, SameWindow, SameArray, InWindow
  <2>11. QED
    BY <2>3, <2>4, <2>7, <2>9, <2>10 DEF SameWindow, SameArray
<1>3. QED
  BY <1>1, <1>2

\* What the caller gives lies among the rows it asked for, and covers those that held nothing.
LEMMA GivenRows ==
  ASSUME NEW a, NEW start \in Nat, NEW end \in Nat, NEW writable \in BOOLEAN,
         NEW given \in Givings(a, start, end, writable)
  PROVE  /\ DOMAIN given \subseteq start .. end - 1
         /\ \A r \in DOMAIN given : given[r] \in RowValues
         /\ ~writable => DOMAIN given = {}
         /\ writable => a.pre_zero \/ \A r \in start .. end - 1 : r >= a.first_undef_row => r \in DOMAIN given
<1>1. CASE ~writable
  BY <1>1 DEF Givings
<1>2. CASE writable
  <2>1. PICK T \in SUBSET (start .. end - 1) :
          /\ a.pre_zero \/ {r \in start .. end - 1 : r >= a.first_undef_row} \subseteq T
          /\ given \in [T -> RowValues]
    BY <1>2 DEF Givings
  <2>2. QED
    BY <1>2, <2>1
<1>3. QED
  BY <1>1, <1>2

\* The history of an array after its caller has given `given`.
Given(w, given) == [r \in DOMAIN w |-> IF r \in DOMAIN given THEN given[r] ELSE w[r]]

\* An access leaves every row right, and those asked for in the window.
LEMMA AccessKeeps ==
  ASSUME NEW a, Shaped(a), NEW w \in [Rows(a.rows_in_array) -> Cells], RowsRight(a, w),
         NEW start \in Nat, NEW end \in Nat, start < end, end <= a.rows_in_array, end - start <= a.maxaccess,
         NEW writable \in BOOLEAN, ~BadAccess(a, start, end, writable),
         NEW given \in Givings(a, start, end, writable)
  PROVE  \E b \in {RowsFilled(Accessed(a, start, end, writable), given)} :
           /\ Shaped(b) /\ SameArray(a, b) /\ RowsRight(b, Given(w, given))
           /\ Given(w, given) \in [Rows(a.rows_in_array) -> Cells]
           /\ b.cur_start_row <= start /\ end <= b.cur_start_row + b.rows_in_mem
           /\ \A r \in start .. end - 1 : b.buffer[r - b.cur_start_row] = Given(w, given)[r]
<1> DEFINE s == Swapped(a, start, end)
           zero(k) == s.pre_zero /\ s.first_undef_row < end /\ s.cur_start_row + k \in UndefRow(s, start) .. end - 1
           f == [k \in Rows(s.rows_in_mem) |-> IF zero(k) THEN 0 ELSE s.buffer[k]]
           c == Cleared(s, start, end)
           o == Opened(c, start, end, writable)
           g == [k \in Rows(o.rows_in_mem) |->
                   IF o.cur_start_row + k \in DOMAIN given THEN given[o.cur_start_row + k] ELSE o.buffer[k]]
           b == RowsFilled(o, given)
           v == Given(w, given)
<1>1. /\ Shaped(s) /\ SameArray(a, s) /\ s.first_undef_row = a.first_undef_row /\ RowsRight(s, w)
      /\ s.cur_start_row <= start /\ end <= s.cur_start_row + s.rows_in_mem
  BY SwappedRight
<1> HIDE DEF s
<1>2. /\ Shaped(c) /\ SameWindow(s, c) /\ c.store = s.store /\ c.dirty = s.dirty
      /\ \A k \in Rows(s.rows_in_mem) : c.buffer[k] = IF zero(k) THEN 0 ELSE s.buffer[k]
  <2>1. f \in [Rows(s.rows_in_mem) -> Cells]
    BY <1>1 DEF Shaped, Cells
  <2>2. f \in RowsOfCells
    BY <1>1, <2>1, Lengths DEF Shaped, ArrayRecord
  <2>3. CASE s.pre_zero /\ s.first_undef_row < end
    <3>1. c = [s EXCEPT !.buffer = f]
      BY <2>3 DEF Cleared
    <3> HIDE DEF f
    <3>2. Shaped(c) /\ SameWindow(s, c) /\ c.store = s.store /\ c.dirty = s.dirty /\ c.buffer = f
      BY <1>1, <2>1, <2>2, <3>1 DEF Shaped, ArrayRecord, SameWindow, SameArray
    <3>3. QED
      BY <3>2 DEF f
  <2>4. CASE ~(s.pre_zero /\ s.first_undef_row < end)
    BY <1>1, <2>4 DEF Cleared, SameWindow, SameArray
  <2>5. QED
    BY <2>3, <2>4
<1> HIDE DEF c, f
<1>3. /\ Shaped(o) /\ SameArray(c, o) /\ o.cur_start_row = c.cur_start_row /\ o.store = c.store /\ o.buffer = c.buffer
      /\ o.first_undef_row = IF writable /\ c.first_undef_row < end THEN end ELSE c.first_undef_row
      /\ o.dirty = (c.dirty \/ writable)
  BY <1>1, <1>2 DEF Opened, Shaped, ArrayRecord, SameArray, SameWindow
<1> HIDE DEF o
<1>4. /\ DOMAIN given \subseteq start .. end - 1
      /\ \A r \in DOMAIN given : given[r] \in RowValues
      /\ ~writable => DOMAIN given = {}
      /\ writable => a.pre_zero \/ \A r \in start .. end - 1 : r >= a.first_undef_row => r \in DOMAIN given
  BY GivenRows
<1>5. /\ Shaped(b) /\ SameWindow(o, b) /\ b.store = o.store /\ b.dirty = o.dirty /\ b.buffer = g
  <2>1. g \in [Rows(o.rows_in_mem) -> Cells]
    BY <1>3, <1>4 DEF Shaped, Cells
  <2>2. g \in RowsOfCells
    BY <1>3, <2>1, Lengths DEF Shaped, ArrayRecord
  <2>3. b = [o EXCEPT !.buffer = g]
    BY DEF RowsFilled
  <2> HIDE DEF g
  <2>4. QED
    BY <1>3, <2>1, <2>2, <2>3 DEF Shaped, ArrayRecord, SameWindow, SameArray
<1> HIDE DEF b
<1>6. v \in [Rows(a.rows_in_array) -> Cells] /\ \A r \in Rows(a.rows_in_array) : v[r] = IF r \in DOMAIN given THEN given[r] ELSE w[r]
  BY <1>4 DEF Given, Cells
<1> HIDE DEF v
<1>7. /\ SameArray(a, b) /\ b.cur_start_row = s.cur_start_row /\ b.store = s.store
      /\ b.first_undef_row = (IF writable /\ a.first_undef_row < end THEN end ELSE a.first_undef_row)
      /\ b.dirty = (s.dirty \/ writable)
  BY <1>1, <1>2, <1>3, <1>5 DEF SameArray, SameWindow
<1>8. /\ a.rows_in_array \in Nat /\ a.rows_in_mem \in Nat /\ s.cur_start_row \in Nat /\ a.first_undef_row \in Nat
      /\ a.pre_zero \in BOOLEAN /\ s.dirty \in BOOLEAN
  BY <1>1 DEF Shaped, ArrayRecord
\* The row of the window that holds row r.
<1>9. ASSUME NEW r \in Rows(a.rows_in_array), InWindow(s, r)
      PROVE  b.buffer[r - s.cur_start_row] =
               IF r \in DOMAIN given THEN given[r]
               ELSE IF a.pre_zero /\ a.first_undef_row < end /\ r \in UndefRow(a, start) .. end - 1 THEN 0
               ELSE s.buffer[r - s.cur_start_row]
  <2>1. r - s.cur_start_row \in Rows(a.rows_in_mem) /\ s.cur_start_row + (r - s.cur_start_row) = r
    BY <1>1, <1>8, <1>9, SMTT(30) DEF InWindow, Rows, SameArray
  <2>2. b.buffer[r - s.cur_start_row] = IF r \in DOMAIN given THEN given[r] ELSE c.buffer[r - s.cur_start_row]
    BY <1>1, <1>2, <1>3, <1>5, <2>1 DEF SameArray, SameWindow
  <2>3. c.buffer[r - s.cur_start_row] = IF a.pre_zero /\ a.first_undef_row < end /\ r \in UndefRow(a, start) .. end - 1 THEN 0
                                        ELSE s.buffer[r - s.cur_start_row]
    BY <1>1, <1>2, <2>1 DEF SameArray, UndefRow
  <2>4. QED
    BY <2>2, <2>3
<1>10. ASSUME NEW r \in Rows(a.rows_in_array), InWindow(s, r), r < b.first_undef_row
       PROVE  b.buffer[r - s.cur_start_row] = v[r]
  <2>1. CASE r \in DOMAIN given
    BY <1>6, <1>9, <1>10, <2>1
  <2>2. CASE r \notin DOMAIN given /\ r < a.first_undef_row
    <3>1. r \notin UndefRow(a, start) .. end - 1
      BY <1>8, <2>2 DEF UndefRow, Rows
    <3>2. s.buffer[r - s.cur_start_row] = w[r]
      BY <1>1, <1>10, <2>2 DEF RowsRight, SameArray
    <3>3. QED
      BY <1>6, <1>9, <1>10, <2>2, <3>1, <3>2
  <2>3. CASE r \notin DOMAIN given /\ r >= a.first_undef_row
    <3>1. writable /\ a.first_undef_row < end /\ r < end /\ start <= r /\ a.first_undef_row >= start
      BY <1>7, <1>8, <1>10, <2>3 DEF BadAccess, Rows
    <3>2. a.pre_zero /\ r \in UndefRow(a, start) .. end - 1
      BY <1>4, <1>8, <2>3, <3>1 DEF UndefRow, Rows
    <3>3. w[r] = 0
      BY <2>3, <3>2 DEF RowsRight
    <3>4. QED
      BY <1>6, <1>9, <1>10, <2>3, <3>1, <3>2, <3>3
  <2>4. QED
    BY <1>8, <2>1, <2>2, <2>3 DEF Rows
<1>11. RowsRight(b, v)
  <2>1. ASSUME NEW r \in Rows(a.rows_in_array), r < b.first_undef_row, ~InWindow(s, r)
        PROVE  s.store[r] = v[r]
    <3>1. r \notin start .. end - 1
      BY <1>1, <1>8, <2>1 DEF InWindow, Rows, SameArray
    <3>2. r < a.first_undef_row
      BY <1>7, <1>8, <2>1, <3>1 DEF Rows, BadAccess
    <3>3. QED
      BY <1>1, <1>4, <1>6, <2>1, <3>1, <3>2 DEF RowsRight, SameArray
  <2>2. ASSUME NEW r \in Rows(a.rows_in_array), r < b.first_undef_row, InWindow(s, r), ~b.dirty, b.b_s_open
        PROVE  b.store[r] = v[r]
    BY <1>1, <1>4, <1>6, <1>7, <2>2 DEF RowsRight, SameArray
  <2>3. ASSUME NEW r \in Rows(a.rows_in_array), a.pre_zero, r >= b.first_undef_row
        PROVE  v[r] = 0
    <3>1. r >= a.first_undef_row /\ (writable => r \notin start .. end - 1)
      BY <1>7, <1>8, <2>3 DEF Rows
    <3>2. QED
      BY <1>4, <1>6, <2>3, <3>1 DEF RowsRight
  <2>4. InWindow(b, 0) = InWindow(s, 0) /\ \A r \in Rows(a.rows_in_array) : InWindow(b, r) <=> InWindow(s, r)
    BY <1>1, <1>7 DEF InWindow, SameArray
  <2>5. ASSUME NEW r \in Rows(b.rows_in_array), r < b.first_undef_row
        PROVE  IF InWindow(b, r) THEN /\ b.buffer[r - b.cur_start_row] = v[r]
                                      /\ b.dirty \/ ~b.b_s_open \/ b.store[r] = v[r]
               ELSE b.store[r] = v[r]
    <3>1. r \in Rows(a.rows_in_array)
      BY <1>7, <2>5 DEF SameArray
    <3>2. CASE InWindow(s, r)
      BY <1>7, <1>10, <2>2, <2>4, <2>5, <3>1, <3>2
    <3>3. CASE ~InWindow(s, r)
      BY <1>7, <2>1, <2>4, <2>5, <3>1, <3>3
    <3>4. QED
      BY <3>2, <3>3
  <2>6. /\ b.b_s_open \/ (b.cur_start_row = 0 /\ b.rows_in_mem = b.rows_in_array)
        /\ b.rows_in_mem >= b.maxaccess \/ b.rows_in_mem = b.rows_in_array
    BY <1>1, <1>7 DEF RowsRight, SameArray
  <2>7. ASSUME NEW r \in Rows(b.rows_in_array), b.pre_zero, r >= b.first_undef_row
        PROVE  v[r] = 0
    BY <1>7, <2>3, <2>7 DEF SameArray
  <2> HIDE DEF v
  <2>8. QED
    BY <2>5, <2>6, <2>7 DEF RowsRight
<1>12. ASSUME NEW r \in start .. end - 1
       PROVE  b.buffer[r - b.cur_start_row] = v[r]
  <2>1. r \in Rows(a.rows_in_array) /\ InWindow(s, r)
    BY <1>1, <1>8 DEF Rows, InWindow, SameArray
  <2>2. CASE r < b.first_undef_row
    BY <1>7, <1>10, <2>1, <2>2
  <2>3. CASE r >= b.first_undef_row
    <3>1. ~writable /\ a.first_undef_row <= r /\ a.first_undef_row < end
      BY <1>7, <1>8, <2>1, <2>3 DEF Rows
    <3>2. a.pre_zero /\ r \in UndefRow(a, start) .. end - 1
      BY <1>8, <3>1 DEF BadAccess, UndefRow
    <3>3. w[r] = 0
      BY <2>1, <3>1, <3>2 DEF RowsRight
    <3>4. QED
      BY <1>4, <1>6, <1>7, <1>9, <2>1, <3>1, <3>2, <3>3
  <2>4. QED
    BY <1>7, <1>8, <2>2, <2>3 DEF Rows
<1>13. QED
  BY <1>1, <1>5, <1>6, <1>7, <1>11, <1>12 DEF Accessed, SameArray, b, o, c, s, v

-----------------------------------------------------------------------------
\* An array and its history: before it is realized nothing is in it.
ArrayRight(a, w) ==
  /\ a \in ArrayRecord
  /\ a.store \in [Rows(a.rows_in_array) -> Cells]
  /\ w \in [Rows(a.rows_in_array) -> Cells]
  /\ a.realized => Shaped(a) /\ RowsRight(a, w)
  /\ ~a.realized => (a.pre_zero => \A r \in Rows(a.rows_in_array) : w[r] = 0)

\* The inductive invariant.
HeldInWindow ==
  /\ held \in [array : Nat, start : Nat, end : Nat] /\ held.array <= Len(virt)
  /\ held.array # 0 => virt[held.array].realized
ArraysRight ==
  /\ virt \in Seq(ArrayRecord) /\ written \in Seq(RowsOfCells) /\ Len(written) = Len(virt)
  /\ \A i \in DOMAIN virt : ArrayRight(virt[i], written[i])
  /\ HeldInWindow /\ HeldRight

LEMMA RealizedRight ==
  ASSUME NEW a, NEW w, ArrayRight(a, w), ~a.realized,
         NEW rows \in 1 .. a.rows_in_array, rows = a.rows_in_array \/ rows >= a.maxaccess
  PROVE  ArrayRight(Realized(Sized(a, rows)), w) /\ ArrayRight(Sized(a, rows), w)
<1> DEFINE s == Sized(a, rows)
           f == [k \in Rows(s.rows_in_mem) |-> Unset]
           b == Realized(s)
<1>1. /\ s \in ArrayRecord /\ s.store = a.store /\ s.rows_in_array = a.rows_in_array /\ s.rows_in_mem = rows
      /\ s.maxaccess = a.maxaccess /\ s.pre_zero = a.pre_zero /\ ~s.realized /\ (s.b_s_open \/ rows = a.rows_in_array)
  <2> DEFINE open == rows < a.rows_in_array
  <2>1. open \in BOOLEAN /\ rows \in Nat /\ (open \/ rows = a.rows_in_array)
    BY DEF ArrayRight, ArrayRecord
  <2>2. s = [a EXCEPT !.rows_in_mem = rows, !.b_s_open = open]
    BY DEF Sized
  <2> HIDE DEF open, s
  <2>3. QED
    BY <2>1, <2>2 DEF ArrayRight, ArrayRecord
<1>2. ArrayRight(s, w)
  BY <1>1 DEF ArrayRight
<1> HIDE DEF s
<1>3. f \in [Rows(rows) -> Cells] /\ rows \in Nat
  BY <1>1 DEF Cells, ArrayRight, ArrayRecord
<1>4. f \in RowsOfCells
  BY <1>3, Lengths
<1>5. b = [s EXCEPT !.realized = TRUE, !.buffer = f, !.cur_start_row = 0, !.first_undef_row = 0, !.dirty = FALSE]
  BY DEF Realized
<1> HIDE DEF f, b
<1>6. /\ b \in ArrayRecord /\ b.store = s.store /\ b.rows_in_array = s.rows_in_array /\ b.rows_in_mem = rows
      /\ b.maxaccess = s.maxaccess /\ b.pre_zero = s.pre_zero /\ b.realized /\ (s.b_s_open => b.b_s_open)
      /\ b.cur_start_row = 0 /\ b.first_undef_row = 0 /\ b.buffer = f
  BY <1>1, <1>4, <1>5 DEF ArrayRecord
<1>7. Shaped(b)
  BY <1>1, <1>3, <1>6 DEF Shaped, ArrayRight, ArrayRecord
<1>8. RowsRight(b, w)
  <2>1. \A r \in Rows(b.rows_in_array) : ~(r < b.first_undef_row)
    BY <1>6 DEF Rows, ArrayRecord
  <2>2. \A r \in Rows(b.rows_in_array) : b.pre_zero => w[r] = 0
    BY <1>1, <1>6 DEF ArrayRight
  <2>3. b.b_s_open \/ b.rows_in_mem = b.rows_in_array
    BY <1>1, <1>6 DEF ArrayRight, ArrayRecord
  <2>4. b.rows_in_mem >= b.maxaccess \/ b.rows_in_mem = b.rows_in_array
    BY <1>1, <1>6
  <2>5. QED
    BY <1>6, <2>1, <2>2, <2>3, <2>4 DEF RowsRight
<1>9. ArrayRight(b, w)
  BY <1>1, <1>6, <1>7, <1>8 DEF ArrayRight
<1>10. QED
  BY <1>2, <1>9 DEF b, s

LEMMA ArraysInit == ArrayIdle => ArraysRight
BY DEF ArrayIdle, ArraysRight, None, HeldInWindow, HeldRight

LEMMA RequestKeeps ==
  ASSUME ArraysRight, NEW kind \in {"sample", "block"}, NEW z \in BOOLEAN, NEW width \in Nat,
         NEW rows \in Nat \ {0}, NEW maxaccess \in Nat \ {0}, RequestVirt(kind, z, width, rows, maxaccess)
  PROVE  ArraysRight'
<1> DEFINE st == [r \in Rows(rows) |-> Unset]
           bf == [k \in Rows(0) |-> Unset]
           w == [r \in Rows(rows) |-> IF z THEN 0 ELSE Unset]
           a == [kind |-> kind, pre_zero |-> z, width |-> width, rows_in_array |-> rows, maxaccess |-> maxaccess,
                 realized |-> FALSE, rows_in_mem |-> 0, b_s_open |-> FALSE, cur_start_row |-> 0,
                 first_undef_row |-> 0, dirty |-> FALSE, buffer |-> bf, store |-> st]
<1>1. virt' = Append(virt, a) /\ written' = Append(written, w) /\ held' = held
  BY DEF RequestVirt
<1>2. st \in [Rows(rows) -> Cells] /\ w \in [Rows(rows) -> Cells] /\ bf \in [Rows(0) -> Cells]
  BY DEF Cells
<1>3. st \in RowsOfCells /\ w \in RowsOfCells /\ bf \in RowsOfCells
  BY <1>2, Lengths
<1>4. z => \A r \in Rows(rows) : w[r] = 0
  OBVIOUS
<1> HIDE DEF st, bf, w
<1>5. a \in ArrayRecord
  BY <1>3 DEF ArrayRecord
<1>6. ArrayRight(a, w)
  BY <1>2, <1>4, <1>5 DEF ArrayRight
<1> HIDE DEF a
<1>7. /\ virt' \in Seq(ArrayRecord) /\ Len(virt') = Len(virt) + 1 /\ virt'[Len(virt) + 1] = a
      /\ \A i \in DOMAIN virt : virt'[i] = virt[i]
  BY <1>1, <1>5 DEF ArraysRight
<1>8. /\ written' \in Seq(RowsOfCells) /\ Len(written') = Len(virt) + 1 /\ written'[Len(virt) + 1] = w
      /\ \A i \in DOMAIN virt : written'[i] = written[i]
  BY <1>1, <1>3 DEF ArraysRight
<1>9. DOMAIN virt = 1 .. Len(virt) /\ DOMAIN virt' = 1 .. Len(virt) + 1 /\ Len(virt) \in Nat
  BY <1>7 DEF ArraysRight
<1>10. \A i \in DOMAIN virt' : ArrayRight(virt'[i], written'[i])
  BY <1>6, <1>7, <1>8, <1>9 DEF ArraysRight
<1>11. held.array # 0 => held.array \in DOMAIN virt
  BY <1>9 DEF ArraysRight, HeldInWindow
<1>12. held.array # 0 => virt'[held.array] = virt[held.array] /\ written'[held.array] = written[held.array]
  BY <1>7, <1>8, <1>11
<1>13. HeldInWindow'
  BY <1>1, <1>7, <1>9, <1>12 DEF ArraysRight, HeldInWindow
<1>14. HeldRight'
  BY <1>1, <1>12 DEF ArraysRight, HeldRight
<1>15. QED
  BY <1>7, <1>8, <1>10, <1>13, <1>14 DEF ArraysRight

LEMMA SizingKeeps ==
  ASSUME ArraysRight, NEW i \in DOMAIN virt, NEW rows \in 1 .. virt[i].rows_in_array, ~virt[i].realized,
         rows = virt[i].rows_in_array \/ rows >= virt[i].maxaccess,
         RealizeVirt(i, rows) \/ SizeOnly(i, rows)
  PROVE  ArraysRight'
<1>1. PICK b \in {Realized(Sized(virt[i], rows)), Sized(virt[i], rows)} :
        virt' = [virt EXCEPT ![i] = b] /\ written' = written /\ held' = held
  BY DEF RealizeVirt, SizeOnly
<1>2. ArrayRight(virt[i], written[i])
  BY DEF ArraysRight
<1>3. ArrayRight(b, written[i])
  BY <1>2, RealizedRight
<1>4. b \in ArrayRecord
  BY <1>3 DEF ArrayRight
<1>5. /\ virt' \in Seq(ArrayRecord) /\ Len(virt') = Len(virt) /\ DOMAIN virt' = DOMAIN virt
      /\ virt'[i] = b /\ \A j \in DOMAIN virt : j # i => virt'[j] = virt[j]
  BY <1>1, <1>4 DEF ArraysRight
<1>6. held.array # i
  BY DEF ArraysRight, HeldInWindow
<1>7. held.array # 0 => held.array \in DOMAIN virt
  BY DEF ArraysRight, HeldInWindow
<1>8. HeldInWindow' /\ HeldRight'
  BY <1>1, <1>5, <1>6, <1>7 DEF ArraysRight, HeldInWindow, HeldRight
<1>9. QED
  BY <1>1, <1>3, <1>5, <1>8 DEF ArraysRight

LEMMA AccessStepKeeps ==
  ASSUME ArraysRight, NEW i \in DOMAIN virt, NEW writable \in BOOLEAN,
         NEW start \in 0 .. virt[i].rows_in_array, NEW end \in start + 1 .. virt[i].rows_in_array,
         access_virt_array(i, start, end, writable)
  PROVE  ArraysRight' /\ DOMAIN virt' = DOMAIN virt /\ SameArray(virt[i], virt'[i]) /\ \A j \in DOMAIN virt : j # i => virt'[j] = virt[j]
<1> DEFINE a == virt[i]
           w == written[i]
<1>1. PICK given \in Givings(a, start, end, writable) :
        /\ virt' = [virt EXCEPT ![i] = RowsFilled(Accessed(a, start, end, writable), given)]
        /\ written' = [written EXCEPT ![i] = Given(w, given)]
  BY DEF access_virt_array, Given
<1>2. held' = [array |-> i, start |-> start, end |-> end] /\ ~BadAccess(a, start, end, writable)
  BY DEF access_virt_array
<1>3. ArrayRight(a, w) /\ i \in 1 .. Len(virt) /\ Len(virt) \in Nat /\ DOMAIN written = DOMAIN virt
  BY DEF ArraysRight
<1>4. /\ start \in Nat /\ end \in Nat /\ start < end /\ end <= a.rows_in_array
      /\ end - start <= a.maxaccess /\ a.realized
  BY <1>2, <1>3 DEF BadAccess, ArrayRight, ArrayRecord
<1>5. Shaped(a) /\ RowsRight(a, w) /\ w \in [Rows(a.rows_in_array) -> Cells]
  BY <1>3, <1>4 DEF ArrayRight
<1> DEFINE b == RowsFilled(Accessed(a, start, end, writable), given)
           v == Given(w, given)
<1>6. /\ Shaped(b) /\ SameArray(a, b) /\ RowsRight(b, v)
      /\ v \in [Rows(a.rows_in_array) -> Cells]
      /\ b.cur_start_row <= start /\ end <= b.cur_start_row + b.rows_in_mem
      /\ \A r \in start .. end - 1 : b.buffer[r - b.cur_start_row] = v[r]
  <2> HIDE DEF a, w
  <2>1. QED
    BY <1>2, <1>4, <1>5, AccessKeeps
<1> HIDE DEF a, w, b, v
<1>7. ArrayRight(b, v) /\ b \in ArrayRecord /\ v \in RowsOfCells /\ b.realized
  BY <1>3, <1>4, <1>6, Lengths DEF ArrayRight, Shaped, ArrayRecord, SameArray
<1>8. virt' = [virt EXCEPT ![i] = b] /\ written' = [written EXCEPT ![i] = v]
  BY <1>1 DEF b, v
<1>9. /\ virt' \in Seq(ArrayRecord) /\ Len(virt') = Len(virt) /\ DOMAIN virt' = DOMAIN virt
      /\ virt'[i] = b /\ \A j \in DOMAIN virt : j # i => virt'[j] = virt[j]
  BY <1>7, <1>8 DEF ArraysRight
<1>10. /\ written' \in Seq(RowsOfCells) /\ Len(written') = Len(virt)
       /\ written'[i] = v /\ \A j \in DOMAIN virt : j # i => written'[j] = written[j]
  BY <1>3, <1>7, <1>8 DEF ArraysRight
<1>11. HeldInWindow' /\ HeldRight'
  BY <1>2, <1>3, <1>4, <1>6, <1>7, <1>9, <1>10 DEF HeldInWindow, HeldRight, HandedOut
<1>12. ArraysRight'
  BY <1>7, <1>9, <1>10, <1>11 DEF ArraysRight
<1>13. QED
  BY <1>6, <1>9, <1>12 DEF a

LEMMA ArraysStep == ArraysRight /\ [ArrayNext]_arrayVars => ArraysRight'
<1> SUFFICES ASSUME ArraysRight, [ArrayNext]_arrayVars PROVE ArraysRight'
  OBVIOUS
<1>1. ASSUME NEW kind \in {"sample", "block"}, NEW z \in BOOLEAN, NEW width \in Nat,
             NEW rows \in Nat \ {0}, NEW maxaccess \in Nat \ {0}, RequestVirt(kind, z, width, rows, maxaccess)
      PROVE  ArraysRight'
  BY <1>1, RequestKeeps
<1>2. ASSUME NEW i \in DOMAIN virt, NEW rows \in 1 .. virt[i].rows_in_array, ~virt[i].realized,
             rows = virt[i].rows_in_array \/ rows >= virt[i].maxaccess,
             RealizeVirt(i, rows) \/ SizeOnly(i, rows)
      PROVE  ArraysRight'
  BY <1>2, SizingKeeps
<1>3. ASSUME NEW i \in DOMAIN virt, NEW writable \in BOOLEAN,
             NEW start \in 0 .. virt[i].rows_in_array, NEW end \in start + 1 .. virt[i].rows_in_array,
             access_virt_array(i, start, end, writable)
      PROVE  ArraysRight'
  BY <1>3, AccessStepKeeps
<1>4. CASE ForgetArrays
  BY <1>4 DEF ForgetArrays, ArraysRight, None, HeldInWindow, HeldRight
<1>5. CASE UNCHANGED arrayVars
  BY <1>5 DEF arrayVars, ArraysRight, HeldInWindow, HeldRight
<1>6. QED
  BY <1>1, <1>2, <1>3, <1>4, <1>5 DEF ArrayNext

LEMMA ArraysKept == ArraysRight => RowsKept
BY DEF ArraysRight, ArrayRight, RowsKept

\* The rows a caller is handed hold what was last put into them, however the windows of the arrays
\* move, for any number of arrays of any size (jmemmgr.c, access_virt_sarray, access_virt_barray).
THEOREM RowsAlwaysKept == ArraySpec => []RowsKept
<1>1. ArraysRight /\ [ArrayNext]_arrayVars => ArraysRight'
  BY ArraysStep
<1>2. QED
  BY <1>1, ArraysInit, ArraysKept, PTL DEF ArraySpec

-----------------------------------------------------------------------------
(* Induction over finite sets and over numbers, of the set of what has     *)
(* the property in place of an operator; and the sum over a finite set, which *)
(* is the same whichever element is taken first.                           *)

\* A property of finite sets, given as the set of those that have it, that the empty set has and
\* that another element does not take away, is one of every finite set.
LEMMA SetInduction ==
  ASSUME NEW S, IsFiniteSet(S), NEW G, {} \in G,
         \A T \in SUBSET S : T \in G => \A x \in S \ T : T \cup {x} \in G
  PROVE  \A T \in SUBSET S : T \in G
<1> DEFINE Bad == {T \in SUBSET S : T \notin G}
           R == StrictSubsetOrdering(S)
<1> SUFFICES ASSUME Bad # {} PROVE FALSE
  OBVIOUS
<1>1. FiniteSubsetsOf(S) = SUBSET S
  BY FS_FiniteSubsetsOfFinite
<1>2. IsWellFoundedOn(R, SUBSET S)
  BY <1>1, FS_StrictSubsetOrderingWellFounded
<1>3. PICK T \in Bad : \A U \in Bad : ~(<<U, T>> \in R)
  <2>1. Bad \subseteq SUBSET S
    OBVIOUS
  <2> HIDE DEF Bad, R
  <2> QED
    BY <1>2, <2>1, WFMin
<1>4. PICK x \in T : TRUE
  OBVIOUS
<1>5. /\ T \ {x} \in SUBSET S /\ T \ {x} # T /\ T \ {x} \subseteq T
      /\ (T \ {x}) \cup {x} = T /\ x \in S \ (T \ {x})
  BY <1>4
<1>6. <<T \ {x}, T>> \in R
  BY <1>5 DEF StrictSubsetOrdering
<1>7. T \ {x} \in G
  BY <1>3, <1>5, <1>6
<1> QED
  BY <1>3, <1>5, <1>7

\* Natural numbers likewise.
LEMMA NumberInduction ==
  ASSUME NEW G, 0 \in G, \A n \in Nat : n \in G => n + 1 \in G
  PROVE  \A n \in Nat : n \in G
<1> SUFFICES ASSUME NEW n \in Nat PROVE n \in G
  OBVIOUS
<1> DEFINE S == 1 .. n
           H == {T \in SUBSET S : Cardinality(T) \in G}
<1>1. IsFiniteSet(S) /\ Cardinality(S) = n
  BY FS_Interval
<1>2. {} \in H
  BY FS_EmptySet
<1>3. ASSUME NEW T \in SUBSET S, T \in H, NEW x \in S \ T
      PROVE  T \cup {x} \in H
  <2>1. IsFiniteSet(T)
    BY <1>1, FS_Subset
  <2>2. Cardinality(T) \in Nat /\ Cardinality(T \cup {x}) = Cardinality(T) + 1
    BY <2>1, FS_CardinalityType, FS_AddElement
  <2> QED
    BY <1>3, <2>2
<1> HIDE DEF H
<1>4. \A T \in SUBSET S : T \in H
  <2> HIDE DEF S
  <2> QED
    BY <1>1, <1>2, <1>3, SetInduction
<1> QED
  BY <1>1, <1>4 DEF H

Some(T) == CHOOSE x \in T : TRUE
SumStep(f, s, F) == IF s = {} THEN 0 ELSE F[Some(s)] + f[s \ {Some(s)}]
Sums(f, S, F) == f = [s \in SUBSET S |-> SumStep(f, s, F)]

\* The fold of the community modules, as the function it takes its value from.
LEMMA SumDef ==
  ASSUME NEW S, NEW F
  PROVE  SumOf(S, F) = (CHOOSE f : Sums(f, S, F))[S]
BY DEF SumOf, MapThenFoldSet, Sums, SumStep, Some

LEMMA SomeIn == ASSUME NEW T, T # {} PROVE Some(T) \in T
BY DEF Some

\* The function a sum is the last value of exists.
LEMMA SumsExist ==
  ASSUME NEW S, IsFiniteSet(S), NEW F
  PROVE  \E f : Sums(f, S, F)
<1> DEFINE Small(n) == {T \in SUBSET S : Cardinality(T) <= n}
           Below(n) == \E f : f = [s \in Small(n) |-> SumStep(f, s, F)]
           G == {n \in Nat : Below(n)}
<1>1. \A T \in SUBSET S : IsFiniteSet(T) /\ Cardinality(T) \in Nat
  BY FS_Subset, FS_CardinalityType
<1>2. 0 \in G
  <2>1. Small(0) = {{}}
    <3>1. \A T \in SUBSET S : Cardinality(T) = 0 <=> T = {}
      BY <1>1, FS_EmptySet
    <3>2. QED
      BY <1>1, <3>1
  <2>2. [s \in {{}} |-> 0] = [s \in Small(0) |-> SumStep([t \in {{}} |-> 0], s, F)]
    BY <2>1 DEF SumStep
  <2>3. QED
    BY <2>2
<1>3. ASSUME NEW n \in Nat, n \in G PROVE n + 1 \in G
  <2>1. PICK f : f = [s \in Small(n) |-> SumStep(f, s, F)]
    BY <1>3
  <2> DEFINE g == [s \in Small(n + 1) |-> SumStep(f, s, F)]
  <2>2. ASSUME NEW s \in Small(n + 1), s # {}
        PROVE  s \ {Some(s)} \in Small(n)
    <3>1. Some(s) \in s
      BY <2>2, SomeIn
    <3>2. Cardinality(s \ {Some(s)}) = Cardinality(s) - 1
      BY <1>1, <3>1, FS_RemoveElement
    <3>3. QED
      BY <1>1, <3>2
  <2>3. ASSUME NEW s \in Small(n) PROVE s \in Small(n + 1) /\ f[s] = g[s]
    BY <1>1, <2>1
  <2>4. ASSUME NEW s \in Small(n + 1) PROVE SumStep(f, s, F) = SumStep(g, s, F)
    <3> HIDE DEF g, Small
    <3>1. QED
    BY <2>2, <2>3 DEF SumStep
  <2>5. g = [s \in Small(n + 1) |-> SumStep(g, s, F)]
    BY <2>4
  <2> HIDE DEF g, Small
  <2>6. QED
    BY <2>5
<1>4. Cardinality(S) \in G
  <2> HIDE DEF G
  <2> QED
    BY <1>1, <1>2, <1>3, NumberInduction
<1>5. \A T \in SUBSET S : Cardinality(T) <= Cardinality(S)
  BY FS_Subset
<1>6. Small(Cardinality(S)) = SUBSET S
  BY <1>5
<1>7. QED
  BY <1>4, <1>6 DEF Sums

\* The partial sums of a larger set are those of a smaller one.
LEMMA SumsUnique ==
  ASSUME NEW S, IsFiniteSet(S), NEW T \in SUBSET S, NEW F, NEW f, NEW g, Sums(f, S, F), Sums(g, T, F)
  PROVE  f[T] = g[T]
<1> DEFINE G == {n \in Nat : \A U \in SUBSET T : Cardinality(U) = n => f[U] = g[U]}
<1>1. \A U \in SUBSET T : IsFiniteSet(U) /\ Cardinality(U) \in Nat /\ U \in SUBSET S
  BY FS_Subset, FS_CardinalityType
<1>2. ASSUME NEW U \in SUBSET T
      PROVE  f[U] = SumStep(f, U, F) /\ g[U] = SumStep(g, U, F)
  BY <1>1 DEF Sums
<1>3. 0 \in G
  <2>1. ASSUME NEW U \in SUBSET T, Cardinality(U) = 0 PROVE f[U] = g[U]
    BY <1>1, <1>2, <2>1, FS_EmptySet DEF SumStep
  <2> QED
    BY <2>1
<1>4. ASSUME NEW n \in Nat, n \in G PROVE n + 1 \in G
  <2>1. ASSUME NEW U \in SUBSET T, Cardinality(U) = n + 1 PROVE f[U] = g[U]
    <3>1. U # {}
      BY <2>1, FS_EmptySet
    <3>2. Some(U) \in U
      BY <3>1, SomeIn
    <3>3. Cardinality(U \ {Some(U)}) = Cardinality(U) - 1
      BY <1>1, <3>2, FS_RemoveElement
    <3>4. Cardinality(U \ {Some(U)}) = n /\ U \ {Some(U)} \in SUBSET T
      BY <2>1, <3>3
    <3>5. f[U \ {Some(U)}] = g[U \ {Some(U)}]
      BY <1>4, <3>4
    <3>6. QED
      BY <1>2, <3>1, <3>5 DEF SumStep
  <2>2. QED
    BY <2>1
<1>5. Cardinality(T) \in G
  <2> HIDE DEF G
  <2>1. Cardinality(T) \in Nat
    BY <1>1
  <2> QED
    BY <1>3, <1>4, <2>1, NumberInduction
<1>6. QED
  BY <1>5

\* The sum takes one element first; the next lemmas show that it may be any.
LEMMA SumChosen ==
  ASSUME NEW S, IsFiniteSet(S), NEW F
  PROVE  SumOf(S, F) = IF S = {} THEN 0 ELSE F[Some(S)] + SumOf(S \ {Some(S)}, F)
<1> DEFINE f == CHOOSE f : Sums(f, S, F)
           T == S \ {Some(S)}
           g == CHOOSE g : Sums(g, T, F)
<1>1. Sums(f, S, F) /\ SumOf(S, F) = f[S]
  BY SumsExist, SumDef
<1>2. IsFiniteSet(T) /\ T \in SUBSET S
  BY FS_Subset
<1>3. Sums(g, T, F) /\ SumOf(T, F) = g[T]
  <2> HIDE DEF T
  <2> QED
    BY <1>2, SumsExist, SumDef
<1> HIDE DEF f, g, T
<1>4. f[T] = g[T]
  BY <1>1, <1>2, <1>3, SumsUnique
<1>5. f[S] = SumStep(f, S, F)
  BY <1>1 DEF Sums
<1>6. QED
  BY <1>1, <1>3, <1>4, <1>5 DEF SumStep, T

LEMMA SumEmpty == ASSUME NEW F PROVE SumOf({}, F) = 0
BY FS_EmptySet, SumChosen

\* A sum of integers is one.
LEMMA SumInt ==
  ASSUME NEW S, IsFiniteSet(S), NEW F, \A x \in S : F[x] \in Int
  PROVE  SumOf(S, F) \in Int
<1> DEFINE G == {n \in Nat : \A T \in SUBSET S : Cardinality(T) = n => SumOf(T, F) \in Int}
<1>1. \A T \in SUBSET S : IsFiniteSet(T) /\ Cardinality(T) \in Nat
  BY FS_Subset, FS_CardinalityType
<1>2. 0 \in G
  <2>1. ASSUME NEW T \in SUBSET S, Cardinality(T) = 0 PROVE SumOf(T, F) \in Int
    <3>1. T = {}
      BY <1>1, <2>1, FS_EmptySet
    <3> QED
      BY <3>1, SumEmpty
  <2> QED
    BY <2>1
<1>3. ASSUME NEW n \in Nat, n \in G PROVE n + 1 \in G
  <2>1. ASSUME NEW T \in SUBSET S, Cardinality(T) = n + 1 PROVE SumOf(T, F) \in Int
    <3> DEFINE c == Some(T)
    <3>1. T # {}
      BY <2>1, FS_EmptySet
    <3>2. c \in T /\ F[c] \in Int
      BY <3>1, SomeIn
    <3>3. SumOf(T, F) = F[c] + SumOf(T \ {c}, F)
      BY <1>1, <3>1, SumChosen
    <3> HIDE DEF c
    <3>4. Cardinality(T \ {c}) = Cardinality(T) - 1
      BY <1>1, <3>2, FS_RemoveElement
    <3>5. Cardinality(T \ {c}) = n /\ T \ {c} \in SUBSET S
      BY <2>1, <3>4
    <3> QED
      BY <1>3, <3>2, <3>3, <3>5
  <2> QED
    BY <2>1
<1>4. Cardinality(S) \in Nat /\ Cardinality(S) \in G
  <2> HIDE DEF G
  <2> QED
    BY <1>1, <1>2, <1>3, NumberInduction
<1> QED
  BY <1>4

\* Any element of a sum can be taken out of it.
LEMMA SumRemove ==
  ASSUME NEW S, IsFiniteSet(S), NEW F, \A x \in S : F[x] \in Int
  PROVE  /\ SumOf(S, F) \in Int
         /\ \A x \in S : SumOf(S, F) = F[x] + SumOf(S \ {x}, F)
<1> DEFINE Right(T) == /\ SumOf(T, F) \in Int
                       /\ \A x \in T : SumOf(T, F) = F[x] + SumOf(T \ {x}, F)
           G == {n \in Nat : \A T \in SUBSET S : Cardinality(T) = n => Right(T)}
<1>1. \A T \in SUBSET S : IsFiniteSet(T) /\ Cardinality(T) \in Nat
  BY FS_Subset, FS_CardinalityType
<1>2. 0 \in G
  <2>1. ASSUME NEW T \in SUBSET S, Cardinality(T) = 0 PROVE Right(T)
    <3>1. T = {}
      BY <1>1, <2>1, FS_EmptySet
    <3> QED
      BY <3>1, SumEmpty
  <2> QED
    BY <2>1
<1>3. ASSUME NEW n \in Nat, n \in G PROVE n + 1 \in G
  <2>1. ASSUME NEW T \in SUBSET S, Cardinality(T) = n + 1 PROVE Right(T)
    <3> DEFINE c == Some(T)
    <3>1. ASSUME NEW x \in T
          PROVE  T \ {x} \in SUBSET S /\ Cardinality(T \ {x}) = n /\ SumOf(T \ {x}, F) \in Int
      <4>1. Cardinality(T \ {x}) = Cardinality(T) - 1
        BY <1>1, FS_RemoveElement
      <4>2. Cardinality(T \ {x}) = n /\ T \ {x} \in SUBSET S
        BY <2>1, <4>1
      <4> QED
        BY <1>3, <4>2
    <3>2. T # {}
      BY <2>1, FS_EmptySet
    <3>3. c \in T /\ F[c] \in Int
      BY <3>2, SomeIn
    <3>4. SumOf(T, F) = F[c] + SumOf(T \ {c}, F)
      BY <1>1, <3>2, SumChosen
    <3> HIDE DEF c
    <3>5. SumOf(T, F) \in Int
      BY <1>1, SumInt
    <3>6. ASSUME NEW x \in T, x # c
          PROVE  SumOf(T, F) = F[x] + SumOf(T \ {x}, F)
      <4>1. Right(T \ {c}) /\ Right(T \ {x})
        BY <1>3, <3>1, <3>3
      <4>2. (T \ {c}) \ {x} = (T \ {x}) \ {c} /\ x \in T \ {c} /\ c \in T \ {x}
        BY <3>3, <3>6
      <4>3. SumOf(T \ {c}, F) = F[x] + SumOf((T \ {c}) \ {x}, F)
        BY <4>1, <4>2
      <4>4. SumOf(T \ {x}, F) = F[c] + SumOf((T \ {c}) \ {x}, F)
        BY <4>1, <4>2
      <4>5. F[x] \in Int /\ F[c] \in Int /\ SumOf((T \ {c}) \ {x}, F) \in Int
        BY <1>1, <3>3, SumInt
      <4> QED
        BY <3>4, <4>3, <4>4, <4>5
    <3>7. QED
      BY <3>4, <3>5, <3>6
  <2> QED
    BY <2>1
<1>4. Cardinality(S) \in Nat /\ Cardinality(S) \in G
  <2> HIDE DEF G
  <2> QED
    BY <1>1, <1>2, <1>3, NumberInduction
<1>5. QED
  BY <1>4

\* An element more.
LEMMA SumAdd ==
  ASSUME NEW T, IsFiniteSet(T), NEW x, x \notin T, NEW F, \A y \in T \cup {x} : F[y] \in Int
  PROVE  SumOf(T \cup {x}, F) = F[x] + SumOf(T, F) /\ SumOf(T, F) \in Int
<1>1. IsFiniteSet(T \cup {x}) /\ (T \cup {x}) \ {x} = T
  BY FS_AddElement
<1>2. SumOf(T, F) \in Int
  BY SumInt
<1>3. SumOf(T \cup {x}, F) = F[x] + SumOf((T \cup {x}) \ {x}, F)
  BY <1>1, SumRemove
<1> QED
  BY <1>1, <1>2, <1>3

\* Sums of two sets without common elements.
LEMMA SumUnion ==
  ASSUME NEW S, NEW T, IsFiniteSet(S), IsFiniteSet(T), S \cap T = {}, NEW F, \A x \in S \cup T : F[x] \in Int
  PROVE  SumOf(S \cup T, F) = SumOf(S, F) + SumOf(T, F)
<1> DEFINE G == {U \in SUBSET T : SumOf(S \cup U, F) = SumOf(S, F) + SumOf(U, F)}
<1>1. SumOf(S, F) \in Int /\ \A U \in SUBSET T : SumOf(U, F) \in Int /\ IsFiniteSet(U) /\ IsFiniteSet(S \cup U)
  BY SumInt, FS_Subset, FS_Union
<1>2. {} \in G
  BY <1>1, SumEmpty
<1>3. ASSUME NEW U \in SUBSET T, U \in G, NEW x \in T \ U
      PROVE  U \cup {x} \in G
  <2>1. SumOf(U \cup {x}, F) = F[x] + SumOf(U, F)
    BY <1>1, SumAdd
  <2>2. S \cup (U \cup {x}) = (S \cup U) \cup {x} /\ x \notin S \cup U /\ \A y \in (S \cup U) \cup {x} : F[y] \in Int
    OBVIOUS
  <2>3. SumOf(S \cup (U \cup {x}), F) = F[x] + SumOf(S \cup U, F)
    BY <1>1, <2>2, SumAdd
  <2>4. F[x] \in Int /\ SumOf(U, F) \in Int
    BY <1>1
  <2> QED
    BY <1>1, <1>3, <2>1, <2>3, <2>4
<1>4. T \in G
  <2> HIDE DEF G
  <2> QED
    BY <1>2, <1>3, SetInduction
<1> QED
  BY <1>4

\* The same numbers under other names.
Renames(h, S, F, I, E) ==
  /\ \A x, y \in S : h[x] = h[y] => x = y
  /\ \A x \in S : F[x] \in Int /\ h[x] \in I /\ E[h[x]] = F[x]
  /\ \A y \in I : \E x \in S : y = h[x]

\* A sum under other names for its elements.
LEMMA SumRenamed ==
  ASSUME NEW S, IsFiniteSet(S), NEW h, NEW F, NEW I, NEW E, Renames(h, S, F, I, E)
  PROVE  IsFiniteSet(I) /\ Cardinality(I) = Cardinality(S) /\ SumOf(I, E) = SumOf(S, F)
<1> DEFINE Image(U) == {h[x] : x \in U}
           G == {U \in SUBSET S : /\ IsFiniteSet(Image(U)) /\ Cardinality(Image(U)) = Cardinality(U)
                                  /\ SumOf(Image(U), E) = SumOf(U, F)}
<1>1. {} \in G
  <2>1. Image({}) = {}
    OBVIOUS
  <2> QED
    BY <2>1, SumEmpty, FS_EmptySet
<1>2. ASSUME NEW U \in SUBSET S, U \in G, NEW x \in S \ U
      PROVE  U \cup {x} \in G
  <2>1. Image(U \cup {x}) = Image(U) \cup {h[x]} /\ h[x] \notin Image(U)
    BY DEF Renames
  <2>2. \A y \in Image(U) \cup {h[x]} : E[y] \in Int
    BY DEF Renames
  <2>3. IsFiniteSet(U)
    BY FS_Subset
  <2>4. SumOf(U \cup {x}, F) = F[x] + SumOf(U, F)
    <3>1. \A y \in U \cup {x} : F[y] \in Int
      BY DEF Renames
    <3> QED
      BY <2>3, <3>1, SumAdd
  <2>5. IsFiniteSet(Image(U)) /\ SumOf(Image(U), E) = SumOf(U, F) /\ Cardinality(Image(U)) = Cardinality(U)
    BY <1>2
  <2>6. E[h[x]] = F[x]
    BY DEF Renames
  <2> HIDE DEF Image
  <2>7. SumOf(Image(U) \cup {h[x]}, E) = E[h[x]] + SumOf(Image(U), E)
    BY <2>1, <2>2, <2>5, SumAdd
  <2>8. /\ IsFiniteSet(Image(U) \cup {h[x]})
        /\ Cardinality(Image(U) \cup {h[x]}) = Cardinality(Image(U)) + 1
    BY <2>1, <2>5, FS_AddElement
  <2>9. Cardinality(U \cup {x}) = Cardinality(U) + 1
    BY <2>3, FS_AddElement
  <2> QED
    BY <2>1, <2>4, <2>5, <2>6, <2>7, <2>8, <2>9
<1>3. S \in G
  <2> HIDE DEF G
  <2> QED
    BY <1>1, <1>2, SetInduction
<1>4. I = Image(S)
  BY DEF Renames
<1> QED
  BY <1>3, <1>4

\* A sum depends on the values at its elements only.
LEMMA SumAgrees ==
  ASSUME NEW S, IsFiniteSet(S), NEW F, NEW E, \A x \in S : F[x] \in Int /\ E[x] = F[x]
  PROVE  SumOf(S, E) = SumOf(S, F)
<1> DEFINE h == [x \in S |-> x]
<1>1. Renames(h, S, F, S, E)
  BY DEF Renames
<1> HIDE DEF h
<1> QED
  BY <1>1, SumRenamed

LEMMA Distributes == ASSUME NEW k \in Int, NEW a \in Int, NEW b \in Int PROVE k * (a + b) = k * a + k * b
OBVIOUS

\* A sum is at most k times another when each of its numbers is.
LEMMA SumAtMost ==
  ASSUME NEW S, IsFiniteSet(S), NEW F, NEW E, NEW k \in Int,
         \A x \in S : F[x] \in Int /\ E[x] \in Int /\ F[x] <= k * E[x]
  PROVE  SumOf(S, F) <= k * SumOf(S, E)
<1> DEFINE G == {U \in SUBSET S : SumOf(U, F) <= k * SumOf(U, E)}
<1>1. {} \in G
  BY SumEmpty
<1>2. ASSUME NEW U \in SUBSET S, U \in G, NEW x \in S \ U
      PROVE  U \cup {x} \in G
  <2>1. IsFiniteSet(U)
    BY FS_Subset
  <2>2. SumOf(U \cup {x}, F) = F[x] + SumOf(U, F) /\ SumOf(U, F) \in Int
    BY <2>1, SumAdd
  <2>3. SumOf(U \cup {x}, E) = E[x] + SumOf(U, E) /\ SumOf(U, E) \in Int
    BY <2>1, SumAdd
  <2>4. k * (E[x] + SumOf(U, E)) = k * E[x] + k * SumOf(U, E)
    BY <2>3, Distributes
  <2>5. k * E[x] \in Int /\ k * SumOf(U, E) \in Int
    BY <2>3
  <2>6. SumOf(U, F) <= k * SumOf(U, E) /\ F[x] <= k * E[x] /\ F[x] \in Int
    BY <1>2
  <2>7. F[x] + SumOf(U, F) <= k * E[x] + k * SumOf(U, E)
    BY <2>2, <2>5, <2>6
  <2> QED
    BY <2>2, <2>3, <2>4, <2>7
<1>3. S \in G
  <2> HIDE DEF G
  <2> QED
    BY <1>1, <1>2, SetInduction
<1> QED
  BY <1>3

\* Without negative numbers part of a sum is no more than all of it.
LEMMA SumOfPart ==
  ASSUME NEW S, IsFiniteSet(S), NEW U \in SUBSET S, NEW F, \A x \in S : F[x] \in Nat
  PROVE  SumOf(U, F) <= SumOf(S, F) /\ SumOf(U, F) >= 0
<1> DEFINE G == {V \in SUBSET S : SumOf(V, F) >= 0}
<1>1. {} \in G
  BY SumEmpty
<1>2. ASSUME NEW V \in SUBSET S, V \in G, NEW x \in S \ V
      PROVE  V \cup {x} \in G
  <2>1. IsFiniteSet(V)
    BY FS_Subset
  <2>2. SumOf(V \cup {x}, F) = F[x] + SumOf(V, F) /\ SumOf(V, F) \in Int
    BY <2>1, SumAdd
  <2> QED
    BY <1>2, <2>2
<1>3. \A V \in SUBSET S : V \in G
  <2> HIDE DEF G
  <2> QED
    BY <1>1, <1>2, SetInduction
<1>4. /\ IsFiniteSet(U) /\ IsFiniteSet(S \ U) /\ U \cup (S \ U) = S /\ U \cap (S \ U) = {}
      /\ \A x \in U \cup (S \ U) : F[x] \in Int
  BY FS_Subset
<1>5. SumOf(U \cup (S \ U), F) = SumOf(U, F) + SumOf(S \ U, F)
  BY <1>4, SumUnion
<1>6. SumOf(U, F) \in Int /\ SumOf(S \ U, F) \in Int
  BY <1>4, SumInt
<1>7. SumOf(U, F) >= 0 /\ SumOf(S \ U, F) >= 0
  BY <1>3
<1>8. SumOf(S, F) = SumOf(U, F) + SumOf(S \ U, F)
  BY <1>4, <1>5, Zenon
<1> QED
  BY <1>6, <1>7, <1>8

-----------------------------------------------------------------------------
(* The invariant of the manager: what it has of the system, and what       *)
(* stands on its lists.                                                    *)

\* The lists of a memory, by what they hold and their pool, and the header of their chunks.
Lists == {"small", "large"} \X Pools
Header(q) == IF q[1] = "small" THEN SmallHdr ELSE LargeHdr
ListsOf(m) == [q \in Lists |-> IF q[1] = "small" THEN m.small_list[q[2]] ELSE m.large_list[q[2]]]

Entry == [id : Nat, used : Nat, left : Nat]
Chunk == [id : Nat, size : Int]
ObjectRecord == [pool : Pools, chunk : Nat, from : Nat, size : Nat]
Errors == {"", "out of memory", "width overflow", "no backing store", "tfile create", "bad access", "virtual array bug"}
\* The words themselves are kept out of the other proofs: the SMT solver is not given strings with blanks.
Fine(m) == m.error = ""
NoBug(m) == m.error # "virtual array bug"
Reported(error) == error \in Errors /\ error # "" /\ error # "virtual array bug"
MemoryRecord ==
  [small_list : [Pools -> Seq(Entry)], large_list : [Pools -> Seq(Entry)], total : Int, chunks : SUBSET Chunk,
   files : Int, error : Errors, last : Nat \cup ObjectRecord]

\* The total is what the system gave.
Numbered(chunks) == \A c, d \in chunks : c.id = d.id => c = d
ChunksRight(m) == IsFiniteSet(m.chunks) /\ Numbered(m.chunks) /\ m.total = SizeOfChunks(m.chunks)

\* Every other chunk stands in one place of one list, with its size.
ListsMatch(L, chunks) ==
  /\ \A q \in Lists : \A i \in DOMAIN L[q] :
       L[q][i].id # 1 /\ \E c \in chunks : c.id = L[q][i].id /\ c.size = L[q][i].used + L[q][i].left + Header(q)
  /\ \A c \in chunks : c.id # 1 => \E q \in Lists : \E i \in DOMAIN L[q] : L[q][i].id = c.id
  /\ \A q, r \in Lists : \A i \in DOMAIN L[q], j \in DOMAIN L[r] : L[q][i].id = L[r][j].id => q = r /\ i = j

Multiple(n) == \E k \in Int : n = k * ALIGN
SmallAligned(L) == \A pool \in Pools : \A i \in DOMAIN L[<<"small", pool>>] : Multiple(L[<<"small", pool>>][i].used)

\* Objects lie in the used part of a chunk of their pool.
Lies(o, L) ==
  \E q \in Lists : \E i \in DOMAIN L[q] :
    q[2] = o.pool /\ L[q][i].id = o.chunk /\ o.from + o.size <= Header(q) + L[q][i].used
Apart(o, n) == o.chunk = n.chunk => o.from + o.size <= n.from \/ n.from + n.size <= o.from
ObjectsRight(L, objs) ==
  /\ objs \subseteq ObjectRecord
  /\ \A o \in objs : Lies(o, L) /\ Multiple(o.from - SmallHdr)
  /\ \A o, n \in objs : o # n => Apart(o, n)

\* No list loses an entry, none takes back what it gave.
Grown(L, M) ==
  \A q \in Lists : \A i \in DOMAIN L[q] : \E j \in DOMAIN M[q] : M[q][j].id = L[q][i].id /\ M[q][j].used >= L[q][i].used
PoolsRight(m) ==
  /\ m \in MemoryRecord /\ ChunksRight(m) /\ (\E c \in m.chunks : c.id = 1)
  /\ ListsMatch(ListsOf(m), m.chunks) /\ SmallAligned(ListsOf(m))

\* The sums a realization is about.
Least(a) == a.maxaccess * RowSize(a)
Most(a) == a.rows_in_array * RowSize(a)
ToRealize == DOMAIN virt \ limits.earlier
LimitsRight ==
  /\ limits.earlier \subseteq {i \in DOMAIN virt : virt[i].realized}
  /\ limits.avail \in Int /\ limits.max_minheights \in Nat \ {0}
  /\ limits.least = SumOf(ToRealize, [i \in DOMAIN virt |-> Least(virt[i])])
  /\ \/ SumOf(ToRealize, [i \in DOMAIN virt |-> Most(virt[i])]) <= limits.avail
     \/ limits.max_minheights = 1
     \/ limits.max_minheights * limits.least <= limits.avail
  /\ \A i \in InMemory : virt[i].rows_in_mem <= virt[i].rows_in_array
                         /\ virt[i].rows_in_mem <= limits.max_minheights * virt[i].maxaccess

Stores == {i \in DOMAIN virt : virt[i].b_s_open}
ArraysSized == \A i \in DOMAIN virt : virt[i].width > 0 /\ virt[i].rows_in_array > 0 /\ virt[i].maxaccess > 0
MemoryInv ==
  /\ memJob \in MemoryJobs /\ ArraysRight /\ ArraysSized
  /\ memPhase \in {"closed", "open", "realizing", "failed", "done"}
  /\ memPhase = "closed" => mem = NoMemory /\ objects = {} /\ virt = << >>
  /\ memPhase = "done" => mem.chunks = {} /\ mem.files = 0 /\ objects = {}
  /\ InUse => PoolsRight(mem) /\ ObjectsRight(ListsOf(mem), objects) /\ mem.files = Cardinality(Stores)
  /\ memPhase \in {"open", "realizing"} => \A i \in Unrealized : ~virt[i].b_s_open
  /\ memPhase = "realizing" => LimitsRight
  /\ NoBug(mem)

-----------------------------------------------------------------------------
\* A chunk that a list gains, at its end (d = 0) or its beginning (d = 1).
LEMMA EntryAdded ==
  ASSUME NEW L \in [Lists -> Seq(Entry)], NEW chunks \in SUBSET Chunk, ListsMatch(L, chunks),
         \E m \in chunks : m.id = 1,
         NEW q \in Lists, NEW e \in Entry, NEW d \in {0, 1}, NEW s \in Seq(Entry), Len(s) = Len(L[q]) + 1,
         s[IF d = 0 THEN Len(s) ELSE 1] = e, \A i \in DOMAIN L[q] : s[i + d] = L[q][i],
         NEW n \in Chunk, n.id = e.id, n.size = e.used + e.left + Header(q), \A c \in chunks : c.id # e.id
  PROVE  ListsMatch([L EXCEPT ![q] = s], chunks \cup {n})
<1> DEFINE M == [L EXCEPT ![q] = s]
           at == IF d = 0 THEN Len(s) ELSE 1
<1>1. /\ DOMAIN M = Lists /\ M[q] = s /\ \A r \in Lists \ {q} : M[r] = L[r]
      /\ DOMAIN L[q] = 1 .. Len(L[q]) /\ DOMAIN s = 1 .. Len(L[q]) + 1 /\ Len(L[q]) \in Nat
  OBVIOUS
<1> HIDE DEF M
<1>2. at \in DOMAIN s /\ s[at] = e
  BY <1>1
<1>3. \A i \in DOMAIN s : i # at => i - d \in DOMAIN L[q] /\ s[i] = L[q][i - d]
  BY <1>1
<1>4. \A i \in DOMAIN L[q] : i + d \in DOMAIN s /\ s[i + d] = L[q][i]
  BY <1>1
<1>5. e.id # 1
  OBVIOUS
<1>6. \A r \in Lists : \A i \in DOMAIN L[r] : L[r][i].id # e.id
  BY DEF ListsMatch
<1> HIDE DEF at
\* A place of the longer lists is the new one or an old one.
<1>7. ASSUME NEW r \in Lists, NEW i \in DOMAIN M[r]
      PROVE  \/ r = q /\ i = at
             \/ \E j \in DOMAIN L[r] : M[r][i] = L[r][j] /\ i = (IF r = q THEN j + d ELSE j)
  <2>1. CASE r = q
    <3>1. CASE i # at
      BY <1>1, <1>3, <2>1, <3>1
    <3> QED
      BY <2>1, <3>1
  <2>2. CASE r # q
    BY <1>1, <2>2
  <2> QED
    BY <2>1, <2>2
<1>8. ASSUME NEW r \in Lists, NEW i \in DOMAIN M[r]
      PROVE  /\ M[r][i].id # 1
             /\ \E c \in chunks \cup {n} : c.id = M[r][i].id /\ c.size = M[r][i].used + M[r][i].left + Header(r)
  <2>1. CASE r = q /\ i = at
    BY <1>1, <1>2, <1>5, <2>1
  <2>2. CASE \E j \in DOMAIN L[r] : M[r][i] = L[r][j]
    <3>1. PICK j \in DOMAIN L[r] : M[r][i] = L[r][j]
      BY <2>2
    <3>2. L[r][j].id # 1 /\ \E c \in chunks : c.id = L[r][j].id /\ c.size = L[r][j].used + L[r][j].left + Header(r)
      BY DEF ListsMatch
    <3> QED
      BY <3>1, <3>2
  <2> QED
    BY <1>7, <2>1, <2>2
<1>9. ASSUME NEW c \in chunks \cup {n}, c.id # 1
      PROVE  \E r \in Lists : \E i \in DOMAIN M[r] : M[r][i].id = c.id
  <2>1. CASE c = n
    BY <1>1, <1>2, <2>1
  <2>2. CASE c \in chunks
    <3>1. PICK r \in Lists : \E i \in DOMAIN L[r] : L[r][i].id = c.id
      BY <1>9, <2>2 DEF ListsMatch
    <3>2. PICK i \in DOMAIN L[r] : L[r][i].id = c.id
      BY <3>1
    <3>3. CASE r = q
      <4>1. i + d \in DOMAIN M[r] /\ M[r][i + d] = L[r][i]
        BY <1>1, <1>4, <3>2, <3>3
      <4> QED
        BY <3>2, <4>1
    <3>4. CASE r # q
      BY <1>1, <3>2, <3>4
    <3> QED
      BY <3>3, <3>4
  <2> QED
    BY <2>1, <2>2
<1>10. ASSUME NEW r \in Lists, NEW t \in Lists, NEW i \in DOMAIN M[r], NEW j \in DOMAIN M[t], M[r][i].id = M[t][j].id
       PROVE  r = t /\ i = j
  <2>1. CASE r = q /\ i = at
    <3>1. M[t][j].id = e.id
      BY <1>1, <1>2, <1>10, <2>1
    <3>2. ~ \E k \in DOMAIN L[t] : M[t][j] = L[t][k]
      BY <1>6, <3>1
    <3> QED
      BY <1>7, <2>1, <3>2
  <2>2. CASE t = q /\ j = at
    <3>1. M[r][i].id = e.id
      BY <1>1, <1>2, <1>10, <2>2
    <3>2. ~ \E k \in DOMAIN L[r] : M[r][i] = L[r][k]
      BY <1>6, <3>1
    <3> QED
      BY <1>7, <2>2, <3>2
  <2>3. CASE ~(r = q /\ i = at) /\ ~(t = q /\ j = at)
    <3>1. PICK k \in DOMAIN L[r] : M[r][i] = L[r][k] /\ i = (IF r = q THEN k + d ELSE k)
      BY <1>7, <2>3
    <3>2. PICK l \in DOMAIN L[t] : M[t][j] = L[t][l] /\ j = (IF t = q THEN l + d ELSE l)
      BY <1>7, <2>3
    <3>3. r = t /\ k = l
      BY <1>10, <3>1, <3>2 DEF ListsMatch
    <3> QED
      BY <3>1, <3>2, <3>3
  <2> QED
    BY <2>1, <2>2, <2>3
<1> QED
  BY <1>8, <1>9, <1>10 DEF ListsMatch, M

\* An entry that gives part of what is left.
LEMMA EntryChanged ==
  ASSUME NEW L \in [Lists -> Seq(Entry)], NEW chunks \in SUBSET Chunk, ListsMatch(L, chunks),
         NEW q \in Lists, NEW k \in DOMAIN L[q], NEW e \in Entry, e.id = L[q][k].id, e.used + e.left = L[q][k].used + L[q][k].left
  PROVE  ListsMatch([L EXCEPT ![q] = [@ EXCEPT ![k] = e]], chunks)
<1> DEFINE M == [L EXCEPT ![q] = [@ EXCEPT ![k] = e]]
<1>1. /\ \A r \in Lists : DOMAIN M[r] = DOMAIN L[r]
      /\ \A r \in Lists : \A i \in DOMAIN L[r] : M[r][i] = IF r = q /\ i = k THEN e ELSE L[r][i]
  OBVIOUS
<1> HIDE DEF M
<1>2. \A r \in Lists : \A i \in DOMAIN L[r] : M[r][i].id = L[r][i].id /\ M[r][i].used + M[r][i].left = L[r][i].used + L[r][i].left
  BY <1>1
<1>3. ListsMatch(M, chunks)
  <2>1. ASSUME NEW r \in Lists, NEW i \in DOMAIN M[r]
        PROVE  /\ M[r][i].id # 1
               /\ \E c \in chunks : c.id = M[r][i].id /\ c.size = M[r][i].used + M[r][i].left + Header(r)
    <3>1. i \in DOMAIN L[r] /\ M[r][i].id = L[r][i].id /\ M[r][i].used + M[r][i].left = L[r][i].used + L[r][i].left
      BY <1>1, <1>2
    <3>2. L[r][i].id # 1 /\ \E c \in chunks : c.id = L[r][i].id /\ c.size = L[r][i].used + L[r][i].left + Header(r)
      BY <3>1 DEF ListsMatch
    <3> QED
      BY <3>1, <3>2, Zenon
  <2>2. ASSUME NEW c \in chunks, c.id # 1
        PROVE  \E r \in Lists : \E i \in DOMAIN M[r] : M[r][i].id = c.id
    BY <1>1, <1>2, <2>2 DEF ListsMatch
  <2>3. ASSUME NEW r \in Lists, NEW t \in Lists, NEW i \in DOMAIN M[r], NEW j \in DOMAIN M[t], M[r][i].id = M[t][j].id
        PROVE  r = t /\ i = j
    BY <1>1, <1>2, <2>3 DEF ListsMatch
  <2> QED
    BY <2>1, <2>2, <2>3 DEF ListsMatch
<1> QED
  BY <1>3 DEF M

\* The chunks of a list, and what they take together.
InList(L, q, chunks) == {c \in chunks : \E i \in DOMAIN L[q] : L[q][i].id = c.id}
Sizes(chunks) == [c \in chunks |-> c.size]
Space(s, header) == [e \in ToSet(s) |-> e.used + e.left + header]

LEMMA HeaderType == \A q \in Lists : Header(q) \in Nat
BY MemoryAssumption DEF Header

\* What stands on a list takes the space that is worked out from its headers.
LEMMA ListSum ==
  ASSUME NEW L \in [Lists -> Seq(Entry)], NEW chunks \in SUBSET Chunk, IsFiniteSet(chunks), Numbered(chunks),
         ListsMatch(L, chunks), NEW q \in Lists
  PROVE  /\ SumOf(InList(L, q, chunks), Sizes(chunks)) = SumOf(ToSet(L[q]), Space(L[q], Header(q)))
         /\ Cardinality(InList(L, q, chunks)) = Len(L[q])
<1> DEFINE n == Len(L[q])
           F == [i \in 1 .. n |-> L[q][i].used + L[q][i].left + Header(q)]
           h == [i \in 1 .. n |-> CHOOSE c \in chunks : c.id = L[q][i].id]
<1>1. DOMAIN L[q] = 1 .. n /\ n \in Nat /\ IsFiniteSet(1 .. n) /\ Cardinality(1 .. n) = n
  <2>1. DOMAIN L[q] = 1 .. n /\ n \in Nat
    OBVIOUS
  <2> HIDE DEF n
  <2>2. IsFiniteSet(1 .. n) /\ Cardinality(1 .. n) = n
    BY <2>1, FS_Interval
  <2> QED
    BY <2>1, <2>2
<1>2. \A i \in 1 .. n : L[q][i] \in Entry /\ F[i] \in Int
  <2>1. ASSUME NEW i \in 1 .. n PROVE L[q][i] \in Entry
    OBVIOUS
  <2> QED
    BY <2>1, HeaderType DEF Entry
<1>3. \A i, j \in 1 .. n : L[q][i].id = L[q][j].id => i = j
  BY <1>1 DEF ListsMatch
<1>4. ASSUME NEW i \in 1 .. n
      PROVE  h[i] \in chunks /\ h[i].id = L[q][i].id /\ Sizes(chunks)[h[i]] = F[i]
  <2>1. PICK c \in chunks : c.id = L[q][i].id /\ c.size = L[q][i].used + L[q][i].left + Header(q)
    BY <1>1 DEF ListsMatch
  <2>2. h[i] = c
    BY <2>1 DEF Numbered
  <2> QED
    BY <2>1, <2>2 DEF Sizes
<1>5. {h[i] : i \in 1 .. n} = InList(L, q, chunks)
  <2>1. ASSUME NEW c \in InList(L, q, chunks) PROVE c \in {h[i] : i \in 1 .. n}
    <3>1. PICK i \in 1 .. n : L[q][i].id = c.id /\ c \in chunks
      BY <1>1 DEF InList
    <3>2. h[i] = c
      BY <1>4, <3>1 DEF Numbered
    <3> QED
      BY <3>2
  <2>2. ASSUME NEW i \in 1 .. n PROVE h[i] \in InList(L, q, chunks)
    BY <1>1, <1>4 DEF InList
  <2> QED
    BY <2>1, <2>2
<1>6. \A i, j \in 1 .. n : h[i] = h[j] => i = j
  BY <1>3, <1>4
<1>7. \A i, j \in 1 .. n : L[q][i] = L[q][j] => i = j
  BY <1>3
<1>8. {L[q][i] : i \in 1 .. n} = ToSet(L[q])
  BY <1>1 DEF ToSet
<1>9. \A i \in 1 .. n : Space(L[q], Header(q))[L[q][i]] = F[i]
  BY <1>8 DEF Space
<1>10. \A i \in 1 .. n : F[i] \in Int /\ Sizes(chunks)[h[i]] = F[i]
  BY <1>2, <1>4
<1> HIDE DEF h, F
<1>11. /\ SumOf(InList(L, q, chunks), Sizes(chunks)) = SumOf(1 .. n, F)
       /\ Cardinality(InList(L, q, chunks)) = Cardinality(1 .. n)
  <2>1. Renames(h, 1 .. n, F, InList(L, q, chunks), Sizes(chunks))
    BY <1>5, <1>6, <1>10 DEF Renames
  <2> QED
    BY <1>1, <1>5, <2>1, SumRenamed
<1>12. SumOf(ToSet(L[q]), Space(L[q], Header(q))) = SumOf(1 .. n, F)
  <2>1. Renames(L[q], 1 .. n, F, ToSet(L[q]), Space(L[q], Header(q)))
    BY <1>2, <1>7, <1>8, <1>9 DEF Renames
  <2> QED
    BY <1>1, <2>1, SumRenamed
<1> QED
  BY <1>1, <1>11, <1>12

\* Lists have no chunk in common.
LEMMA ListsDisjoint ==
  ASSUME NEW L \in [Lists -> Seq(Entry)], NEW chunks \in SUBSET Chunk, ListsMatch(L, chunks),
         NEW q \in Lists, NEW r \in Lists, q # r
  PROVE  InList(L, q, chunks) \cap InList(L, r, chunks) = {}
BY DEF ListsMatch, InList

\* A pool freed: the other chunks stay where they were, and the sizes worked out from the
\* headers are those of the chunks given back.
PoolGone(L, chunks, pool) ==
    \E small \in {<<"small", pool>>}, large \in {<<"large", pool>>} :
  \E rest \in {chunks \ (InList(L, small, chunks) \cup InList(L, large, chunks))} :
    /\ ListsMatch([L EXCEPT ![small] = << >>, ![large] = << >>], rest)
    /\ SizeOfChunks(rest) = SizeOfChunks(chunks) - (SumOf(ToSet(L[large]), Space(L[large], LargeHdr))
                                                    + SumOf(ToSet(L[small]), Space(L[small], SmallHdr)))

\* Without the lists of a pool, the other chunks and the other lists still match.
LEMMA PoolFreed ==
  ASSUME NEW L \in [Lists -> Seq(Entry)], NEW chunks \in SUBSET Chunk, IsFiniteSet(chunks), Numbered(chunks),
         ListsMatch(L, chunks), NEW pool \in Pools
  PROVE  PoolGone(L, chunks, pool)
<1> DEFINE small == <<"small", pool>>
           large == <<"large", pool>>
           A == InList(L, small, chunks)
           B == InList(L, large, chunks)
           rest == chunks \ (A \cup B)
           M == [L EXCEPT ![small] = << >>, ![large] = << >>]
<1>1. small \in Lists /\ large \in Lists /\ small # large /\ Header(small) = SmallHdr /\ Header(large) = LargeHdr
  BY DEF Lists, Header
<1>2. \A c \in chunks : c.size \in Int /\ Sizes(chunks)[c] = c.size
  BY DEF Sizes, Chunk
<1>3. /\ A \cap B = {} /\ A \subseteq chunks /\ B \subseteq chunks
      /\ IsFiniteSet(A) /\ IsFiniteSet(B) /\ IsFiniteSet(A \cup B) /\ IsFiniteSet(rest)
  <2>1. A \subseteq chunks /\ B \subseteq chunks
    BY DEF InList
  <2>2. A \cap B = {}
    BY <1>1, ListsDisjoint
  <2> HIDE DEF A, B
  <2> QED
    BY <2>1, <2>2, FS_Subset, FS_Union
<1>4. /\ SumOf(A, Sizes(chunks)) = SumOf(ToSet(L[small]), Space(L[small], SmallHdr))
      /\ SumOf(B, Sizes(chunks)) = SumOf(ToSet(L[large]), Space(L[large], LargeHdr))
  <2> HIDE DEF small, large
  <2>1. SumOf(A, Sizes(chunks)) = SumOf(ToSet(L[small]), Space(L[small], Header(small)))
    BY <1>1, ListSum
  <2>2. SumOf(B, Sizes(chunks)) = SumOf(ToSet(L[large]), Space(L[large], Header(large)))
    BY <1>1, ListSum
  <2> QED
    BY <1>1, <2>1, <2>2
<1>5. /\ SumOf(A \cup B, Sizes(chunks)) = SumOf(A, Sizes(chunks)) + SumOf(B, Sizes(chunks))
      /\ SumOf(A, Sizes(chunks)) \in Int /\ SumOf(B, Sizes(chunks)) \in Int
  <2> HIDE DEF A, B
  <2>1. \A c \in A \cup B : Sizes(chunks)[c] \in Int
    BY <1>2, <1>3
  <2> QED
    BY <1>3, <2>1, SumUnion, SumInt
<1>6. SumOf(chunks, Sizes(chunks)) = SumOf(A \cup B, Sizes(chunks)) + SumOf(rest, Sizes(chunks))
  <2> DEFINE U == A \cup B
  <2>1. U \subseteq chunks /\ IsFiniteSet(U)
    BY <1>3
  <2> HIDE DEF U, A, B
  <2>2. U \cup (chunks \ U) = chunks /\ U \cap (chunks \ U) = {} /\ IsFiniteSet(chunks \ U)
    BY <2>1, FS_Difference
  <2>3. \A c \in U \cup (chunks \ U) : Sizes(chunks)[c] \in Int
    BY <1>2, <2>1
  <2>4. SumOf(U \cup (chunks \ U), Sizes(chunks)) = SumOf(U, Sizes(chunks)) + SumOf(chunks \ U, Sizes(chunks))
    BY <2>1, <2>2, <2>3, SumUnion
  <2> QED
    BY <2>2, <2>4, Zenon DEF U
<1>7. SizeOfChunks(rest) = SumOf(rest, Sizes(chunks)) /\ SumOf(rest, Sizes(chunks)) \in Int
  <2>1. \A c \in rest : Sizes(chunks)[c] \in Int /\ Sizes(rest)[c] = Sizes(chunks)[c]
    BY <1>2 DEF Sizes
  <2> HIDE DEF rest
  <2>2. SumOf(rest, Sizes(rest)) = SumOf(rest, Sizes(chunks))
    BY <1>3, <2>1, SumAgrees
  <2>3. SumOf(rest, Sizes(chunks)) \in Int
    BY <1>3, <2>1, SumInt
  <2> QED
    BY <2>2, <2>3 DEF SizeOfChunks, Sizes
<1>8. SizeOfChunks(rest) = SizeOfChunks(chunks) - (SumOf(B, Sizes(chunks)) + SumOf(A, Sizes(chunks)))
  <2>1. SizeOfChunks(chunks) = SumOf(chunks, Sizes(chunks))
    BY DEF SizeOfChunks, Sizes
  <2> HIDE DEF A, B, rest
  <2> QED
    BY <1>5, <1>6, <1>7, <2>1
<1>9. ListsMatch(M, rest)
  <2> HIDE DEF small, large
  <2>1. /\ \A q \in Lists : q \in {small, large} => DOMAIN M[q] = {}
        /\ \A q \in Lists : q \notin {small, large} => M[q] = L[q]
    BY <1>1
  <2> HIDE DEF M
  <2>2. ASSUME NEW q \in Lists, NEW i \in DOMAIN M[q]
        PROVE  /\ M[q][i].id # 1
               /\ \E c \in rest : c.id = M[q][i].id /\ c.size = M[q][i].used + M[q][i].left + Header(q)
    <3>1. q \notin {small, large} /\ M[q] = L[q]
      BY <2>1
    <3>2. M[q][i].id # 1
      BY <3>1 DEF ListsMatch
    <3>3. PICK c \in chunks : c.id = M[q][i].id /\ c.size = M[q][i].used + M[q][i].left + Header(q)
      BY <3>1 DEF ListsMatch
    <3>4. c \notin A /\ c \notin B
      BY <1>1, <3>1, <3>3 DEF InList, ListsMatch
    <3> QED
      BY <3>2, <3>3, <3>4
  <2>3. ASSUME NEW c \in rest, c.id # 1
        PROVE  \E q \in Lists : \E i \in DOMAIN M[q] : M[q][i].id = c.id
    <3>1. PICK q \in Lists : \E i \in DOMAIN L[q] : L[q][i].id = c.id
      BY <2>3 DEF ListsMatch
    <3>2. q \notin {small, large}
      BY <3>1 DEF InList
    <3> QED
      BY <2>1, <3>1, <3>2
  <2>4. ASSUME NEW q \in Lists, NEW r \in Lists, NEW i \in DOMAIN M[q], NEW j \in DOMAIN M[r], M[q][i].id = M[r][j].id
        PROVE  q = r /\ i = j
    <3>1. M[q] = L[q] /\ M[r] = L[r]
      BY <2>1
    <3> QED
      BY <2>4, <3>1 DEF ListsMatch
  <2> HIDE DEF rest
  <2> QED
    BY <2>2, <2>3, <2>4 DEF ListsMatch
<1> QED
  BY <1>4, <1>8, <1>9 DEF PoolGone

\* A sum over two elements, and the size of two sets that have none in common.
LEMMA SumOfTwo ==
  ASSUME NEW S, NEW a \in S, NEW b \in S, a # b, \A x \in S : x = a \/ x = b, NEW F, F[a] \in Int, F[b] \in Int
  PROVE  SumOf(S, F) = F[a] + F[b]
<1> DEFINE T == S \ {a}
<1>1. IsFiniteSet(S)
  <2>1. IsFiniteSet(({} \cup {a}) \cup {b})
    BY FS_EmptySet, FS_AddElement
  <2>2. ({} \cup {a}) \cup {b} = S
    OBVIOUS
  <2> QED
    BY <2>1, <2>2, Zenon
<1>2. IsFiniteSet(T) /\ T \ {b} = {} /\ b \in T
  BY <1>1, FS_Subset
<1>3. SumOf(S, F) = F[a] + SumOf(T, F)
  BY <1>1, SumRemove
<1> HIDE DEF T
<1>4. \A x \in T : F[x] \in Int
  BY DEF T
<1>5. SumOf(T, F) = F[b] + SumOf(T \ {b}, F)
  BY <1>2, <1>4, SumRemove
<1>6. SumOf(T \ {b}, F) = 0
  BY <1>2, SumEmpty, Zenon
<1> QED
  BY <1>3, <1>5, <1>6

LEMMA CountDisjoint ==
  ASSUME NEW S, NEW T, IsFiniteSet(S), IsFiniteSet(T), S \cap T = {}
  PROVE  IsFiniteSet(S \cup T) /\ Cardinality(S \cup T) = Cardinality(S) + Cardinality(T)
<1>1. IsFiniteSet(S \cup T) /\ Cardinality(S \cup T) = Cardinality(S) + Cardinality(T) - Cardinality(S \cap T)
  BY FS_Union
<1>2. Cardinality(S \cap T) = 0 /\ Cardinality(S) \in Nat /\ Cardinality(T) \in Nat
  BY FS_EmptySet, FS_CardinalityType
<1> QED
  BY <1>1, <1>2

\* Chunks are as many as the places of the lists, and the manager.
LEMMA ChunksCounted ==
  ASSUME NEW L \in [Lists -> Seq(Entry)], NEW chunks \in SUBSET Chunk, IsFiniteSet(chunks), Numbered(chunks),
         ListsMatch(L, chunks), \E c \in chunks : c.id = 1
  PROVE  Cardinality(chunks) = 1 + SumOf(Pools, [p \in Pools |-> Len(L[<<"small", p>>]) + Len(L[<<"large", p>>])])
<1> DEFINE In(q) == InList(L, q, chunks)
           a == <<"small", "permanent">>
           b == <<"large", "permanent">>
           c == <<"small", "image">>
           d == <<"large", "image">>
           F == [p \in Pools |-> Len(L[<<"small", p>>]) + Len(L[<<"large", p>>])]
<1>1. PICK m \in chunks : m.id = 1
  OBVIOUS
<1>2. Lists = {a, b, c, d} /\ a # b /\ a # c /\ a # d /\ b # c /\ b # d /\ c # d
  BY DEF Lists, Pools
<1>3. /\ F["permanent"] = Len(L[a]) + Len(L[b]) /\ F["image"] = Len(L[c]) + Len(L[d])
      /\ Pools = {"permanent", "image"}
      /\ Len(L[a]) \in Nat /\ Len(L[b]) \in Nat /\ Len(L[c]) \in Nat /\ Len(L[d]) \in Nat
  BY <1>2 DEF Pools
<1> HIDE DEF a, b, c, d, F
<1>4. SumOf(Pools, F) = F["permanent"] + F["image"]
  <2>1. /\ "permanent" \in Pools /\ "image" \in Pools /\ "permanent" # "image"
        /\ \A p \in Pools : p = "permanent" \/ p = "image"
        /\ F["permanent"] \in Int /\ F["image"] \in Int
    BY <1>3
  <2> QED
    BY <2>1, SumOfTwo
<1>5. ASSUME NEW q \in Lists
      PROVE  IsFiniteSet(In(q)) /\ Cardinality(In(q)) = Len(L[q]) /\ m \notin In(q)
  <2>1. Cardinality(In(q)) = Len(L[q])
    BY ListSum
  <2>2. m \notin In(q)
    BY <1>1 DEF InList, ListsMatch
  <2>3. In(q) \subseteq chunks
    BY DEF InList
  <2> HIDE DEF In
  <2> QED
    BY <2>1, <2>2, <2>3, FS_Subset
<1>6. \A q, r \in Lists : q # r => In(q) \cap In(r) = {}
  BY ListsDisjoint
<1>7. chunks = (((In(a) \cup In(b)) \cup In(c)) \cup In(d)) \cup {m}
  <2>1. ASSUME NEW n \in chunks, n # m PROVE \E q \in Lists : n \in In(q)
    <3>1. n.id # 1
      BY <1>1, <2>1 DEF Numbered
    <3> QED
      BY <3>1 DEF ListsMatch, InList
  <2>2. \A q \in Lists : In(q) \subseteq chunks
    BY DEF InList
  <2> HIDE DEF In
  <2> QED
    BY <1>1, <1>2, <2>1, <2>2
<1> HIDE DEF In
<1> DEFINE A == In(a) \cup In(b)
           B == A \cup In(c)
           C == B \cup In(d)
<1>8. IsFiniteSet(A) /\ Cardinality(A) = Len(L[a]) + Len(L[b])
  BY <1>2, <1>5, <1>6, CountDisjoint, ZenonT(60)
<1>9. /\ IsFiniteSet(In(c)) /\ Cardinality(In(c)) = Len(L[c])
       /\ IsFiniteSet(In(d)) /\ Cardinality(In(d)) = Len(L[d])
  BY <1>2, <1>5
<1>10. A \cap In(c) = {} /\ B \cap In(d) = {} /\ m \notin C
  BY <1>2, <1>5, <1>6
<1> HIDE DEF A
<1>11. IsFiniteSet(B) /\ Cardinality(B) = Len(L[a]) + Len(L[b]) + Len(L[c])
  <2>1. IsFiniteSet(B) /\ Cardinality(B) = Cardinality(A) + Cardinality(In(c))
    BY <1>8, <1>10, <1>9, CountDisjoint
  <2> QED
    BY <1>8, <1>9, <2>1
<1> HIDE DEF B
<1>12. IsFiniteSet(C) /\ Cardinality(C) = Len(L[a]) + Len(L[b]) + Len(L[c]) + Len(L[d])
  <2>1. IsFiniteSet(C) /\ Cardinality(C) = Cardinality(B) + Cardinality(In(d))
    BY <1>10, <1>11, <1>9, CountDisjoint
  <2> QED
    BY <1>11, <1>9, <2>1
<1>13. Cardinality(chunks) = Len(L[a]) + Len(L[b]) + Len(L[c]) + Len(L[d]) + 1
  <2>1. chunks = C \cup {m}
    BY <1>7 DEF C, B, A
  <2> HIDE DEF C
  <2> QED
    <3>1. Cardinality(C \cup {m}) = Cardinality(C) + 1
      BY <1>10, <1>12, FS_AddElement
    <3>2. Cardinality(chunks) = Cardinality(C) + 1
      BY <2>1, <3>1, Zenon
    <3> QED
      BY <1>12, <3>2, Zenon
<1>14. Cardinality(chunks) = 1 + SumOf(Pools, F)
  <2>1. SumOf(Pools, F) = (Len(L[a]) + Len(L[b])) + (Len(L[c]) + Len(L[d]))
    BY <1>3, <1>4, Zenon
  <2>2. \A w, x, y, z \in Nat : w + x + y + z + 1 = 1 + ((w + x) + (y + z))
    OBVIOUS
  <2>3. Len(L[a]) + Len(L[b]) + Len(L[c]) + Len(L[d]) + 1 = 1 + ((Len(L[a]) + Len(L[b])) + (Len(L[c]) + Len(L[d])))
    <3>1. Len(L[a]) \in Nat /\ Len(L[b]) \in Nat /\ Len(L[c]) \in Nat /\ Len(L[d]) \in Nat
      BY <1>3, Zenon
    <3> DEFINE w == Len(L[a])
               x == Len(L[b])
               y == Len(L[c])
               z == Len(L[d])
    <3> HIDE DEF w, x, y, z
    <3>2. w \in Nat /\ x \in Nat /\ y \in Nat /\ z \in Nat
      BY <3>1 DEF w, x, y, z
    <3>3. w + x + y + z + 1 = 1 + ((w + x) + (y + z))
      BY <3>2
    <3> QED
      BY <3>3 DEF w, x, y, z
  <2> QED
    BY <1>13, <2>1, <2>3, Zenon
<1> QED
  BY <1>14 DEF F

\* Of one number more than there are chunks one is free.
LEMMA FreshIdIsFresh ==
  ASSUME NEW m, m.chunks \in SUBSET Chunk, IsFiniteSet(m.chunks)
  PROVE  FreshId(m) \in Nat \ {0} /\ \A c \in m.chunks : c.id # FreshId(m)
<1> DEFINE S == m.chunks
           n == Cardinality(S)
           T == {c.id : c \in S}
           f == [c \in S |-> c.id]
<1>1. n \in Nat
  BY FS_CardinalityType
<1>2. f \in Surjection(S, T)
  BY DEF Surjection
<1>3. IsFiniteSet(T) /\ Cardinality(T) <= n /\ Cardinality(T) \in Nat
  <2> HIDE DEF f, T, S
  <2>1. IsFiniteSet(S)
    BY DEF S
  <2> QED
    BY <1>2, <2>1, FS_Surjection, FS_CardinalityType
<1>4. \E id \in 1 .. n + 1 : id \notin T
  <2> SUFFICES ASSUME 1 .. n + 1 \subseteq T PROVE FALSE
    OBVIOUS
  <2> HIDE DEF n, T
  <2>1. Cardinality(1 .. n + 1) = n + 1
    BY <1>1, FS_Interval
  <2>2. Cardinality(1 .. n + 1) <= Cardinality(T)
    BY <1>3, FS_Subset
  <2> QED
    BY <1>1, <1>3, <2>1, <2>2
<1>5. \E id \in 1 .. n + 1 : \A c \in S : c.id # id
  BY <1>4
<1> HIDE DEF n
<1>6. FreshId(m) \in 1 .. n + 1 /\ \A c \in S : c.id # FreshId(m)
  BY <1>5 DEF FreshId, n
<1> QED
  BY <1>1, <1>6

LEMMA SizeAdded ==
  ASSUME NEW S \in SUBSET Chunk, IsFiniteSet(S), NEW n \in Chunk, n \notin S
  PROVE  SizeOfChunks(S \cup {n}) = n.size + SizeOfChunks(S)
<1> DEFINE T == S \cup {n}
<1>1. \A c \in T : Sizes(T)[c] = c.size /\ Sizes(T)[c] \in Int
  BY DEF Sizes, Chunk
<1>2. \A c \in S : Sizes(T)[c] \in Int /\ Sizes(S)[c] = Sizes(T)[c]
  BY <1>1 DEF Sizes
<1>3. SumOf(S, Sizes(S)) = SumOf(S, Sizes(T))
  BY <1>2, SumAgrees
<1>4. SumOf(S \cup {n}, Sizes(T)) = Sizes(T)[n] + SumOf(S, Sizes(T))
  BY <1>1, SumAdd
<1>5. SizeOfChunks(T) = SumOf(T, Sizes(T)) /\ SizeOfChunks(S) = SumOf(S, Sizes(S))
  BY DEF SizeOfChunks, Sizes
<1> QED
  BY <1>1, <1>3, <1>4, <1>5, Zenon

\* Memory m with a chunk more.
Got(m, size, g) ==
  /\ g \in MemoryRecord /\ ChunksRight(g)
  /\ g.chunks = m.chunks \cup {[id |-> FreshId(m), size |-> size]} /\ g.last = FreshId(m)
  /\ g.small_list = m.small_list /\ g.large_list = m.large_list /\ g.files = m.files /\ g.error = m.error
  /\ FreshId(m) \in Nat \ {0} /\ \A c \in m.chunks : c.id # FreshId(m)

\* A chunk from the system is counted once and has a number of its own.
LEMMA GetRight ==
  ASSUME NEW m \in MemoryRecord, ChunksRight(m), NEW size \in Int
  PROVE  Got(m, size, jpeg_get(m, size))
<1> DEFINE id == FreshId(m)
           n == [id |-> id, size |-> size]
           chunks == m.chunks \cup {n}
           total == m.total + size
           g == jpeg_get(m, size)
<1>1. m.chunks \in SUBSET Chunk /\ IsFiniteSet(m.chunks) /\ m.total \in Int
  BY DEF MemoryRecord, ChunksRight
<1>2. id \in Nat \ {0} /\ \A c \in m.chunks : c.id # id
  BY <1>1, FreshIdIsFresh
<1>3. n \in Chunk /\ n.id = id /\ n.size = size /\ n \notin m.chunks
  BY <1>2 DEF Chunk
<1>4. g = [m EXCEPT !.chunks = chunks, !.total = total, !.last = id]
  BY DEF jpeg_get
<1>5. IsFiniteSet(chunks) /\ Numbered(chunks) /\ total = SizeOfChunks(chunks) /\ chunks \in SUBSET Chunk /\ total \in Int
  <2>1. IsFiniteSet(chunks)
    BY <1>1, FS_AddElement
  <2>2. Numbered(chunks)
    BY <1>2, <1>3 DEF Numbered, ChunksRight
  <2>3. m.total = SizeOfChunks(m.chunks)
    BY DEF ChunksRight
  <2> HIDE DEF n
  <2>4. SizeOfChunks(chunks) = n.size + SizeOfChunks(m.chunks)
    BY <1>1, <1>3, SizeAdded
  <2> QED
    BY <1>1, <1>3, <2>1, <2>2, <2>3, <2>4
<1> HIDE DEF id, chunks, total, g, n
<1>6. /\ g \in MemoryRecord /\ g.chunks = chunks /\ g.total = total /\ g.last = id
      /\ g.small_list = m.small_list /\ g.large_list = m.large_list /\ g.files = m.files /\ g.error = m.error
  BY <1>2, <1>4, <1>5 DEF MemoryRecord
<1>7. ChunksRight(g)
  BY <1>5, <1>6 DEF ChunksRight
<1> QED
  BY <1>2, <1>6, <1>7 DEF id, chunks, g, n, Got

\* The lists of a memory are sequences of entries.
LEMMA ListsType ==
  ASSUME NEW m \in MemoryRecord
  PROVE  /\ ListsOf(m) \in [Lists -> Seq(Entry)]
         /\ \A pool \in Pools : /\ <<"small", pool>> \in Lists /\ ListsOf(m)[<<"small", pool>>] = m.small_list[pool]
                                /\ Header(<<"small", pool>>) = SmallHdr
                                /\ m.small_list[pool] \in Seq(Entry)
         /\ \A pool \in Pools : /\ <<"large", pool>> \in Lists /\ ListsOf(m)[<<"large", pool>>] = m.large_list[pool]
                                /\ Header(<<"large", pool>>) = LargeHdr
                                /\ m.large_list[pool] \in Seq(Entry)
<1>1. \A q \in Lists : q[1] \in {"small", "large"} /\ q[2] \in Pools
  BY DEF Lists
<1>2. \A pool \in Pools : m.small_list[pool] \in Seq(Entry) /\ m.large_list[pool] \in Seq(Entry)
  BY DEF MemoryRecord
<1> QED
  BY <1>1, <1>2 DEF Lists, ListsOf, Header

\* A list changed and the others as they were.
LEMMA SmallChanged ==
  ASSUME NEW m \in MemoryRecord, NEW n \in MemoryRecord, NEW pool \in Pools, NEW s,
         n.small_list = [m.small_list EXCEPT ![pool] = s], n.large_list = m.large_list
  PROVE  ListsOf(n) = [ListsOf(m) EXCEPT ![<<"small", pool>>] = s]
<1> DEFINE a == <<"small", pool>>
<1>1. \A q \in Lists : q[1] = "small" /\ q[2] = pool => q = a
  BY DEF Lists
<1>2. \A q \in Lists : q[1] \in {"small", "large"} /\ q[2] \in Pools /\ (q = a => q[1] = "small" /\ q[2] = pool)
  BY DEF Lists
<1> HIDE DEF a
<1>3. \A p \in Pools : n.small_list[p] = IF p = pool THEN s ELSE m.small_list[p]
  BY DEF MemoryRecord
<1>4. \A q \in Lists : ListsOf(n)[q] = IF q = a THEN s ELSE ListsOf(m)[q]
  BY <1>1, <1>2, <1>3 DEF ListsOf
<1>5. [ListsOf(m) EXCEPT ![a] = s] = [q \in Lists |-> IF q = a THEN s ELSE ListsOf(m)[q]]
  BY DEF ListsOf
<1>6. ListsOf(n) = [q \in Lists |-> ListsOf(n)[q]]
  BY DEF ListsOf
<1>7. ListsOf(n) = [ListsOf(m) EXCEPT ![a] = s]
  BY <1>4, <1>5, <1>6
<1> QED
  BY <1>7 DEF a

LEMMA LargeChanged ==
  ASSUME NEW m \in MemoryRecord, NEW n \in MemoryRecord, NEW pool \in Pools, NEW s,
         n.large_list = [m.large_list EXCEPT ![pool] = s], n.small_list = m.small_list
  PROVE  ListsOf(n) = [ListsOf(m) EXCEPT ![<<"large", pool>>] = s]
<1> DEFINE a == <<"large", pool>>
<1>1. \A q \in Lists : q[1] = "large" /\ q[2] = pool => q = a
  BY DEF Lists
<1>2. \A q \in Lists : q[1] \in {"small", "large"} /\ q[2] \in Pools /\ (q = a => q[1] = "large" /\ q[2] = pool)
  BY DEF Lists
<1> HIDE DEF a
<1>3. \A p \in Pools : n.large_list[p] = IF p = pool THEN s ELSE m.large_list[p]
  BY DEF MemoryRecord
<1>4. \A q \in Lists : ListsOf(n)[q] = IF q = a THEN s ELSE ListsOf(m)[q]
  BY <1>1, <1>2, <1>3 DEF ListsOf
<1>5. [ListsOf(m) EXCEPT ![a] = s] = [q \in Lists |-> IF q = a THEN s ELSE ListsOf(m)[q]]
  BY DEF ListsOf
<1>6. ListsOf(n) = [q \in Lists |-> ListsOf(n)[q]]
  BY DEF ListsOf
<1>7. ListsOf(n) = [ListsOf(m) EXCEPT ![a] = s]
  BY <1>4, <1>5, <1>6
<1> QED
  BY <1>7 DEF a

-----------------------------------------------------------------------------
(* Alignment, division, and the heights of windows.                        *)

\* Facts about division and products of any two numbers, each by itself for the solver.
LEMMA DivisionRange ==
  ASSUME NEW a \in Nat \ {0}, NEW x \in Nat
  PROVE  x \div a \in Nat /\ (x \div a) * a <= x /\ x < (x \div a) * a + a
OBVIOUS

LEMMA ProductOrder ==
  ASSUME NEW a \in Nat \ {0}, NEW k \in Int, NEW j \in Int
  PROVE  /\ k <= j <=> k * a <= j * a
         /\ k * a < j * a + a => k <= j
         /\ k * a \in Int /\ k * a + j * a = (k + j) * a /\ k * a - j * a = (k - j) * a /\ (j + 1) * a = j * a + a
OBVIOUS

\* The multiples of the alignment.
LEMMA Multiples ==
  /\ \A n \in Int : Multiple(n) <=> n % ALIGN = 0
  /\ \A n, k \in Int : Multiple(n) /\ Multiple(k) => Multiple(n + k) /\ Multiple(n - k)
  /\ Multiple(0) /\ Multiple(SmallHdr) /\ Multiple(LargeHdr) /\ Multiple(MAX_ALLOC_CHUNK)
<1> DEFINE A == ALIGN
<1>1. A \in Nat \ {0}
  BY MemoryAssumption
<1> HIDE DEF A
<1>2. ASSUME NEW n \in Int PROVE (\E k \in Int : n = k * A) <=> n % A = 0
  <2>1. ASSUME NEW k \in Int PROVE (k * A) % A = 0
    BY <1>1
  <2>2. n % A = 0 => \E k \in Int : n = k * A
    BY <1>1
  <2> QED
    BY <2>1, <2>2
<1>3. \A n \in Int : Multiple(n) <=> n % A = 0
  BY <1>2 DEF Multiple, A
<1>4. ASSUME NEW n \in Int, NEW k \in Int, Multiple(n), Multiple(k)
      PROVE  Multiple(n + k) /\ Multiple(n - k)
  <2>1. PICK i \in Int : n = i * A
    BY <1>4 DEF Multiple, A
  <2>2. PICK j \in Int : k = j * A
    BY <1>4 DEF Multiple, A
  <2>3. n + k = (i + j) * A /\ n - k = (i - j) * A /\ i + j \in Int /\ i - j \in Int
    BY <1>1, <2>1, <2>2, ProductOrder
  <2> QED
    BY <2>3 DEF Multiple, A
<1>5. SmallHdr \in Int /\ LargeHdr \in Int /\ MAX_ALLOC_CHUNK \in Int
      /\ SmallHdr % A = 0 /\ LargeHdr % A = 0 /\ MAX_ALLOC_CHUNK % A = 0
  BY MemoryAssumption DEF A
<1>6. 0 % A = 0
  BY <1>1
<1> QED
  BY <1>3, <1>4, <1>5, <1>6 DEF A

\* Rounding up neither shrinks a size nor takes it past a limit that is a multiple.
LEMMA RoundedUp ==
  ASSUME NEW size \in Nat
  PROVE  /\ Rounded(size) \in Nat /\ Rounded(size) >= size /\ Multiple(Rounded(size))
         /\ size <= MAX_ALLOC_CHUNK - SmallHdr => Rounded(size) <= MAX_ALLOC_CHUNK - SmallHdr
<1> DEFINE A == ALIGN
           x == size + ALIGN - 1
           k == x \div ALIGN
           limit == MAX_ALLOC_CHUNK - SmallHdr
<1>1. A \in Nat \ {0} /\ x \in Nat /\ x = size + A - 1
  BY MemoryAssumption
<1>2. limit \in Int /\ Multiple(limit)
  <2>1. MAX_ALLOC_CHUNK \in Int /\ SmallHdr \in Int
    BY MemoryAssumption
  <2> HIDE DEF limit
  <2>2. Multiple(MAX_ALLOC_CHUNK - SmallHdr)
    BY <2>1, Multiples
  <2> QED
    BY <2>1, <2>2 DEF limit
<1>3. PICK j \in Int : limit = j * A
  BY <1>2 DEF Multiple
<1> HIDE DEF A, x, limit
<1>4. Rounded(size) = k * A
  BY DEF Rounded, x, A
<1>5. k \in Nat /\ k * A <= x /\ x < k * A + A
  <2>1. k = x \div A
    BY DEF A
  <2> QED
    BY <1>1, <2>1, DivisionRange
<1> HIDE DEF k
<1>6. k * A \in Nat /\ k * A >= size
  BY <1>1, <1>5
<1>7. ASSUME size <= limit PROVE k * A <= limit
  <2>1. k * A < j * A + A /\ j * A \in Int
    BY <1>1, <1>3, <1>5, <1>7
  <2>2. k <= j
    BY <1>1, <1>5, <2>1, ProductOrder
  <2> QED
    BY <1>1, <1>3, <1>5, <2>2, ProductOrder
<1> QED
  BY <1>4, <1>5, <1>6, <1>7 DEF Multiple, A, limit

\* How many places there is for what is seen of an array: a window takes less than its rows, but
\* as many as it promised.
LEMMA HeightRange ==
  ASSUME NEW rows \in Nat \ {0}, NEW access \in Nat \ {0}, NEW least \in Nat \ {0}
  PROVE  \E height \in {(rows - 1) \div access + 1} :
           /\ height \in Nat \ {0} /\ rows <= height * access
           /\ least < height => least * access < rows /\ least * access >= access /\ least * access \in Nat
           /\ height <= least => rows <= least * access
<1> DEFINE k == (rows - 1) \div access
<1>1. k \in Nat /\ k * access <= rows - 1 /\ rows - 1 < k * access + access
  BY DivisionRange
<1> HIDE DEF k
<1>2. (k + 1) * access = k * access + access /\ k * access \in Int /\ least * access \in Int /\ 1 * access = access
  BY <1>1, ProductOrder
<1>3. least <= k => least * access <= k * access
  BY <1>1, ProductOrder
<1>4. k + 1 <= least => (k + 1) * access <= least * access
  BY <1>1, ProductOrder
<1>5. 1 * access <= least * access
  BY ProductOrder
<1> QED
  BY <1>1, <1>2, <1>3, <1>4, <1>5 DEF k

-----------------------------------------------------------------------------
(* Objects: what an allocation does to the lists and to the objects there  *)
(* are.                                                                    *)

\* Objects stay where they are when lists grow, and one more keeps apart from them when it lies
\* beyond what its chunk had in use.
LEMMA ObjectsStay ==
  ASSUME NEW L \in [Lists -> Seq(Entry)], NEW M \in [Lists -> Seq(Entry)], Grown(L, M),
         NEW objs, ObjectsRight(L, objs)
  PROVE  ObjectsRight(M, objs)
<1>1. ASSUME NEW o \in objs PROVE Lies(o, M)
  <2>1. PICK q \in Lists : \E i \in DOMAIN L[q] :
          q[2] = o.pool /\ L[q][i].id = o.chunk /\ o.from + o.size <= Header(q) + L[q][i].used
    BY DEF ObjectsRight, Lies
  <2>2. PICK i \in DOMAIN L[q] :
          q[2] = o.pool /\ L[q][i].id = o.chunk /\ o.from + o.size <= Header(q) + L[q][i].used
    BY <2>1
  <2>3. PICK j \in DOMAIN M[q] : M[q][j].id = L[q][i].id /\ M[q][j].used >= L[q][i].used
    BY DEF Grown
  <2>4. L[q][i].used \in Nat /\ M[q][j].used \in Nat /\ Header(q) \in Nat
    <3>1. L[q][i] \in Entry /\ M[q][j] \in Entry
      OBVIOUS
    <3> QED
      BY <3>1, HeaderType DEF Entry
  <2>5. o.from + o.size <= Header(q) + M[q][j].used
    <3>1. o.from \in Nat /\ o.size \in Nat
      BY DEF ObjectsRight, ObjectRecord
    <3> QED
      BY <2>2, <2>3, <2>4, <3>1, SMTT(30)
  <2> QED
    BY <2>2, <2>3, <2>5 DEF Lies
<1> QED
  BY <1>1 DEF ObjectsRight

LEMMA ObjectAdded ==
  ASSUME NEW L \in [Lists -> Seq(Entry)], NEW M \in [Lists -> Seq(Entry)], Grown(L, M),
         NEW objs, ObjectsRight(L, objs),
         NEW o \in ObjectRecord, Lies(o, M), Multiple(o.from - SmallHdr),
         \A q \in Lists : \A i \in DOMAIN L[q] : L[q][i].id = o.chunk => o.from >= Header(q) + L[q][i].used
  PROVE  ObjectsRight(M, objs \cup {o})
<1>1. ObjectsRight(M, objs)
  BY ObjectsStay
<1>2. ASSUME NEW n \in objs, n.chunk = o.chunk
      PROVE  n.from + n.size <= o.from
  <2>1. PICK q \in Lists : \E i \in DOMAIN L[q] :
          q[2] = n.pool /\ L[q][i].id = n.chunk /\ n.from + n.size <= Header(q) + L[q][i].used
    BY DEF ObjectsRight, Lies
  <2>2. PICK i \in DOMAIN L[q] :
          q[2] = n.pool /\ L[q][i].id = n.chunk /\ n.from + n.size <= Header(q) + L[q][i].used
    BY <2>1
  <2>3. o.from >= Header(q) + L[q][i].used
    BY <1>2, <2>2
  <2>4. L[q][i].used \in Nat /\ Header(q) \in Nat
    <3>1. L[q][i] \in Entry
      OBVIOUS
    <3> QED
      BY <3>1, HeaderType DEF Entry
  <2>5. n.from \in Nat /\ n.size \in Nat /\ o.from \in Nat
    BY DEF ObjectsRight, ObjectRecord
  <2> QED
    BY <2>2, <2>3, <2>5, <2>4
<1>3. ASSUME NEW n \in objs PROVE Apart(n, o) /\ Apart(o, n)
  BY <1>2 DEF Apart
<1> QED
  BY <1>1, <1>3 DEF ObjectsRight

\* What an allocation does: the pools stay right, and a new object is apart from the others.
Allocated(m, n) ==
  /\ PoolsRight(n) /\ Grown(ListsOf(m), ListsOf(n)) /\ n.files = m.files /\ NoBug(n)
  /\ \A objs \in SUBSET ObjectRecord :
       ObjectsRight(ListsOf(m), objs) => ObjectsRight(ListsOf(n), objs \cup Object(n))

\* The words of the errors, for the provers that are not given them.
LEMMA ObjectOf == \A m : Object(m) = IF Fine(m) THEN {m.last} ELSE {}
BY Zenon DEF Object, Fine

LEMMA FineKept == \A m, n : m.error = n.error => (Fine(m) <=> Fine(n)) /\ (NoBug(m) <=> NoBug(n))
BY Zenon DEF Fine, NoBug

LEMMA FineNoBug == \A m : Fine(m) => NoBug(m)
BY Zenon DEF Fine, NoBug

LEMMA GrownReflexive == \A L \in [Lists -> Seq(Entry)] : Grown(L, L)
<1> SUFFICES ASSUME NEW L \in [Lists -> Seq(Entry)], NEW q \in Lists, NEW i \in DOMAIN L[q]
             PROVE  L[q][i].used >= L[q][i].used
  BY DEF Grown
<1>1. L[q][i] \in Entry
  OBVIOUS
<1>2. L[q][i].used \in Nat
  BY <1>1 DEF Entry
<1> QED
  BY <1>2

LEMMA GrownTransitive ==
  ASSUME NEW L \in [Lists -> Seq(Entry)], NEW M \in [Lists -> Seq(Entry)], NEW N \in [Lists -> Seq(Entry)],
         Grown(L, M), Grown(M, N)
  PROVE  Grown(L, N)
<1> SUFFICES ASSUME NEW q \in Lists, NEW i \in DOMAIN L[q]
             PROVE  \E k \in DOMAIN N[q] : N[q][k].id = L[q][i].id /\ N[q][k].used >= L[q][i].used
  BY DEF Grown
<1>1. PICK j \in DOMAIN M[q] : M[q][j].id = L[q][i].id /\ M[q][j].used >= L[q][i].used
  BY DEF Grown
<1>2. PICK k \in DOMAIN N[q] : N[q][k].id = M[q][j].id /\ N[q][k].used >= M[q][j].used
  BY DEF Grown
<1>3. L[q][i].used \in Nat /\ M[q][j].used \in Nat /\ N[q][k].used \in Nat
  <2>1. L[q][i] \in Entry /\ M[q][j] \in Entry /\ N[q][k] \in Entry
    OBVIOUS
  <2> QED
    BY <2>1 DEF Entry
<1> QED
  BY <1>1, <1>2, <1>3

\* A request that fails leaves everything as it was.
LEMMA FailedRight ==
  ASSUME NEW m, PoolsRight(m), NEW error, Reported(error)
  PROVE  Allocated(m, Failed(m, error))
<1> DEFINE n == Failed(m, error)
<1>1. n = [m EXCEPT !.error = error] /\ m \in MemoryRecord
  BY DEF Failed, PoolsRight
<1> HIDE DEF n
<1>2. error \in Errors
  BY DEF Reported
<1>3. /\ n \in MemoryRecord /\ n.chunks = m.chunks /\ n.total = m.total /\ n.small_list = m.small_list
      /\ n.large_list = m.large_list /\ n.files = m.files /\ n.error = error
  BY <1>1, <1>2 DEF MemoryRecord
<1>4. ~Fine(n) /\ NoBug(n)
  BY <1>3, Zenon DEF Reported, Fine, NoBug
<1>5. ListsOf(n) = ListsOf(m)
  BY <1>3 DEF ListsOf
<1>6. PoolsRight(n)
  BY <1>3, <1>5 DEF PoolsRight, ChunksRight
<1>7. Grown(ListsOf(m), ListsOf(n))
  BY <1>1, <1>5, ListsType, GrownReflexive
<1>8. Object(n) = {}
  BY <1>4, ObjectOf
<1>9. Allocated(m, n)
  BY <1>3, <1>4, <1>5, <1>6, <1>7, <1>8 DEF Allocated
<1> QED
  BY <1>9 DEF n

\* A new chunk for small objects.
Longer(m, pool, left, n) ==
  /\ PoolsRight(n) /\ Grown(ListsOf(m), ListsOf(n)) /\ n.files = m.files /\ n.error = m.error
  /\ Len(n.small_list[pool]) = Len(m.small_list[pool]) + 1
  /\ n.small_list[pool][Len(m.small_list[pool]) + 1].left = left

\* A new chunk for small objects, before anything is carved from it.
LEMMA SmallChunkAdded ==
  ASSUME NEW m, PoolsRight(m), NEW pool \in Pools, NEW size \in Nat, NEW slop \in Nat
  PROVE  Longer(m, pool, size + slop, NewSmallChunk(m, pool, size, slop))
<1> DEFINE total == size + SmallHdr + slop
           g == jpeg_get(m, total)
           e == [id |-> g.last, used |-> 0, left |-> size + slop]
           old == m.small_list[pool]
           s == Append(old, e)
           lists == [m.small_list EXCEPT ![pool] = s]
           n == NewSmallChunk(m, pool, size, slop)
           c == [id |-> FreshId(m), size |-> total]
           a == <<"small", pool>>
<1>1. m \in MemoryRecord /\ ChunksRight(m) /\ total \in Int /\ ListsMatch(ListsOf(m), m.chunks) /\ SmallAligned(ListsOf(m))
      /\ \E d \in m.chunks : d.id = 1
  BY MemoryAssumption, SMTT(30) DEF PoolsRight
<1>2. /\ g \in MemoryRecord /\ ChunksRight(g)
      /\ g.chunks = m.chunks \cup {c} /\ g.last = FreshId(m)
      /\ g.small_list = m.small_list /\ g.large_list = m.large_list /\ g.files = m.files /\ g.error = m.error
      /\ FreshId(m) \in Nat \ {0} /\ \A d \in m.chunks : d.id # FreshId(m)
  <2>1. Got(m, total, g)
    <3> HIDE DEF total
    <3> QED
      BY <1>1, GetRight
  <2> QED
    BY <2>1 DEF Got
<1> HIDE DEF g, total
<1>3. e \in Entry /\ e.id = FreshId(m) /\ e.used = 0 /\ e.left = size + slop
  BY <1>2 DEF Entry
<1> HIDE DEF e
<1>4. /\ old \in Seq(Entry) /\ s \in Seq(Entry) /\ Len(s) = Len(old) + 1 /\ s[Len(old) + 1] = e /\ Len(old) \in Nat
      /\ \A i \in DOMAIN old : s[i] = old[i]
  <2>1. old \in Seq(Entry)
    BY <1>1 DEF MemoryRecord
  <2> HIDE DEF old
  <2> QED
    BY <1>3, <2>1
<1>5. n = [g EXCEPT !.small_list = lists]
  BY <1>2 DEF NewSmallChunk, g, e, s, lists, total
<1> HIDE DEF s, n
<1>6. lists \in [Pools -> Seq(Entry)] /\ lists[pool] = s
  BY <1>1, <1>4 DEF MemoryRecord
<1> HIDE DEF lists
<1>7. /\ n \in MemoryRecord /\ n.small_list = lists /\ n.large_list = m.large_list /\ n.chunks = g.chunks /\ n.total = g.total
      /\ n.files = m.files /\ n.error = m.error
  BY <1>2, <1>5, <1>6 DEF MemoryRecord
<1>8. ListsOf(n) = [ListsOf(m) EXCEPT ![a] = s]
  BY <1>1, <1>7, SmallChanged DEF lists
<1> DEFINE L == ListsOf(m)
           M == ListsOf(n)
<1>9. L \in [Lists -> Seq(Entry)] /\ M \in [Lists -> Seq(Entry)] /\ a \in Lists /\ L[a] = old /\ Header(a) = SmallHdr
  BY <1>1, <1>7, ListsType
<1> HIDE DEF a, old, L, M
<1>10. ListsMatch(M, n.chunks)
  <2>1. c \in Chunk /\ c.id = e.id /\ c.size = e.used + e.left + Header(a) /\ \A d \in m.chunks : d.id # e.id
    BY <1>2, <1>3, <1>9, MemoryAssumption, SMTT(30) DEF Chunk, total
  <2>2. m.chunks \in SUBSET Chunk /\ ListsMatch(L, m.chunks) /\ (\E d \in m.chunks : d.id = 1) /\ n.chunks = m.chunks \cup {c}
    BY <1>1, <1>2, <1>7 DEF MemoryRecord, L
  <2>3. /\ Len(s) = Len(L[a]) + 1 /\ s[IF 0 = 0 THEN Len(s) ELSE 1] = e
        /\ \A i \in DOMAIN L[a] : s[i + 0] = L[a][i]
    BY <1>4, <1>9
  <2> HIDE DEF c
  <2>4. ListsMatch([L EXCEPT ![a] = s], m.chunks \cup {c})
    BY <1>3, <1>4, <1>9, <2>1, <2>2, <2>3, EntryAdded, ZenonT(60)
  <2> QED
    BY <1>8, <2>2, <2>4 DEF L, M
<1>11. SmallAligned(M)
  <2> SUFFICES ASSUME NEW p \in Pools, NEW i \in DOMAIN M[<<"small", p>>]
               PROVE  Multiple(M[<<"small", p>>][i].used)
    BY DEF SmallAligned
  <2>1. CASE p = pool
    <3>1. M[<<"small", p>>] = s
      BY <1>8, <1>9, <2>1 DEF a, L, M
    <3>2. i = Len(old) + 1 \/ i \in DOMAIN old
      BY <1>4, <3>1
    <3>3. i \in DOMAIN old => Multiple(old[i].used)
      BY <1>1, <1>9, <2>1 DEF SmallAligned, a, L
    <3> QED
      BY <1>3, <1>4, <3>1, <3>2, <3>3, Multiples
  <2>2. CASE p # pool
    <3>1. <<"small", p>> # a /\ <<"small", p>> \in Lists
      BY <2>2 DEF a, Lists
    <3>2. M[<<"small", p>>] = L[<<"small", p>>]
      BY <1>8, <1>9, <3>1 DEF L, M
    <3> QED
      BY <1>1, <3>2 DEF SmallAligned, L
  <2> QED
    BY <2>1, <2>2
<1>12. Grown(L, M)
  <2> SUFFICES ASSUME NEW q \in Lists, NEW i \in DOMAIN L[q]
               PROVE  i \in DOMAIN M[q] /\ M[q][i] = L[q][i] /\ L[q][i] \in Entry
    BY DEF Grown, Entry
  <2>1. CASE q = a
    <3>1. M[q] = s /\ L[q] = old
      BY <1>8, <1>9, <2>1 DEF L, M
    <3> QED
      BY <1>4, <3>1
  <2>2. CASE q # a
    BY <1>8, <1>9, <2>2 DEF L, M
  <2> QED
    BY <2>1, <2>2
<1>13. PoolsRight(n)
  <2>1. ChunksRight(n)
    BY <1>2, <1>7 DEF ChunksRight
  <2>2. \E d \in n.chunks : d.id = 1
    BY <1>1, <1>2, <1>7
  <2> QED
    BY <1>7, <1>10, <1>11, <2>1, <2>2 DEF PoolsRight, M
<1> QED
  BY <1>3, <1>4, <1>6, <1>7, <1>12, <1>13 DEF L, M, n, old, Longer

LEMMA HeadersType == SmallHdr \in Nat /\ LargeHdr \in Nat /\ MAX_ALLOC_CHUNK \in Nat
BY MemoryAssumption

LEMMA PlaceType ==
  ASSUME NEW L \in [Lists -> Seq(Entry)], NEW q \in Lists
  PROVE  /\ L[q] \in Seq(Entry) /\ DOMAIN L[q] = 1 .. Len(L[q]) /\ Len(L[q]) \in Nat
         /\ \A i \in DOMAIN L[q] : L[q][i] \in Entry /\ L[q][i].id \in Nat /\ L[q][i].used \in Nat /\ L[q][i].left \in Nat
<1>1. L[q] \in Seq(Entry)
  OBVIOUS
<1>2. DOMAIN L[q] = 1 .. Len(L[q]) /\ Len(L[q]) \in Nat
  BY <1>1
<1>3. \A i \in DOMAIN L[q] : L[q][i] \in Entry
  BY <1>1
<1> QED
  BY <1>1, <1>2, <1>3 DEF Entry

\* What carving does to the lists.
Carving(m, pool, k, size, n) ==
  \E f \in Entry, e \in Entry, s \in Seq(Entry), o \in ObjectRecord :
    /\ f = m.small_list[pool][k] /\ e = [id |-> f.id, used |-> f.used + size, left |-> f.left - size]
    /\ s = [m.small_list[pool] EXCEPT ![k] = e]
    /\ o = [pool |-> pool, chunk |-> f.id, from |-> SmallHdr + f.used, size |-> size]
    /\ n = [m EXCEPT !.small_list = [m.small_list EXCEPT ![pool] = s], !.last = o]

LEMMA CarvedIs ==
  ASSUME NEW m \in MemoryRecord, NEW pool \in Pools, NEW k \in DOMAIN m.small_list[pool],
         NEW size \in Nat, size <= m.small_list[pool][k].left
  PROVE  Carving(m, pool, k, size, Carved(m, pool, k, size))
<1> DEFINE old == m.small_list[pool]
           f == old[k]
           e == [id |-> f.id, used |-> f.used + size, left |-> f.left - size]
           d == [f EXCEPT !.used = f.used + size, !.left = f.left - size]
           s == [old EXCEPT ![k] = e]
           o == [pool |-> pool, chunk |-> f.id, from |-> SmallHdr + f.used, size |-> size]
<1>1. Carved(m, pool, k, size) = [m EXCEPT !.small_list[pool][k] = d, !.last = o]
  BY Zenon DEF Carved
<1>2. m.small_list \in [Pools -> Seq(Entry)] /\ old \in Seq(Entry) /\ k \in DOMAIN old
  BY DEF MemoryRecord
<1>3. f \in Entry
  <2> HIDE DEF old
  <2> QED
    BY <1>2
<1>4. f.left >= size
  OBVIOUS
<1>5. e \in Entry /\ d = e
  <2>1. f.id \in Nat /\ f.used \in Nat /\ f.left \in Nat /\ f = [id |-> f.id, used |-> f.used, left |-> f.left]
    <3> HIDE DEF f
    <3> QED
      BY <1>3 DEF Entry
  <2>2. f.used + size \in Nat /\ f.left - size \in Nat
    <3> HIDE DEF f
    <3> QED
      BY <1>4, <2>1
  <2>3. e \in Entry
    BY <2>1, <2>2 DEF Entry
  <2>4. d = e
    <3> DEFINE u == f.used + size
               l == f.left - size
               g == [f EXCEPT !.used = u]
    <3>1. g = [id |-> f.id, used |-> u, left |-> f.left]
      <4> HIDE DEF f, u, l
      <4> QED
        BY <2>1
    <3>2. [g EXCEPT !.left = l] = [id |-> f.id, used |-> u, left |-> l]
      <4> HIDE DEF f, u, l, g
      <4> QED
        BY <2>1, <3>1
    <3>3. d = [g EXCEPT !.left = l]
      <4> HIDE DEF f
      <4> QED
        BY Zenon
    <3> QED
      BY <3>2, <3>3, Zenon
  <2> QED
    BY <2>3, <2>4
<1>6. o \in ObjectRecord
  <2> HIDE DEF f
  <2> QED
    BY <1>3, HeadersType DEF ObjectRecord, Entry
<1>7. /\ f = m.small_list[pool][k] /\ e = [id |-> f.id, used |-> f.used + size, left |-> f.left - size]
       /\ o = [pool |-> pool, chunk |-> f.id, from |-> SmallHdr + f.used, size |-> size]
  OBVIOUS
<1> HIDE DEF d, e, o, f
<1>8. s \in Seq(Entry)
  <2> HIDE DEF old
  <2> QED
    BY <1>2, <1>5
<1>9. [m EXCEPT !.small_list[pool][k] = e, !.last = o]
        = [m EXCEPT !.small_list = [m.small_list EXCEPT ![pool] = s], !.last = o]
  BY Zenon
<1>10. Carved(m, pool, k, size) = [m EXCEPT !.small_list = [m.small_list EXCEPT ![pool] = s], !.last = o]
  BY <1>1, <1>5, <1>9, Zenon
<1>11. s = [m.small_list[pool] EXCEPT ![k] = e]
  OBVIOUS
<1> HIDE DEF s, old
<1>12. /\ f = m.small_list[pool][k] /\ e = [id |-> f.id, used |-> f.used + size, left |-> f.left - size]
       /\ s = [m.small_list[pool] EXCEPT ![k] = e]
       /\ o = [pool |-> pool, chunk |-> f.id, from |-> SmallHdr + f.used, size |-> size]
       /\ Carved(m, pool, k, size) = [m EXCEPT !.small_list = [m.small_list EXCEPT ![pool] = s], !.last = o]
  BY <1>10, <1>7, <1>11, Zenon
<1>13. f \in Entry /\ e \in Entry /\ s \in Seq(Entry) /\ o \in ObjectRecord
  BY <1>3, <1>5, <1>6, <1>8, Zenon
<1> DEFINE n == Carved(m, pool, k, size)
<1> HIDE DEF n
<1>14. \E f2 \in Entry, e2 \in Entry, s2 \in Seq(Entry), o2 \in ObjectRecord :
         /\ f2 = m.small_list[pool][k] /\ e2 = [id |-> f2.id, used |-> f2.used + size, left |-> f2.left - size]
         /\ s2 = [m.small_list[pool] EXCEPT ![k] = e2]
         /\ o2 = [pool |-> pool, chunk |-> f2.id, from |-> SmallHdr + f2.used, size |-> size]
         /\ n = [m EXCEPT !.small_list = [m.small_list EXCEPT ![pool] = s2], !.last = o2]
  <2> f \in Entry /\ e \in Entry /\ s \in Seq(Entry) /\ o \in ObjectRecord
    BY <1>13
  <2> WITNESS f \in Entry, e \in Entry, s \in Seq(Entry), o \in ObjectRecord
  <2> QED
    BY <1>12, Zenon DEF n
<1> QED
  BY <1>14, Zenon DEF Carving, n

LEMMA CarvedRight ==
  ASSUME NEW m, PoolsRight(m), NEW pool \in Pools, NEW k \in DOMAIN m.small_list[pool],
         NEW size \in Nat, Multiple(size), size <= m.small_list[pool][k].left, Fine(m)
  PROVE  Allocated(m, Carved(m, pool, k, size))
<1> DEFINE n == Carved(m, pool, k, size)
           a == <<"small", pool>>
           L == ListsOf(m)
           M == ListsOf(n)
           old == L[a]
<1>1. m \in MemoryRecord /\ ChunksRight(m) /\ ListsMatch(L, m.chunks) /\ SmallAligned(L) /\ \E d \in m.chunks : d.id = 1
  BY DEF PoolsRight
<1>2. /\ L \in [Lists -> Seq(Entry)] /\ a \in Lists /\ L[a] = m.small_list[pool] /\ Header(a) = SmallHdr /\ a[2] = pool
  BY <1>1, ListsType
<1>3. k \in DOMAIN old /\ old \in Seq(Entry)
  <2> HIDE DEF a, L
  <2> QED
    BY <1>2
<1>4. Carving(m, pool, k, size, n)
  BY <1>1, CarvedIs
<1> HIDE DEF n
<1>5. PICK f \in Entry, e \in Entry, s \in Seq(Entry), o \in ObjectRecord :
        /\ f = m.small_list[pool][k] /\ e = [id |-> f.id, used |-> f.used + size, left |-> f.left - size]
        /\ s = [m.small_list[pool] EXCEPT ![k] = e]
        /\ o = [pool |-> pool, chunk |-> f.id, from |-> SmallHdr + f.used, size |-> size]
        /\ n = [m EXCEPT !.small_list = [m.small_list EXCEPT ![pool] = s], !.last = o]
  BY <1>4 DEF Carving
<1>6. /\ f.id \in Nat /\ f.used \in Nat /\ f.left \in Nat
      /\ e.id = f.id /\ e.used = f.used + size /\ e.left = f.left - size /\ old[k] = f
      /\ o.pool = pool /\ o.chunk = f.id /\ o.from = SmallHdr + f.used /\ o.size = size
  <2>1. f.id \in Nat /\ f.used \in Nat /\ f.left \in Nat
    BY DEF Entry
  <2>2. e.id = f.id /\ e.used = f.used + size /\ e.left = f.left - size
    BY <1>5
  <2>3. o.pool = pool /\ o.chunk = f.id /\ o.from = SmallHdr + f.used /\ o.size = size
    BY <1>5
  <2>4. old[k] = f
    BY <1>2, <1>5
  <2> QED
    BY <2>1, <2>2, <2>3, <2>4
<1> DEFINE lists == [m.small_list EXCEPT ![pool] = s]
<1>7. s = [old EXCEPT ![k] = e] /\ n = [m EXCEPT !.small_list = lists, !.last = o]
  BY <1>2, <1>5
<1>8. lists \in [Pools -> Seq(Entry)]
  BY <1>1 DEF MemoryRecord
<1> HIDE DEF L, M, a, old, lists
<1>9. s[k] = e /\ DOMAIN s = DOMAIN old /\ \A i \in DOMAIN old : i # k => s[i] = old[i]
  BY <1>3, <1>7
<1>10. /\ n \in MemoryRecord /\ n.small_list = lists /\ n.large_list = m.large_list /\ n.chunks = m.chunks
      /\ n.total = m.total /\ n.files = m.files /\ n.error = m.error /\ n.last = o
  BY <1>1, <1>7, <1>8 DEF MemoryRecord
<1>11. M = [L EXCEPT ![a] = s] /\ M \in [Lists -> Seq(Entry)]
  <2>1. ListsOf(n) = [ListsOf(m) EXCEPT ![<<"small", pool>>] = s]
    <3>1. n.small_list = [m.small_list EXCEPT ![pool] = s]
      BY <1>10 DEF lists
    <3>2. m \in MemoryRecord /\ n \in MemoryRecord /\ n.large_list = m.large_list
      BY <1>1, <1>10
    <3> QED
      BY <3>1, <3>2, SmallChanged
  <2>2. ListsOf(n) \in [Lists -> Seq(Entry)]
    BY <1>10, ListsType
  <2> QED
    BY <2>1, <2>2 DEF L, M, a
<1>12. L[a] = old /\ M[a] = s /\ \A q \in Lists : q # a => M[q] = L[q]
  BY <1>2, <1>11 DEF old
<1>13. e.used + e.left = f.used + f.left /\ e.used >= f.used /\ SmallHdr + e.used = o.from + o.size /\ o.from - SmallHdr = f.used
  <2> DEFINE u == f.used
             l == f.left
  <2>1. u \in Nat /\ l \in Nat /\ e.used = u + size /\ e.left = l - size /\ o.from = SmallHdr + u /\ o.size = size /\ SmallHdr \in Nat
    BY <1>6, HeadersType
  <2> HIDE DEF u, l
  <2>2. e.used + e.left = u + l /\ e.used >= u /\ SmallHdr + e.used = o.from + o.size /\ o.from - SmallHdr = u
    <3>1. e.used + e.left = u + l
      BY <2>1
    <3>2. e.used >= u
      BY <2>1
    <3>3. SmallHdr + e.used = o.from + o.size
      BY <2>1
    <3>4. o.from - SmallHdr = u
      BY <2>1
    <3> QED
      BY <3>1, <3>2, <3>3, <3>4
  <2> QED
    BY <2>2 DEF u, l
<1>14. ListsMatch(M, n.chunks)
  <2>1. k \in DOMAIN L[a] /\ e.id = L[a][k].id /\ e.used + e.left = L[a][k].used + L[a][k].left
    <3>1. k \in DOMAIN L[a] /\ L[a][k] = f
      BY <1>3, <1>6, <1>12
    <3> QED
      BY <1>6, <1>13, <3>1
  <2>2. m.chunks \in SUBSET Chunk
    BY <1>1 DEF MemoryRecord
  <2>3. ListsMatch([L EXCEPT ![a] = [@ EXCEPT ![k] = e]], m.chunks)
    BY <1>1, <1>2, <2>1, <2>2, EntryChanged
  <2>4. [L EXCEPT ![a] = [@ EXCEPT ![k] = e]] = [L EXCEPT ![a] = s]
    BY <1>2, <1>7, <1>12
  <2> QED
    BY <1>10, <1>11, <2>3, <2>4, Zenon
<1>15. Multiple(f.used)
  <2>1. Multiple(L[<<"small", pool>>][k].used)
    BY <1>1, <1>3, <1>12 DEF SmallAligned, a
  <2> QED
    BY <1>6, <1>12, <2>1 DEF a
<1>16. SmallAligned(M)
  <2> SUFFICES ASSUME NEW p \in Pools, NEW i \in DOMAIN M[<<"small", p>>]
               PROVE  Multiple(M[<<"small", p>>][i].used)
    BY DEF SmallAligned
  <2>1. CASE p = pool
    <3>1. M[<<"small", p>>] = s /\ L[<<"small", p>>] = old
      BY <1>12, <2>1 DEF a
    <3>2. i \in DOMAIN old /\ Multiple(old[i].used)
      BY <1>1, <1>9, <2>1, <3>1 DEF SmallAligned
    <3>3. Multiple(e.used)
      <4> DEFINE u == f.used
      <4>1. u \in Int /\ size \in Int /\ Multiple(u) /\ Multiple(size)
        BY <1>6, <1>15
      <4> HIDE DEF u
      <4>2. Multiple(u + size)
        BY <4>1, Multiples
      <4>3. Multiple(f.used + size)
        BY <4>2 DEF u
      <4> QED
        BY <1>6, <4>3, Zenon
    <3> QED
      BY <1>9, <3>1, <3>2, <3>3
  <2>2. CASE p # pool
    <3>1. <<"small", p>> # a /\ <<"small", p>> \in Lists
      BY <2>2 DEF a, Lists
    <3>2. M[<<"small", p>>] = L[<<"small", p>>]
      BY <1>12, <3>1
    <3> QED
      BY <1>1, <3>2 DEF SmallAligned
  <2> QED
    BY <2>1, <2>2
<1>17. Grown(L, M)
  <2> SUFFICES ASSUME NEW q \in Lists, NEW i \in DOMAIN L[q]
               PROVE  i \in DOMAIN M[q] /\ M[q][i].id = L[q][i].id /\ M[q][i].used >= L[q][i].used
    BY DEF Grown
  <2>1. L[q][i].used \in Nat
    BY <1>2, PlaceType
  <2>2. CASE q = a /\ i = k
    <3>1. i \in DOMAIN M[q] /\ M[q][i] = e /\ L[q][i] = f
      BY <1>6, <1>12, <1>9, <2>2
    <3> QED
      BY <1>6, <1>13, <3>1
  <2>3. CASE q = a /\ i # k
    <3>1. i \in DOMAIN M[q] /\ M[q][i] = L[q][i]
      BY <1>12, <1>9, <2>3
    <3> QED
      BY <2>1, <3>1
  <2>4. CASE q # a
    <3>1. M[q] = L[q]
      BY <1>12, <2>4
    <3> QED
      BY <2>1, <3>1
  <2> QED
    BY <2>2, <2>3, <2>4
<1>18. PoolsRight(n)
  <2>1. ChunksRight(n) /\ \E d \in n.chunks : d.id = 1
    BY <1>1, <1>10 DEF ChunksRight
  <2> QED
    BY <1>10, <1>14, <1>16, <2>1 DEF PoolsRight, M
<1>19. ASSUME NEW objs \in SUBSET ObjectRecord, ObjectsRight(L, objs)
       PROVE  ObjectsRight(M, objs \cup {o})
  <2>1. Lies(o, M)
    <3>1. M[a][k] = e /\ k \in DOMAIN M[a] /\ a[2] = pool
      BY <1>2, <1>3, <1>12, <1>9
    <3>2. o.from + o.size <= Header(a) + e.used
      <4>1. Header(a) + e.used = o.from + o.size /\ o.from + o.size \in Nat
        BY <1>2, <1>13 DEF ObjectRecord
      <4> QED
        BY <4>1
    <3> QED
      BY <1>2, <1>6, <3>1, <3>2 DEF Lies
  <2>2. Multiple(o.from - SmallHdr)
    <3>1. o.from - SmallHdr = f.used
      BY <1>13, Zenon
    <3> QED
      BY <1>15, <3>1
  <2>3. ASSUME NEW q \in Lists, NEW i \in DOMAIN L[q], L[q][i].id = o.chunk
        PROVE  o.from >= Header(q) + L[q][i].used
    <3>1. L[a][k].id = o.chunk /\ k \in DOMAIN L[a]
      BY <1>3, <1>6, <1>12
    <3>2. q = a /\ i = k
      <4>1. \A p, r \in Lists : \A h \in DOMAIN L[p], j \in DOMAIN L[r] : L[p][h].id = L[r][j].id => p = r /\ h = j
        BY <1>1 DEF ListsMatch
      <4>2. L[q][i].id = L[a][k].id
        BY <2>3, <3>1
      <4> QED
        BY <1>2, <3>1, <4>1, <4>2
    <3>3. L[q][i] = f
      BY <1>6, <1>12, <3>2
    <3> QED
      <4>1. Header(q) + L[q][i].used = SmallHdr + f.used /\ o.from = SmallHdr + f.used
        BY <1>2, <1>6, <3>2, <3>3
      <4>2. SmallHdr + f.used \in Nat
        BY <1>6, HeadersType
      <4> QED
        BY <4>1, <4>2
  <2> QED
    BY <1>2, <1>11, <1>17, <1>19, <2>1, <2>2, <2>3, ObjectAdded
<1>20. Object(n) = {o}
  BY <1>10, ObjectOf, FineKept
<1>21. Allocated(m, n)
  <2>1. Fine(n)
    BY <1>10, FineKept
  <2>2. NoBug(n)
    BY <2>1, FineNoBug
  <2> QED
    BY <1>10, <1>17, <1>18, <1>19, <1>20, <2>2 DEF Allocated, L, M
<1> QED
  BY <1>21 DEF n

\* The errors a call reports.
LEMMA ReportedErrors ==
  Reported("out of memory") /\ Reported("width overflow") /\ Reported("no backing store")
  /\ Reported("tfile create") /\ Reported("bad access")
BY Zenon DEF Reported, Errors

LEMMA OutOfMemory ==
  ASSUME NEW m, PoolsRight(m), NEW n, n = Failed(m, "out of memory")
  PROVE  Allocated(m, n)
<1>1. \E error : Reported(error) /\ n = Failed(m, error)
  BY ReportedErrors, Zenon
<1>2. PICK error : Reported(error) /\ n = Failed(m, error)
  BY <1>1
<1>3. Allocated(m, Failed(m, error))
  BY <1>2, FailedRight, Zenon
<1> QED
  BY <1>2, <1>3, Zenon

\* A chunk of its own for a large object.
LEMMA LargeRight ==
  ASSUME NEW m, PoolsRight(m), Fine(m), NEW pool \in Pools, NEW size \in Nat
  PROVE  Allocated(m, LargePlaced(m, pool, size))
<1> DEFINE total == size + LargeHdr
           g == jpeg_get(m, total)
           e == [id |-> g.last, used |-> size, left |-> 0]
           F == m.large_list
           s == <<e>> \o F[pool]
           lists == [F EXCEPT ![pool] = s]
           o == [pool |-> pool, chunk |-> g.last, from |-> LargeHdr, size |-> size]
           n == LargePlaced(m, pool, size)
           c == [id |-> FreshId(m), size |-> total]
           a == <<"large", pool>>
           L == ListsOf(m)
           M == ListsOf(n)
           old == L[a]
<1>1. CASE ~Fits(m, total)
  <2>1. n = Failed(m, "out of memory")
    BY <1>1, Zenon DEF LargePlaced
  <2> HIDE DEF n
  <2>2. Allocated(m, n)
    BY <2>1, OutOfMemory, Zenon
  <2> QED
    BY <2>2 DEF n
<1>2. CASE Fits(m, total)
  <2>1. m \in MemoryRecord /\ ChunksRight(m) /\ ListsMatch(L, m.chunks) /\ SmallAligned(L) /\ \E d \in m.chunks : d.id = 1
    BY DEF PoolsRight
  <2>2. total \in Int
    BY HeadersType
  <2>3. Got(m, total, g)
    <3> HIDE DEF total
    <3> QED
      BY <2>1, <2>2, GetRight
  <2>4. /\ g \in MemoryRecord /\ ChunksRight(g)
        /\ g.chunks = m.chunks \cup {c} /\ g.last = FreshId(m)
        /\ g.small_list = m.small_list /\ g.large_list = m.large_list /\ g.files = m.files /\ g.error = m.error
        /\ FreshId(m) \in Nat \ {0} /\ \A d \in m.chunks : d.id # FreshId(m)
    BY <2>3 DEF Got
  <2>5. n = [g EXCEPT !.large_list[pool] = s, !.last = o]
    <3>1. n = [g EXCEPT !.large_list[pool] = <<e>> \o @, !.last = o]
      BY <1>2 DEF LargePlaced
    <3>2. g.large_list[pool] = F[pool]
      BY <2>4
    <3> HIDE DEF g, n, F, e, o
    <3> QED
      BY <3>1, <3>2
  <2>6. e \in Entry /\ e.id = FreshId(m) /\ e.used = size /\ e.left = 0
    <3> HIDE DEF g, total
    <3> QED
      BY <2>4 DEF Entry
  <2>7. o \in ObjectRecord /\ o.pool = pool /\ o.chunk = FreshId(m) /\ o.from = LargeHdr /\ o.size = size
    <3> HIDE DEF g, total
    <3> QED
      BY <2>4, HeadersType DEF ObjectRecord
  <2>8. /\ L \in [Lists -> Seq(Entry)] /\ a \in Lists /\ L[a] = F[pool] /\ Header(a) = LargeHdr /\ a[2] = pool
    BY <2>1, ListsType
  <2>9. F \in [Pools -> Seq(Entry)] /\ old \in Seq(Entry)
    <3> HIDE DEF L, a
    <3> QED
      BY <2>1, <2>8 DEF MemoryRecord
  <2>10. s = <<e>> \o old
    BY <2>8
  <2> HIDE DEF g, n, total, e, o, s, L, M, a, old, F
  <2>11. /\ s \in Seq(Entry) /\ Len(s) = Len(old) + 1 /\ s[1] = e /\ Len(old) \in Nat
         /\ \A i \in DOMAIN old : s[i + 1] = old[i] /\ i + 1 \in DOMAIN s
    BY <2>6, <2>9, <2>10
  <2>12. lists \in [Pools -> Seq(Entry)]
    BY <2>9, <2>11
  <2>13. n = [g EXCEPT !.large_list = lists, !.last = o]
    <3>1. g.large_list = F
      BY <2>4 DEF F
    <3> QED
      BY <2>5, <3>1
  <2> HIDE DEF lists
  <2>14. /\ n \in MemoryRecord /\ n.small_list = m.small_list /\ n.large_list = lists /\ n.chunks = g.chunks
         /\ n.total = g.total /\ n.files = m.files /\ n.error = m.error /\ n.last = o
    BY <2>4, <2>7, <2>12, <2>13 DEF MemoryRecord
  <2>15. M = [L EXCEPT ![a] = s] /\ M \in [Lists -> Seq(Entry)]
    <3>1. ListsOf(n) = [ListsOf(m) EXCEPT ![<<"large", pool>>] = s]
      <4>1. n.large_list = [m.large_list EXCEPT ![pool] = s]
        BY <2>14 DEF lists, F
      <4>2. m \in MemoryRecord /\ n \in MemoryRecord /\ n.small_list = m.small_list
        BY <2>1, <2>14
      <4> QED
        BY <4>1, <4>2, LargeChanged, SMTT(30)
    <3>2. ListsOf(n) \in [Lists -> Seq(Entry)]
      BY <2>14, ListsType
    <3> QED
      BY <3>1, <3>2 DEF L, M, a
  <2>16. L[a] = old /\ M[a] = s /\ \A q \in Lists : q # a => M[q] = L[q]
    BY <2>8, <2>15 DEF old
  <2>17. ListsMatch(M, n.chunks)
    <3>1. c \in Chunk /\ c.id = e.id /\ c.size = e.used + e.left + Header(a) /\ \A d \in m.chunks : d.id # e.id
      BY <2>4, <2>6, <2>8, HeadersType DEF Chunk, total
    <3>2. m.chunks \in SUBSET Chunk /\ n.chunks = m.chunks \cup {c}
      BY <2>1, <2>4, <2>14 DEF MemoryRecord
    <3>3. /\ Len(s) = Len(L[a]) + 1 /\ s[IF 1 = 0 THEN Len(s) ELSE 1] = e
          /\ \A i \in DOMAIN L[a] : s[i + 1] = L[a][i]
      BY <2>11, <2>16
    <3> HIDE DEF c
    <3>4. ListsMatch([L EXCEPT ![a] = s], m.chunks \cup {c})
      BY <2>1, <2>6, <2>8, <2>11, <3>1, <3>2, <3>3, EntryAdded, ZenonT(60)
    <3> QED
      BY <2>15, <3>2, <3>4
  <2>18. SmallAligned(M)
    <3>1. \A p \in Pools : <<"small", p>> # a /\ <<"small", p>> \in Lists
      BY DEF a, Lists
    <3>2. \A p \in Pools : M[<<"small", p>>] = L[<<"small", p>>]
      BY <2>16, <3>1
    <3> QED
      BY <2>1, <3>2 DEF SmallAligned
  <2>19. Grown(L, M)
    <3> SUFFICES ASSUME NEW q \in Lists, NEW i \in DOMAIN L[q]
                 PROVE  \E j \in DOMAIN M[q] : M[q][j].id = L[q][i].id /\ M[q][j].used >= L[q][i].used
      BY DEF Grown
    <3>1. L[q][i].used \in Nat
      BY <2>8, PlaceType
    <3>2. \E j \in DOMAIN M[q] : M[q][j] = L[q][i]
      <4>1. CASE q = a
        BY <2>11, <2>16, <4>1
      <4>2. CASE q # a
        BY <2>16, <4>2
      <4> QED
        BY <4>1, <4>2
    <3> QED
      BY <3>1, <3>2
  <2>20. PoolsRight(n)
    <3>1. ChunksRight(n) /\ \E d \in n.chunks : d.id = 1
      BY <2>1, <2>4, <2>14 DEF ChunksRight
    <3> QED
      BY <2>14, <2>17, <2>18, <3>1 DEF PoolsRight, M
  <2>21. ASSUME NEW objs \in SUBSET ObjectRecord, ObjectsRight(L, objs)
         PROVE  ObjectsRight(M, objs \cup {o})
    <3>1. Lies(o, M)
      <4>1. M[a][1] = e /\ 1 \in DOMAIN M[a] /\ a[2] = pool
        BY <2>8, <2>11, <2>16
      <4>2. o.from + o.size <= Header(a) + e.used
        BY <2>6, <2>7, <2>8, HeadersType
      <4> QED
        BY <2>6, <2>7, <2>8, <4>1, <4>2 DEF Lies
    <3>2. Multiple(o.from - SmallHdr)
      <4>1. Multiple(LargeHdr - SmallHdr)
        BY HeadersType, Multiples
      <4> QED
        BY <2>7, <4>1
    <3>3. ASSUME NEW q \in Lists, NEW i \in DOMAIN L[q], L[q][i].id = o.chunk
          PROVE  FALSE
      <4>1. PICK d \in m.chunks : d.id = L[q][i].id
        BY <2>1 DEF ListsMatch
      <4> QED
        BY <2>4, <2>7, <3>3, <4>1
    <3> QED
      BY <2>7, <2>8, <2>15, <2>19, <2>21, <3>1, <3>2, <3>3, ObjectAdded
  <2>22. Object(n) = {o}
    BY <2>14, ObjectOf, FineKept
  <2>23. Allocated(m, n)
    <3>1. Fine(n)
      BY <2>14, FineKept
    <3>2. NoBug(n)
      BY <3>1, FineNoBug
    <3> QED
      BY <2>14, <2>19, <2>20, <2>21, <2>22, <3>2 DEF Allocated, L, M
  <2> QED
    BY <2>23 DEF n
<1> QED
  BY <1>1, <1>2

\* The greatest and the least of a finite set of numbers.
LEMMA MaxIn ==
  ASSUME NEW S, IsFiniteSet(S), S \subseteq Int, S # {}
  PROVE  Max(S) \in S /\ \A x \in S : x <= Max(S)
<1> DEFINE G == {T \in SUBSET S : T = {} \/ \E x \in T : \A y \in T : x >= y}
<1>1. {} \in G
  OBVIOUS
<1>2. ASSUME NEW T \in SUBSET S, T \in G, NEW x \in S \ T
      PROVE  T \cup {x} \in G
  <2>1. CASE T = {}
    BY <2>1
  <2>2. CASE T # {}
    <3>1. PICK y \in T : \A z \in T : y >= z
      BY <1>2, <2>2
    <3>2. CASE x >= y
      BY <3>1, <3>2
    <3>3. CASE ~(x >= y)
      BY <3>1, <3>3
    <3> QED
      BY <3>2, <3>3
  <2> QED
    BY <2>1, <2>2
<1>3. S \in G
  <2> HIDE DEF G
  <2> QED
    BY <1>1, <1>2, SetInduction
<1>4. \E x \in S : \A y \in S : x >= y
  BY <1>3
<1>5. Max(S) \in S /\ \A y \in S : Max(S) >= y
  BY <1>4 DEF Max
<1> QED
  BY <1>5

LEMMA MinIn ==
  ASSUME NEW S, IsFiniteSet(S), S \subseteq Int, S # {}
  PROVE  Min(S) \in S
<1> DEFINE G == {T \in SUBSET S : T = {} \/ \E x \in T : \A y \in T : x <= y}
<1>1. {} \in G
  OBVIOUS
<1>2. ASSUME NEW T \in SUBSET S, T \in G, NEW x \in S \ T
      PROVE  T \cup {x} \in G
  <2>1. CASE T = {}
    BY <2>1
  <2>2. CASE T # {}
    <3>1. PICK y \in T : \A z \in T : y <= z
      BY <1>2, <2>2
    <3>2. CASE x <= y
      BY <3>1, <3>2
    <3>3. CASE ~(x <= y)
      BY <3>1, <3>3
    <3> QED
      BY <3>2, <3>3
  <2> QED
    BY <2>1, <2>2
<1>3. S \in G
  <2> HIDE DEF G
  <2> QED
    BY <1>1, <1>2, SetInduction
<1>4. \E x \in S : \A y \in S : x <= y
  BY <1>3
<1> QED
  BY <1>4 DEF Min

\* The chunk an object is put into has room for it.
LEMMA RoomFound ==
  ASSUME NEW m \in MemoryRecord, NEW pool \in Pools, NEW size \in Nat, FirstWithRoom(m, pool, size) # 0
  PROVE  /\ FirstWithRoom(m, pool, size) \in DOMAIN m.small_list[pool]
         /\ size <= m.small_list[pool][FirstWithRoom(m, pool, size)].left
<1> DEFINE s == m.small_list[pool]
           I == {i \in 1 .. Len(s) : s[i].left >= size}
<1>1. s \in Seq(Entry)
  BY DEF MemoryRecord
<1> HIDE DEF s
<1>2. Len(s) \in Nat /\ DOMAIN s = 1 .. Len(s)
  BY <1>1
<1>3. FirstWithRoom(m, pool, size) = IF I # {} THEN Min(I) ELSE 0
  BY DEF FirstWithRoom, SelectInSeq, s
<1>4. I # {} /\ FirstWithRoom(m, pool, size) = Min(I)
  BY <1>3
<1>5. IsFiniteSet(1 .. Len(s)) /\ I \subseteq 1 .. Len(s) /\ I \subseteq Int
  BY <1>2, FS_Interval
<1> HIDE DEF I
<1>6. IsFiniteSet(I)
  BY <1>5, FS_Subset
<1>7. Min(I) \in I
  BY <1>4, <1>5, <1>6, MinIn
<1>8. FirstWithRoom(m, pool, size) \in I
  BY <1>4, <1>7, Zenon
<1>9. \A i \in I : i \in DOMAIN s /\ s[i].left >= size /\ s[i].left \in Nat
  <2>1. \A i \in DOMAIN s : s[i] \in Entry
    BY <1>1
  <2> QED
    BY <1>2, <2>1 DEF I, Entry
<1> QED
  BY <1>8, <1>9 DEF s

\* The room to spare that a new chunk has is never negative.
LEMMA SlopFound ==
  ASSUME NEW m, NEW pool \in Pools, NEW size \in Nat, size <= MAX_ALLOC_CHUNK - SmallHdr, Slops(m, pool, size) # {}
  PROVE  Max(Slops(m, pool, size)) \in Nat
<1> DEFINE wanted == IF m.small_list[pool] = << >> THEN FirstSlop[pool] ELSE ExtraSlop[pool]
           room == MAX_ALLOC_CHUNK - (size + SmallHdr)
           first == Lesser(wanted, room)
           H == HalvedSlops(first)
           S == Slops(m, pool, size)
<1>1. wanted \in Nat
  BY MemoryAssumption
<1>2. room \in Nat
  BY HeadersType
<1> HIDE DEF wanted, room
<1>3. first \in Nat
  BY <1>1, <1>2 DEF Lesser
<1>4. S \subseteq {first} \cup H
  BY DEF Slops, wanted, room
<1> HIDE DEF first
<1>5. H \subseteq MIN_SLOP .. first \div 2
  BY DEF HalvedSlops
<1>6. MIN_SLOP \in Nat /\ first \div 2 \in Nat /\ first \div 2 <= first
  BY <1>3, MemoryAssumption
<1> HIDE DEF S, H
<1>7. S \subseteq 0 .. first
  BY <1>3, <1>4, <1>5, <1>6
<1>8. S \subseteq Nat
  BY <1>3, <1>7
<1>9. IsFiniteSet(S)
  <2>1. IsFiniteSet(0 .. first)
    BY <1>3, FS_Interval
  <2> QED
    BY <1>7, <2>1, FS_Subset, Zenon
<1>10. S # {}
  BY DEF S
<1>11. Max(S) \in S
  <2>1. S \subseteq Int
    BY <1>8
  <2> QED
    BY <1>9, <1>10, <2>1, MaxIn
<1> QED
  BY <1>8, <1>11 DEF S

LEMMA PoolsType ==
  ASSUME NEW m, PoolsRight(m)
  PROVE  m \in MemoryRecord /\ ListsOf(m) \in [Lists -> Seq(Entry)]
<1>1. m \in MemoryRecord
  BY DEF PoolsRight
<1> QED
  BY <1>1, ListsType

\* What a chunk more and then an allocation from it do together.
LEMMA GrownAllocated ==
  ASSUME NEW m, NEW g, NEW n, PoolsRight(m), PoolsRight(g), Grown(ListsOf(m), ListsOf(g)), g.files = m.files, Allocated(g, n)
  PROVE  Allocated(m, n)
<1> DEFINE L == ListsOf(m)
           M == ListsOf(g)
           N == ListsOf(n)
<1>1. PoolsRight(n) /\ Grown(M, N) /\ n.files = g.files /\ NoBug(n)
      /\ \A objs \in SUBSET ObjectRecord : ObjectsRight(M, objs) => ObjectsRight(N, objs \cup Object(n))
  BY DEF Allocated
<1>2. L \in [Lists -> Seq(Entry)] /\ M \in [Lists -> Seq(Entry)] /\ N \in [Lists -> Seq(Entry)]
  BY <1>1, PoolsType
<1> HIDE DEF L, M, N
<1>3. Grown(L, M)
  BY DEF L, M
<1>4. Grown(L, N)
  BY <1>1, <1>2, <1>3, GrownTransitive
<1>5. ASSUME NEW objs \in SUBSET ObjectRecord, ObjectsRight(L, objs)
      PROVE  ObjectsRight(N, objs \cup Object(n))
  <2>1. ObjectsRight(M, objs)
    BY <1>2, <1>3, <1>5, ObjectsStay
  <2> QED
    BY <1>1, <2>1
<1> QED
  BY <1>1, <1>4, <1>5 DEF Allocated, L, N

\* A small object, from the first chunk with room or from a new one.
LEMMA SmallPlacedRight ==
  ASSUME NEW m, PoolsRight(m), Fine(m), NEW pool \in Pools, NEW size \in Nat, Multiple(size), size <= MAX_ALLOC_CHUNK - SmallHdr
  PROVE  Allocated(m, SmallPlaced(m, pool, size))
<1> DEFINE k == FirstWithRoom(m, pool, size)
           slop == Max(Slops(m, pool, size))
           g == NewSmallChunk(m, pool, size, slop)
           j == Len(m.small_list[pool]) + 1
           n == SmallPlaced(m, pool, size)
<1> HIDE DEF k, slop, g, j, n
<1>1. m \in MemoryRecord
  BY PoolsType
<1>2. CASE k # 0
  <2>1. k \in DOMAIN m.small_list[pool] /\ size <= m.small_list[pool][k].left
    BY <1>1, <1>2, RoomFound DEF k
  <2>2. Allocated(m, Carved(m, pool, k, size))
    BY <2>1, CarvedRight
  <2>3. n = Carved(m, pool, k, size)
    BY <1>2 DEF SmallPlaced, n, k
  <2> QED
    BY <2>2, <2>3, Zenon DEF n
<1>3. CASE k = 0 /\ Slops(m, pool, size) = {}
  <2>1. n = Failed(m, "out of memory")
    BY <1>3, Zenon DEF SmallPlaced, n, k
  <2> QED
    BY <2>1, OutOfMemory, Zenon DEF n
<1>4. CASE k = 0 /\ Slops(m, pool, size) # {}
  <2>1. slop \in Nat
    BY <1>4, SlopFound DEF slop
  <2>2. Longer(m, pool, size + slop, g)
    BY <2>1, SmallChunkAdded DEF g
  <2>3. /\ PoolsRight(g) /\ Grown(ListsOf(m), ListsOf(g)) /\ g.files = m.files /\ g.error = m.error
        /\ Len(g.small_list[pool]) = j /\ g.small_list[pool][j].left = size + slop
    BY <2>2 DEF Longer, j
  <2>4. j \in DOMAIN g.small_list[pool] /\ size <= g.small_list[pool][j].left
    <3>1. g.small_list[pool] \in Seq(Entry) /\ m.small_list[pool] \in Seq(Entry)
      BY <1>1, <2>3, PoolsType, ListsType
    <3>2. j \in Nat \ {0}
      <4>1. Len(m.small_list[pool]) \in Nat
        BY <3>1
      <4> QED
        BY <4>1 DEF j
    <3>3. DOMAIN g.small_list[pool] = 1 .. j
      BY <2>3, <3>1
    <3> QED
      BY <2>1, <2>3, <3>2, <3>3
  <2>5. Fine(g)
    BY <2>3, FineKept
  <2>6. Allocated(g, Carved(g, pool, j, size))
    BY <2>3, <2>4, <2>5, CarvedRight
  <2>7. n = Carved(g, pool, j, size)
    BY <1>4 DEF SmallPlaced, n, k, g, slop, j
  <2>8. Allocated(m, Carved(g, pool, j, size))
    BY <2>3, <2>6, GrownAllocated
  <2> QED
    BY <2>7, <2>8, Zenon DEF n
<1> QED
  BY <1>2, <1>3, <1>4

\* After an error nothing is allocated any more.
LEMMA NothingAllocated ==
  ASSUME NEW m, PoolsRight(m), NoBug(m), ~Fine(m)
  PROVE  Allocated(m, m)
<1>1. Grown(ListsOf(m), ListsOf(m))
  BY PoolsType, GrownReflexive
<1>2. Object(m) = {}
  BY ObjectOf
<1> QED
  BY <1>1, <1>2 DEF Allocated

\* Each of the two calls, whatever it comes to: an object, or an error.
LEMMA AllocSmallRight ==
  ASSUME NEW m, PoolsRight(m), NoBug(m), NEW pool \in Pools, NEW size \in Nat
  PROVE  Allocated(m, alloc_small(m, pool, size))
<1>1. CASE ~Fine(m)
  <2>1. alloc_small(m, pool, size) = m
    BY <1>1, Zenon DEF alloc_small, Fine
  <2>2. Allocated(m, m)
    BY <1>1, NothingAllocated
  <2> QED
    BY <2>1, <2>2, Zenon
<1>2. CASE Fine(m) /\ size > MAX_ALLOC_CHUNK - SmallHdr
  <2>1. alloc_small(m, pool, size) = Failed(m, "out of memory")
    BY <1>2, Zenon DEF alloc_small, Fine
  <2> QED
    BY <2>1, OutOfMemory, Zenon
<1>3. CASE Fine(m) /\ ~(size > MAX_ALLOC_CHUNK - SmallHdr)
  <2>1. alloc_small(m, pool, size) = SmallPlaced(m, pool, Rounded(size))
    BY <1>3, Zenon DEF alloc_small, Fine
  <2>2. size <= MAX_ALLOC_CHUNK - SmallHdr
    <3> DEFINE x == MAX_ALLOC_CHUNK - SmallHdr
    <3>1. x \in Int
      BY HeadersType
    <3>2. ~(size > x)
      BY <1>3, Zenon
    <3> HIDE DEF x
    <3>3. size <= x
      BY <3>1, <3>2
    <3> QED
      BY <3>3 DEF x
  <2>3. Rounded(size) \in Nat /\ Multiple(Rounded(size)) /\ Rounded(size) <= MAX_ALLOC_CHUNK - SmallHdr
    BY <2>2, RoundedUp
  <2>4. Allocated(m, SmallPlaced(m, pool, Rounded(size)))
    BY <1>3, <2>3, SmallPlacedRight
  <2> QED
    BY <2>1, <2>4, Zenon
<1> QED
  BY <1>1, <1>2, <1>3

LEMMA AllocLargeRight ==
  ASSUME NEW m, PoolsRight(m), NoBug(m), NEW pool \in Pools, NEW size \in Nat
  PROVE  Allocated(m, alloc_large(m, pool, size))
<1>1. CASE ~Fine(m)
  <2>1. alloc_large(m, pool, size) = m
    BY <1>1, Zenon DEF alloc_large, Fine
  <2>2. Allocated(m, m)
    BY <1>1, NothingAllocated
  <2> QED
    BY <2>1, <2>2, Zenon
<1>2. CASE Fine(m) /\ size > MAX_ALLOC_CHUNK - LargeHdr
  <2>1. alloc_large(m, pool, size) = Failed(m, "out of memory")
    BY <1>2, Zenon DEF alloc_large, Fine
  <2> QED
    BY <2>1, OutOfMemory, Zenon
<1>3. CASE Fine(m) /\ ~(size > MAX_ALLOC_CHUNK - LargeHdr)
  <2>1. alloc_large(m, pool, size) = LargePlaced(m, pool, Rounded(size))
    BY <1>3, Zenon DEF alloc_large, Fine
  <2>2. Rounded(size) \in Nat
    BY RoundedUp
  <2>3. Allocated(m, LargePlaced(m, pool, Rounded(size)))
    BY <1>3, <2>2, LargeRight
  <2> QED
    BY <2>1, <2>3, Zenon
<1> QED
  BY <1>1, <1>2, <1>3

-----------------------------------------------------------------------------
(* Arrays, which are allocated a piece after the other.                    *)

\* The pieces of an array, one after the other.
Pieced(base, pool, rowsize, pieces) ==
  FoldLeft(LAMBDA n, rows : alloc_large(n, pool, rows * rowsize), base, pieces)
PieceStep(f, s, base, pool, rowsize, pieces) ==
  IF s = {} THEN base ELSE alloc_large(f[s \ {Max(s)}], pool, pieces[Max(s)] * rowsize)
PieceSteps(f, base, pool, rowsize, pieces) ==
  f = [s \in SUBSET (DOMAIN pieces) |-> PieceStep(f, s, base, pool, rowsize, pieces)]

\* The fold again as a function: of the first pieces, by how many they are.
LEMMA PiecedDef ==
  ASSUME NEW base, NEW pool, NEW rowsize, NEW pieces
  PROVE  Pieced(base, pool, rowsize, pieces) = (CHOOSE f : PieceSteps(f, base, pool, rowsize, pieces))[DOMAIN pieces]
BY DEF Pieced, FoldLeft, MapThenFoldSet, PieceSteps, PieceStep

LEMMA LastOf ==
  ASSUME NEW S, IsFiniteSet(S), S \subseteq Int, NEW T \in SUBSET S, T # {}
  PROVE  Max(T) \in T /\ Cardinality(T \ {Max(T)}) = Cardinality(T) - 1
<1>1. IsFiniteSet(T) /\ T \subseteq Int
  BY FS_Subset
<1>2. Max(T) \in T
  BY <1>1, MaxIn
<1> QED
  BY <1>1, <1>2, FS_RemoveElement

LEMMA PieceStepsExist ==
  ASSUME NEW pieces, IsFiniteSet(DOMAIN pieces), DOMAIN pieces \subseteq Int, NEW base, NEW pool, NEW rowsize
  PROVE  \E f : PieceSteps(f, base, pool, rowsize, pieces)
<1> DEFINE S == DOMAIN pieces
           Step(f, s) == PieceStep(f, s, base, pool, rowsize, pieces)
           Small(n) == {T \in SUBSET S : Cardinality(T) <= n}
           Below(n) == \E f : f = [s \in Small(n) |-> Step(f, s)]
           G == {n \in Nat : Below(n)}
<1>1. \A T \in SUBSET S : IsFiniteSet(T) /\ Cardinality(T) \in Nat
  BY FS_Subset, FS_CardinalityType
<1>2. 0 \in G
  <2>1. Small(0) = {{}}
    <3>1. \A T \in SUBSET S : Cardinality(T) = 0 <=> T = {}
      BY <1>1, FS_EmptySet
    <3>2. QED
      BY <1>1, <3>1
  <2>2. [s \in {{}} |-> base] = [s \in Small(0) |-> Step([t \in {{}} |-> base], s)]
    BY <2>1 DEF PieceStep
  <2>3. QED
    BY <2>2
<1>3. ASSUME NEW n \in Nat, n \in G PROVE n + 1 \in G
  <2>1. PICK f : f = [s \in Small(n) |-> Step(f, s)]
    BY <1>3
  <2> DEFINE g == [s \in Small(n + 1) |-> Step(f, s)]
  <2>2. ASSUME NEW s \in Small(n + 1), s # {}
        PROVE  s \ {Max(s)} \in Small(n)
    <3>1. Max(s) \in s /\ Cardinality(s \ {Max(s)}) = Cardinality(s) - 1
      BY <2>2, LastOf
    <3>2. QED
      BY <1>1, <3>1
  <2>3. ASSUME NEW s \in Small(n) PROVE s \in Small(n + 1) /\ f[s] = g[s]
    BY <1>1, <2>1
  <2>4. ASSUME NEW s \in Small(n + 1) PROVE Step(f, s) = Step(g, s)
    <3> HIDE DEF g, Small
    <3>1. QED
      BY <2>2, <2>3 DEF PieceStep
  <2>5. g = [s \in Small(n + 1) |-> Step(g, s)]
    BY <2>4
  <2> HIDE DEF g, Small
  <2>6. QED
    BY <2>5
<1>4. Cardinality(S) \in G
  <2> HIDE DEF G
  <2> QED
    BY <1>1, <1>2, <1>3, NumberInduction
<1>5. \A T \in SUBSET S : Cardinality(T) <= Cardinality(S)
  BY FS_Subset
<1>6. Small(Cardinality(S)) = SUBSET S
  BY <1>5
<1>7. QED
  BY <1>4, <1>6 DEF PieceSteps

\* What every piece keeps the whole array keeps.
LEMMA PiecedStays ==
  ASSUME NEW pieces, IsFiniteSet(DOMAIN pieces), DOMAIN pieces \subseteq Int, NEW pool, NEW rowsize,
         NEW Good, NEW base \in Good,
         \A g \in Good : \A i \in DOMAIN pieces : alloc_large(g, pool, pieces[i] * rowsize) \in Good
  PROVE  Pieced(base, pool, rowsize, pieces) \in Good
<1> DEFINE f == CHOOSE f : PieceSteps(f, base, pool, rowsize, pieces)
           S == DOMAIN pieces
           G == {n \in Nat : \A T \in SUBSET S : Cardinality(T) = n => f[T] \in Good}
<1>1. PieceSteps(f, base, pool, rowsize, pieces) /\ Pieced(base, pool, rowsize, pieces) = f[S]
  BY PieceStepsExist, PiecedDef
<1> HIDE DEF f
<1>2. \A T \in SUBSET S : IsFiniteSet(T) /\ Cardinality(T) \in Nat
  BY FS_Subset, FS_CardinalityType
<1>3. \A T \in SUBSET S : f[T] = PieceStep(f, T, base, pool, rowsize, pieces)
  BY <1>1 DEF PieceSteps
<1>4. 0 \in G
  <2>1. ASSUME NEW T \in SUBSET S, Cardinality(T) = 0 PROVE f[T] \in Good
    <3>1. T = {}
      BY <1>2, <2>1, FS_EmptySet
    <3> QED
      BY <1>3, <3>1 DEF PieceStep
  <2> QED
    BY <2>1
<1>5. ASSUME NEW n \in Nat, n \in G PROVE n + 1 \in G
  <2>1. ASSUME NEW T \in SUBSET S, Cardinality(T) = n + 1 PROVE f[T] \in Good
    <3> DEFINE c == Max(T)
    <3>1. T # {}
      <4>1. Cardinality(T) # 0
        BY <2>1
      <4>2. Cardinality({}) = 0
        BY FS_EmptySet
      <4> QED
        BY <4>1, <4>2, Zenon
    <3>2. c \in T /\ Cardinality(T \ {c}) = Cardinality(T) - 1
      BY <3>1, LastOf
    <3>3. f[T] = alloc_large(f[T \ {c}], pool, pieces[c] * rowsize)
      BY <1>3, <3>1, Zenon DEF PieceStep
    <3> HIDE DEF c
    <3>4. Cardinality(T \ {c}) = n /\ T \ {c} \in SUBSET S
      BY <2>1, <3>2
    <3>5. f[T \ {c}] \in Good
      BY <1>5, <3>4
    <3> QED
      BY <3>2, <3>3, <3>5
  <2> QED
    BY <2>1
<1>6. Cardinality(S) \in Nat /\ Cardinality(S) \in G
  <2> HIDE DEF G
  <2> QED
    BY <1>2, <1>4, <1>5, NumberInduction
<1> QED
  BY <1>1, <1>6

\* What a call keeps when its last object is not followed.
Enlarged(m, n) == PoolsRight(n) /\ Grown(ListsOf(m), ListsOf(n)) /\ n.files = m.files /\ NoBug(n)

LEMMA EnlargedOf ==
  ASSUME NEW m, NEW g, NEW n, PoolsRight(m), Enlarged(m, g), Allocated(g, n)
  PROVE  Enlarged(m, n)
<1>1. PoolsRight(g) /\ Grown(ListsOf(m), ListsOf(g)) /\ g.files = m.files
  BY DEF Enlarged
<1>2. Allocated(m, n)
  BY <1>1, GrownAllocated
<1> QED
  BY <1>2 DEF Allocated, Enlarged

\* An array, whole or in part: what an error leaves of it is still on the lists.
LEMMA ArrayAllocated ==
  ASSUME NEW m, PoolsRight(m), NoBug(m), NEW pool \in Pools, NEW rowsize \in Nat \ {0}, NEW numrows \in Nat \ {0}
  PROVE  Enlarged(m, alloc_array(m, pool, rowsize, numrows))
<1> DEFINE limit == MAX_ALLOC_CHUNK - LargeHdr
           whole == limit \div rowsize
           perchunk == Lesser(whole, numrows)
           count == (numrows + perchunk - 1) \div perchunk
           pieces == [k \in 1 .. count |-> Lesser(perchunk, numrows - (k - 1) * perchunk)]
           n == alloc_array(m, pool, rowsize, numrows)
<1>1. limit \in Int
  BY HeadersType
<1>2. CASE rowsize > limit
  <2>1. n = Failed(m, "width overflow")
    BY <1>2, Zenon DEF alloc_array
  <2> HIDE DEF n
  <2>2. PICK error : Reported(error) /\ n = Failed(m, error)
    BY <2>1, ReportedErrors, Zenon
  <2>3. Allocated(m, n)
    BY <2>2, FailedRight
  <2>4. Enlarged(m, n)
    BY <2>3 DEF Allocated, Enlarged
  <2> QED
    BY <2>4 DEF n
<1>3. CASE ~(rowsize > limit)
  <2>1. n = Pieced(alloc_small(m, pool, numrows), pool, rowsize, pieces)
    BY <1>3, Zenon DEF alloc_array, Pieced
  <2>2. whole \in Nat \ {0}
    <3> HIDE DEF limit
    <3>1. limit \in Nat /\ limit >= rowsize
      BY <1>1, <1>3
    <3>2. limit < (limit \div rowsize) * rowsize + rowsize /\ limit \div rowsize \in Nat
      BY <3>1, DivisionRange
    <3> HIDE DEF whole
    <3>3. limit < whole * rowsize + rowsize /\ whole \in Nat
      BY <3>2 DEF whole
    <3> QED
      BY <3>1, <3>3
  <2> HIDE DEF whole, n
  <2>3. perchunk \in Nat \ {0} /\ perchunk <= numrows
    BY <2>2 DEF Lesser
  <2> HIDE DEF perchunk
  <2>4. count \in Nat /\ count * perchunk <= numrows + perchunk - 1
    BY <2>3, DivisionRange
  <2> HIDE DEF count
  <2>5. ASSUME NEW k \in 1 .. count PROVE pieces[k] \in Nat /\ pieces[k] * rowsize \in Nat
    <3>1. k \in Int /\ k <= count /\ k >= 1
      BY <2>4
    <3>2. k * perchunk <= count * perchunk /\ k * perchunk \in Int /\ (k - 1) * perchunk = k * perchunk - 1 * perchunk
      BY <2>3, <2>4, <3>1, ProductOrder
    <3>3. (k - 1) * perchunk <= numrows - 1 /\ (k - 1) * perchunk \in Int
      <4> DEFINE x == k * perchunk
                 y == count * perchunk
                 z == (k - 1) * perchunk
      <4>1. x \in Int /\ y \in Int /\ z = x - 1 * perchunk /\ x <= y /\ y <= numrows + perchunk - 1
        BY <2>3, <2>4, <3>2
      <4> HIDE DEF x, y, z
      <4>2. z <= numrows - 1 /\ z \in Int
        BY <2>3, <4>1
      <4> QED
        BY <4>2 DEF z
    <3> DEFINE z == (k - 1) * perchunk
    <3>4. pieces[k] = Lesser(perchunk, numrows - z)
      BY DEF z
    <3> HIDE DEF pieces
    <3>5. z <= numrows - 1 /\ z \in Int
      BY <3>3
    <3> HIDE DEF z
    <3>6. pieces[k] \in Nat
      BY <2>3, <3>4, <3>5 DEF Lesser
    <3> QED
      BY <3>6
  <2>6. DOMAIN pieces = 1 .. count
    OBVIOUS
  <2> HIDE DEF pieces
  <2>7. IsFiniteSet(DOMAIN pieces) /\ DOMAIN pieces \subseteq Int
    BY <2>4, <2>6, FS_Interval
  <2> DEFINE base == alloc_small(m, pool, numrows)
             Good == {g \in MemoryRecord : Enlarged(m, g)}
  <2>8. base \in Good
    <3>1. Allocated(m, base)
      BY AllocSmallRight
    <3> HIDE DEF base
    <3>2. Enlarged(m, base)
      BY <3>1 DEF Allocated, Enlarged
    <3> QED
      BY <3>2, PoolsType DEF Enlarged
  <2>9. ASSUME NEW g \in Good, NEW i \in DOMAIN pieces
        PROVE  alloc_large(g, pool, pieces[i] * rowsize) \in Good
    <3> DEFINE size == pieces[i] * rowsize
               h == alloc_large(g, pool, size)
    <3>1. size \in Nat
      BY <2>5, <2>6
    <3>2. PoolsRight(g) /\ NoBug(g) /\ Enlarged(m, g)
      BY DEF Enlarged
    <3> HIDE DEF size
    <3>3. Allocated(g, h)
      BY <3>1, <3>2, AllocLargeRight
    <3> HIDE DEF h
    <3>4. Enlarged(m, h)
      BY <3>2, <3>3, EnlargedOf
    <3>5. h \in Good
      BY <3>4, PoolsType DEF Enlarged
    <3> QED
      BY <3>5 DEF h, size
  <2> HIDE DEF Good, base
  <2>10. Pieced(base, pool, rowsize, pieces) \in Good
    BY <2>7, <2>8, <2>9, PiecedStays
  <2>11. n \in Good
    BY <2>1, <2>10 DEF base
  <2> QED
    BY <2>11 DEF Good, n
<1> QED
  BY <1>2, <1>3

-----------------------------------------------------------------------------
(* Freeing a pool.                                                         *)

\* What is left when a pool is freed.
Freed(m, pool, n) ==
  /\ PoolsRight(n) /\ n.files = m.files /\ n.error = m.error
  /\ \A q \in Lists : ListsOf(n)[q] = IF q[2] = pool THEN << >> ELSE ListsOf(m)[q]

\* Every chunk of the pool goes back to the system and off the total.
LEMMA FreeRight ==
  ASSUME NEW m, PoolsRight(m), NEW pool \in Pools
  PROVE  Freed(m, pool, free_pool(m, pool))
<1> DEFINE n == free_pool(m, pool)
           L == ListsOf(m)
           M == ListsOf(n)
           small == <<"small", pool>>
           large == <<"large", pool>>
           A == InList(L, small, m.chunks)
           B == InList(L, large, m.chunks)
           rest == m.chunks \ (A \cup B)
           space == SumOf(ToSet(L[large]), Space(L[large], LargeHdr)) + SumOf(ToSet(L[small]), Space(L[small], SmallHdr))
           larges == [m.large_list EXCEPT ![pool] = << >>]
           smalls == [m.small_list EXCEPT ![pool] = << >>]
           chunks == {c \in m.chunks : c.id \notin {d.id : d \in ChunksOf(m, pool)}}
           total == m.total - SpaceFreed(m, pool)
<1>1. m \in MemoryRecord /\ ChunksRight(m) /\ ListsMatch(L, m.chunks) /\ SmallAligned(L) /\ \E d \in m.chunks : d.id = 1
  BY DEF PoolsRight
<1>2. /\ L \in [Lists -> Seq(Entry)]
      /\ small \in Lists /\ L[small] = m.small_list[pool] /\ large \in Lists /\ L[large] = m.large_list[pool]
      /\ m.small_list \in [Pools -> Seq(Entry)] /\ m.large_list \in [Pools -> Seq(Entry)]
      /\ m.chunks \in SUBSET Chunk /\ IsFiniteSet(m.chunks) /\ Numbered(m.chunks)
  <2>1. m.small_list \in [Pools -> Seq(Entry)] /\ m.large_list \in [Pools -> Seq(Entry)] /\ m.chunks \in SUBSET Chunk
    BY <1>1 DEF MemoryRecord
  <2>2. IsFiniteSet(m.chunks) /\ Numbered(m.chunks)
    BY <1>1 DEF ChunksRight
  <2> QED
    BY <1>1, <2>1, <2>2, ListsType
<1>3. /\ ListsMatch([L EXCEPT ![small] = << >>, ![large] = << >>], rest)
      /\ SizeOfChunks(rest) = SizeOfChunks(m.chunks) - space
  <2>1. PoolGone(L, m.chunks, pool)
    <3> HIDE DEF L
    <3> QED
      BY <1>1, <1>2, PoolFreed
  <2> HIDE DEF L
  <2> QED
    BY <2>1 DEF PoolGone
<1>4. n = [m EXCEPT !.large_list = larges, !.small_list = smalls, !.chunks = chunks, !.total = total]
  BY DEF free_pool
<1>5. SpaceFreed(m, pool) = space
  <2>1. SpaceFreed(m, pool) = SumOf(ToSet(m.large_list[pool]), Space(m.large_list[pool], LargeHdr))
                              + SumOf(ToSet(m.small_list[pool]), Space(m.small_list[pool], SmallHdr))
    BY Zenon DEF SpaceFreed, Space
  <2> HIDE DEF L, small, large
  <2> QED
    BY <1>2, <2>1, Zenon
<1>6. chunks = rest
  <2>1. ASSUME NEW c \in m.chunks
        PROVE  c.id \in {d.id : d \in ChunksOf(m, pool)} <=> c \in A \/ c \in B
    <3>1. c \in A <=> \E i \in DOMAIN L[small] : L[small][i].id = c.id
      BY DEF InList
    <3>2. c \in B <=> \E i \in DOMAIN L[large] : L[large][i].id = c.id
      BY DEF InList
    <3>3. c.id \in {d.id : d \in ChunksOf(m, pool)} <=>
            \/ \E i \in DOMAIN m.small_list[pool] : m.small_list[pool][i].id = c.id
            \/ \E i \in DOMAIN m.large_list[pool] : m.large_list[pool][i].id = c.id
      <4>1. \A d : d \in ToSet(m.small_list[pool]) <=> \E i \in DOMAIN m.small_list[pool] : m.small_list[pool][i] = d
        BY DEF ToSet
      <4>2. \A d : d \in ToSet(m.large_list[pool]) <=> \E i \in DOMAIN m.large_list[pool] : m.large_list[pool][i] = d
        BY DEF ToSet
      <4> DEFINE X == ToSet(m.small_list[pool])
                 Y == ToSet(m.large_list[pool])
      <4>3. ChunksOf(m, pool) = X \cup Y
        BY DEF ChunksOf
      <4>4. \A d : d \in X <=> \E i \in DOMAIN m.small_list[pool] : m.small_list[pool][i] = d
        BY <4>1
      <4>5. \A d : d \in Y <=> \E i \in DOMAIN m.large_list[pool] : m.large_list[pool][i] = d
        BY <4>2
      <4> HIDE DEF X, Y
      <4>6. c.id \in {d.id : d \in X \cup Y} <=> (\E d \in X : d.id = c.id) \/ (\E d \in Y : d.id = c.id)
        OBVIOUS
      <4>7. (\E d \in X : d.id = c.id) <=> \E i \in DOMAIN m.small_list[pool] : m.small_list[pool][i].id = c.id
        BY <4>4
      <4>8. (\E d \in Y : d.id = c.id) <=> \E i \in DOMAIN m.large_list[pool] : m.large_list[pool][i].id = c.id
        BY <4>5
      <4> QED
        BY <4>3, <4>6, <4>7, <4>8
    <3> HIDE DEF L, small, large, A, B
    <3> QED
      BY <1>2, <3>1, <3>2, <3>3
  <2> HIDE DEF A, B
  <2> QED
    BY <2>1
<1> HIDE DEF n, rest, chunks, larges, smalls, space
<1>7. total = SizeOfChunks(chunks) /\ total \in Int
  <2>1. m.total = SizeOfChunks(m.chunks) /\ m.total \in Int
    BY <1>1 DEF ChunksRight, MemoryRecord
  <2>2. rest \in SUBSET Chunk /\ IsFiniteSet(rest)
    BY <1>2, FS_Subset DEF rest
  <2>3. SizeOfChunks(rest) \in Int
    <3>1. \A c \in rest : Sizes(rest)[c] \in Int
      BY <2>2 DEF Sizes, Chunk
    <3>2. SumOf(rest, Sizes(rest)) \in Int
      BY <2>2, <3>1, SumInt
    <3> QED
      BY <3>2 DEF SizeOfChunks, Sizes
  <2>4. total = SizeOfChunks(rest)
    BY <1>3, <1>5, <2>1
  <2> QED
    BY <1>6, <2>3, <2>4
<1>8. larges \in [Pools -> Seq(Entry)] /\ smalls \in [Pools -> Seq(Entry)] /\ chunks \in SUBSET Chunk
  BY <1>2 DEF larges, smalls, chunks
<1> HIDE DEF total
<1>9. /\ n \in MemoryRecord /\ n.small_list = smalls /\ n.large_list = larges /\ n.chunks = chunks /\ n.total = total
      /\ n.files = m.files /\ n.error = m.error
  BY <1>1, <1>4, <1>7, <1>8 DEF MemoryRecord
<1>10. \A q \in Lists : M[q] = IF q[2] = pool THEN << >> ELSE L[q]
  <2> SUFFICES ASSUME NEW q \in Lists PROVE M[q] = IF q[2] = pool THEN << >> ELSE L[q]
    OBVIOUS
  <2>1. q[1] \in {"small", "large"} /\ q[2] \in Pools
    BY DEF Lists
  <2>2. \A p \in Pools : /\ smalls[p] = IF p = pool THEN << >> ELSE m.small_list[p]
                         /\ larges[p] = IF p = pool THEN << >> ELSE m.large_list[p]
    BY <1>2 DEF smalls, larges
  <2>3. M[q] = (IF q[1] = "small" THEN smalls[q[2]] ELSE larges[q[2]])
    BY <1>9 DEF ListsOf
  <2>4. L[q] = (IF q[1] = "small" THEN m.small_list[q[2]] ELSE m.large_list[q[2]])
    BY DEF ListsOf
  <2> HIDE DEF L, M
  <2> QED
    BY <2>1, <2>2, <2>3, <2>4
<1>11. \A q \in Lists : q[2] = pool <=> q = small \/ q = large
  BY DEF Lists
<1>12. M = [L EXCEPT ![small] = << >>, ![large] = << >>]
  <2>1. M = [q \in Lists |-> M[q]] /\ L = [q \in Lists |-> L[q]]
    BY DEF ListsOf
  <2> HIDE DEF L, M, small, large
  <2> QED
    BY <1>2, <1>10, <1>11, <2>1
<1>13. PoolsRight(n)
  <2>1. ListsMatch(M, n.chunks)
    BY <1>3, <1>6, <1>9, <1>12
  <2>2. ChunksRight(n)
    <3>1. IsFiniteSet(chunks) /\ Numbered(chunks)
      BY <1>2, FS_Subset DEF chunks, Numbered
    <3> QED
      BY <1>7, <1>9, <3>1 DEF ChunksRight
  <2>3. \E d \in n.chunks : d.id = 1
    <3>1. PICK d \in m.chunks : d.id = 1
      BY <1>1
    <3>2. d \notin A /\ d \notin B
      BY <1>1, <1>2, <3>1 DEF InList, ListsMatch
    <3> QED
      BY <1>6, <1>9, <3>1, <3>2 DEF rest
  <2>4. SmallAligned(M)
    <3> SUFFICES ASSUME NEW p \in Pools, NEW i \in DOMAIN M[<<"small", p>>]
                 PROVE  Multiple(M[<<"small", p>>][i].used)
      BY DEF SmallAligned
    <3>1. <<"small", p>> \in Lists /\ <<"small", p>>[2] = p
      BY DEF Lists
    <3> HIDE DEF M, L
    <3>2. p # pool
      BY <1>10, <3>1
    <3>3. M[<<"small", p>>] = L[<<"small", p>>]
      BY <1>10, <3>1, <3>2
    <3> QED
      BY <1>1, <3>3 DEF SmallAligned
  <2> QED
    BY <1>9, <2>1, <2>2, <2>3, <2>4 DEF PoolsRight
<1>14. Freed(m, pool, n)
  BY <1>9, <1>10, <1>13 DEF Freed
<1> QED
  BY <1>14 DEF n

\* The objects of the other pool stay.
LEMMA OtherObjectsStay ==
  ASSUME NEW m, PoolsRight(m), NEW pool \in Pools, NEW n, Freed(m, pool, n), NEW objs, ObjectsRight(ListsOf(m), objs)
  PROVE  ObjectsRight(ListsOf(n), {o \in objs : o.pool # pool})
<1> DEFINE L == ListsOf(m)
           M == ListsOf(n)
<1>1. ASSUME NEW o \in objs, o.pool # pool PROVE Lies(o, M)
  <2>1. PICK q \in Lists : \E i \in DOMAIN L[q] :
          q[2] = o.pool /\ L[q][i].id = o.chunk /\ o.from + o.size <= Header(q) + L[q][i].used
    BY DEF ObjectsRight, Lies
  <2>2. q[2] = o.pool
    BY <2>1
  <2>3. M[q] = L[q]
    BY <1>1, <2>2 DEF Freed
  <2> HIDE DEF L, M
  <2> QED
    BY <2>1, <2>3 DEF Lies
<1> QED
  BY <1>1 DEF ObjectsRight

-----------------------------------------------------------------------------
(* The steps of the manager.                                               *)

LEMMA JobRight ==
  ASSUME memJob \in MemoryJobs
  PROVE  memJob.sizes \subseteq Nat \ {0} /\ memJob.max_use \in Int /\ memJob.requests \in Seq(Requests)
BY MemoryAssumption

LEMMA SettleIs ==
  ASSUME NEW m, Settle(m)
  PROVE  mem' = m /\ (Fine(m) => memPhase' = memPhase) /\ (~Fine(m) => memPhase' = "failed")
BY Zenon DEF Settle, Fine

\* The end of a call that opens and closes no store.
LEMMA CallKeeps ==
  ASSUME MemoryInv, memPhase \in {"open", "realizing"}, UNCHANGED memJob, ArraysRight', ArraysSized', Stores' = Stores,
         NEW m, mem' = m, memPhase' = "failed" \/ (memPhase' = "open" /\ \A i \in Unrealized' : ~virt'[i].b_s_open),
         PoolsRight(m), m.files = mem.files, NoBug(m), ObjectsRight(ListsOf(m), objects')
  PROVE  MemoryInv'
<1>1. InUse /\ InUse' /\ memPhase' \in {"open", "failed"}
  BY DEF InUse
<1>2. mem.files = Cardinality(Stores)
  BY <1>1 DEF MemoryInv
<1>3. mem'.files = Cardinality(Stores')
  BY <1>2
<1>4. PoolsRight(mem)' /\ ObjectsRight(ListsOf(mem), objects)' /\ NoBug(mem)'
  OBVIOUS
<1> QED
  BY <1>1, <1>3, <1>4 DEF MemoryInv

\* One step after the other.
LEMMA AllocObjectKeeps == MemoryInv /\ AllocObject => MemoryInv'
<1> SUFFICES ASSUME MemoryInv, AllocObject PROVE MemoryInv'
  OBVIOUS
<1>1. memPhase = "open" /\ UNCHANGED <<memJob, limits, images, arrayVars>>
  BY DEF AllocObject
<1>2. PICK pool \in Pools, size \in memJob.sizes :
        \E m \in {alloc_small(mem, pool, size), alloc_large(mem, pool, size)} :
          Settle(m) /\ objects' = objects \cup Object(m)
  BY DEF AllocObject
<1>3. PICK m \in {alloc_small(mem, pool, size), alloc_large(mem, pool, size)} :
        Settle(m) /\ objects' = objects \cup Object(m)
  BY <1>2
<1>4. PoolsRight(mem) /\ ObjectsRight(ListsOf(mem), objects) /\ NoBug(mem)
  BY <1>1 DEF MemoryInv, InUse
<1>5. size \in Nat
  BY JobRight DEF MemoryInv
<1>6. Allocated(mem, m)
  BY <1>3, <1>4, <1>5, AllocSmallRight, AllocLargeRight
<1>7. objects \in SUBSET ObjectRecord
  BY <1>4 DEF ObjectsRight
<1>8. PoolsRight(m) /\ m.files = mem.files /\ NoBug(m) /\ ObjectsRight(ListsOf(m), objects')
  BY <1>3, <1>4, <1>6, <1>7 DEF Allocated
<1>9. mem' = m /\ memPhase' \in {"open", "failed"}
  BY <1>1, <1>3, SettleIs
<1>10. ArraysRight' /\ ArraysSized' /\ Stores' = Stores /\ \A i \in Unrealized' : ~virt'[i].b_s_open
  BY <1>1 DEF MemoryInv, arrayVars, ArraysRight, HeldInWindow, HeldRight, ArraysSized, Stores, Unrealized
<1> QED
  BY <1>1, <1>8, <1>9, <1>10, CallKeeps

LEMMA AllocArrayKeeps == MemoryInv /\ AllocArray => MemoryInv'
<1> SUFFICES ASSUME MemoryInv, AllocArray PROVE MemoryInv'
  OBVIOUS
<1>1. memPhase = "open" /\ UNCHANGED <<memJob, objects, limits, images, arrayVars>>
  BY DEF AllocArray
<1>2. PICK width \in memJob.sizes, rows \in 1 .. 3 :
        \E m \in {alloc_sarray(mem, "image", width, rows), alloc_barray(mem, "image", width, rows)} : Settle(m)
  BY DEF AllocArray
<1>3. PICK m \in {alloc_sarray(mem, "image", width, rows), alloc_barray(mem, "image", width, rows)} : Settle(m)
  BY <1>2
<1>4. PoolsRight(mem) /\ ObjectsRight(ListsOf(mem), objects) /\ NoBug(mem)
  BY <1>1 DEF MemoryInv, InUse
<1>5. width \in Nat \ {0} /\ rows \in Nat \ {0} /\ "image" \in Pools
  BY JobRight DEF MemoryInv, Pools
<1>6. width * SIZEOF_JBLOCK \in Nat \ {0}
  BY <1>5, MemoryAssumption
<1>7. Enlarged(mem, m)
  BY <1>3, <1>4, <1>5, <1>6, ArrayAllocated DEF alloc_sarray, alloc_barray
<1>8. PoolsRight(m) /\ m.files = mem.files /\ NoBug(m) /\ Grown(ListsOf(mem), ListsOf(m))
  BY <1>7 DEF Enlarged
<1>9. ObjectsRight(ListsOf(m), objects')
  BY <1>1, <1>4, <1>8, PoolsType, ObjectsStay
<1>10. mem' = m /\ memPhase' \in {"open", "failed"}
  BY <1>1, <1>3, SettleIs
<1>11. ArraysRight' /\ ArraysSized' /\ Stores' = Stores /\ \A i \in Unrealized' : ~virt'[i].b_s_open
  BY <1>1 DEF MemoryInv, arrayVars, ArraysRight, HeldInWindow, HeldRight, ArraysSized, Stores, Unrealized
<1> QED
  BY <1>1, <1>8, <1>9, <1>10, <1>11, CallKeeps

LEMMA RequestVirtKeeps == ASSUME MemoryInv, NEW kind \in {"sample", "block"}, request_virt_array(kind) PROVE MemoryInv'
<1>1. memPhase = "open" /\ UNCHANGED <<memJob, limits, images>> /\ Len(virt) < Len(memJob.requests) /\ NextRequest.kind = kind
  BY Zenon DEF request_virt_array
<1> DEFINE r == NextRequest
           Requested == RequestVirt(kind, r.pre_zero, r.width, r.rows, r.maxaccess)
<1>2. PICK m \in {alloc_small(mem, "image", ControlSize)} :
         Settle(m) /\ objects' = objects \cup Object(m) /\ (Requested \/ UNCHANGED arrayVars)
  BY Zenon DEF request_virt_array
<1>3. r \in Requests
  <2>1. memJob.requests \in Seq(Requests) /\ virt \in Seq(ArrayRecord)
    BY JobRight DEF MemoryInv, ArraysRight
  <2> QED
    BY <1>1, <2>1 DEF NextRequest
<1> HIDE DEF r
<1>4. r.pre_zero \in BOOLEAN /\ r.width \in Nat \ {0} /\ r.rows \in Nat \ {0} /\ r.maxaccess \in Nat \ {0}
  BY <1>3 DEF Requests
<1>5. PoolsRight(mem) /\ ObjectsRight(ListsOf(mem), objects) /\ NoBug(mem)
  BY <1>1 DEF MemoryInv, InUse
<1>6. Allocated(mem, m)
  BY <1>2, <1>5, AllocSmallRight, MemoryAssumption DEF Pools
<1>7. objects \in SUBSET ObjectRecord
  BY <1>5 DEF ObjectsRight
<1>8. PoolsRight(m) /\ m.files = mem.files /\ NoBug(m) /\ ObjectsRight(ListsOf(m), objects')
  BY <1>2, <1>5, <1>6, <1>7 DEF Allocated
<1>9. mem' = m /\ memPhase' \in {"open", "failed"}
  BY <1>1, <1>2, SettleIs
<1>10. ArraysRight' /\ ArraysSized' /\ Stores' = Stores /\ \A i \in Unrealized' : ~virt'[i].b_s_open
  <2>1. CASE UNCHANGED arrayVars
    BY <1>1, <2>1 DEF MemoryInv, arrayVars, ArraysRight, HeldInWindow, HeldRight, ArraysSized, Stores, Unrealized
  <2>2. CASE Requested
    <3>1. ArraysRight'
      BY <1>4, <2>2, RequestKeeps DEF MemoryInv
    <3> DEFINE a == [kind |-> kind, pre_zero |-> r.pre_zero, width |-> r.width, rows_in_array |-> r.rows, maxaccess |-> r.maxaccess,
                 realized |-> FALSE, rows_in_mem |-> 0, b_s_open |-> FALSE, cur_start_row |-> 0,
                 first_undef_row |-> 0, dirty |-> FALSE, buffer |-> [k \in Rows(0) |-> Unset], store |-> [k \in Rows(r.rows) |-> Unset]]
    <3>2. virt' = Append(virt, a)
      BY <2>2 DEF RequestVirt
    <3>3. ~a.b_s_open /\ a.width > 0 /\ a.rows_in_array > 0 /\ a.maxaccess > 0
      BY <1>4
    <3> HIDE DEF a
    <3>4. virt \in Seq(ArrayRecord) /\ ArraysSized /\ \A i \in Unrealized : ~virt[i].b_s_open
      BY <1>1 DEF MemoryInv, ArraysRight
    <3>5. /\ DOMAIN virt = 1 .. Len(virt) /\ Len(virt) \in Nat /\ DOMAIN virt' = 1 .. Len(virt) + 1
          /\ \A i \in DOMAIN virt : virt'[i] = virt[i]
          /\ virt'[Len(virt) + 1] = a
      BY <3>2, <3>4
    <3>6. ArraysSized'
      BY <3>3, <3>4, <3>5 DEF ArraysSized
    <3>7. Stores' = Stores
      BY <3>3, <3>5 DEF Stores
    <3>8. \A i \in Unrealized' : ~virt'[i].b_s_open
      BY <3>3, <3>4, <3>5 DEF Unrealized
    <3> QED
      BY <3>1, <3>6, <3>7, <3>8
  <2> QED
    BY <1>2, <2>1, <2>2
<1> QED
  BY <1>1, <1>8, <1>9, <1>10, CallKeeps

\* The sizes of an array that has been asked for are positive.
LEMMA ArraySizes ==
  ASSUME ArraysRight, ArraysSized, NEW i \in DOMAIN virt
  PROVE  /\ virt[i] \in ArrayRecord /\ virt[i].width \in Nat \ {0} /\ virt[i].maxaccess \in Nat \ {0} /\ virt[i].rows_in_array \in Nat \ {0}
         /\ RowSize(virt[i]) \in Nat \ {0} /\ Least(virt[i]) \in Nat \ {0} /\ Most(virt[i]) \in Nat \ {0}
<1>1. virt[i] \in ArrayRecord
  BY DEF ArraysRight
<1>2. virt[i].width \in Nat \ {0} /\ virt[i].maxaccess \in Nat \ {0} /\ virt[i].rows_in_array \in Nat \ {0}
  BY <1>1 DEF ArrayRecord, ArraysSized
<1>3. ElementSize(virt[i]) \in Nat \ {0}
  BY MemoryAssumption DEF ElementSize
<1>4. RowSize(virt[i]) \in Nat \ {0}
  BY <1>2, <1>3 DEF RowSize
<1> QED
  BY <1>1, <1>2, <1>4 DEF Least, Most

LEMMA ArraysFinite ==
  ASSUME ArraysRight
  PROVE  IsFiniteSet(DOMAIN virt) /\ (\A S \in SUBSET (DOMAIN virt) : IsFiniteSet(S)) /\ IsFiniteSet(Stores)
<1>1. DOMAIN virt = 1 .. Len(virt) /\ Len(virt) \in Nat
  BY DEF ArraysRight
<1>2. IsFiniteSet(DOMAIN virt)
  BY <1>1, FS_Interval
<1>3. \A S \in SUBSET (DOMAIN virt) : IsFiniteSet(S)
  BY <1>2, FS_Subset
<1> QED
  BY <1>2, <1>3 DEF Stores

\* How many least heights fit, once the sums are known.
Share(avail, least, most, k) ==
  k = IF avail >= most THEN 1000000000 ELSE IF avail < least THEN 1 ELSE avail \div least
LEMMA ShareRight ==
  ASSUME NEW avail \in Int, NEW least \in Nat \ {0}, NEW most \in Int, NEW k, Share(avail, least, most, k)
  PROVE  k \in Nat \ {0} /\ (most <= avail \/ k = 1 \/ k * least <= avail)
<1>1. CASE avail >= most \/ avail < least
  BY <1>1 DEF Share
<1>2. CASE ~(avail >= most) /\ ~(avail < least)
  <2>1. avail \in Nat /\ k = avail \div least
    BY <1>2 DEF Share
  <2>2. k \in Nat /\ k * least <= avail /\ avail < k * least + least
    BY <2>1, DivisionRange
  <2>3. k # 0
    BY <1>2, <2>2
  <2> QED
    BY <2>2, <2>3
<1> QED
  BY <1>1, <1>2

\* The sums and the share of each array are right when a realization begins.
LEMMA RealizationBegins == MemoryInv /\ realize_virt_arrays => MemoryInv'
<1> SUFFICES ASSUME MemoryInv, realize_virt_arrays PROVE MemoryInv'
  OBVIOUS
<1>1. memPhase = "open" /\ memPhase' = "realizing" /\ UNCHANGED <<memJob, mem, objects, images, arrayVars>> /\ Unrealized # {}
  BY DEF realize_virt_arrays
<1> DEFINE F == [i \in Unrealized |-> virt[i].maxaccess * RowSize(virt[i])]
           G == [i \in Unrealized |-> virt[i].rows_in_array * RowSize(virt[i])]
           E == [i \in DOMAIN virt |-> Least(virt[i])]
           H == [i \in DOMAIN virt |-> Most(virt[i])]
<1>2. PICK least \in {SumOf(Unrealized, F)}, most \in {SumOf(Unrealized, G)} :
        \E avail \in {jpeg_mem_available(least, most)} :
         limits' = [avail |-> avail, least |-> least,
                    max_minheights |-> IF avail >= most THEN 1000000000
                                       ELSE IF avail < least THEN 1 ELSE avail \div least,
                    earlier |-> DOMAIN virt \ Unrealized]
  BY DEF realize_virt_arrays
<1>3. PICK avail \in {jpeg_mem_available(least, most)} :
         limits' = [avail |-> avail, least |-> least,
                    max_minheights |-> IF avail >= most THEN 1000000000
                                       ELSE IF avail < least THEN 1 ELSE avail \div least,
                    earlier |-> DOMAIN virt \ Unrealized]
  BY <1>2
<1>4. /\ limits'.avail = avail /\ limits'.least = least /\ limits'.earlier = DOMAIN virt \ Unrealized
      /\ Share(avail, least, most, limits'.max_minheights)
  BY <1>3 DEF Share
<1>5. ArraysRight /\ ArraysSized /\ PoolsRight(mem) /\ memJob \in MemoryJobs
  BY <1>1 DEF MemoryInv, InUse
<1>6. Unrealized \subseteq DOMAIN virt /\ IsFiniteSet(Unrealized)
  BY <1>5, ArraysFinite DEF Unrealized
<1>7. \A i \in Unrealized : /\ F[i] \in Nat \ {0} /\ E[i] = F[i]
                            /\ G[i] \in Nat \ {0} /\ H[i] = G[i]
  BY <1>5, <1>6, ArraySizes DEF Least, Most
<1>8. virt' = virt /\ ToRealize' = Unrealized /\ InMemory' = {}
  BY <1>1, <1>4, <1>6 DEF arrayVars, ToRealize, InMemory, Unrealized
<1> HIDE DEF F, G, E, H
<1>9. least = SumOf(Unrealized, E) /\ most = SumOf(Unrealized, H)
  <2>1. SumOf(Unrealized, E) = SumOf(Unrealized, F)
    BY <1>6, <1>7, SumAgrees
  <2>2. SumOf(Unrealized, H) = SumOf(Unrealized, G)
    BY <1>6, <1>7, SumAgrees
  <2> QED
    BY <1>2, <2>1, <2>2
<1>10. least \in Nat \ {0} /\ most \in Int
  <2>1. PICK x \in Unrealized : TRUE
    BY <1>1
  <2>2. SumOf(Unrealized, F) = F[x] + SumOf(Unrealized \ {x}, F)
    BY <1>6, <1>7, <2>1, SumRemove
  <2>3. SumOf(Unrealized \ {x}, F) >= 0
    BY <1>6, <1>7, SumOfPart
  <2>4. IsFiniteSet(Unrealized \ {x}) /\ \A y \in Unrealized \ {x} : F[y] \in Int
    BY <1>6, <1>7, FS_Subset
  <2>5. SumOf(Unrealized \ {x}, F) \in Int
    BY <2>4, SumInt
  <2>6. SumOf(Unrealized, G) \in Int
    BY <1>6, <1>7, SumInt
  <2> QED
    BY <1>2, <1>7, <2>2, <2>3, <2>5, <2>6
<1>11. avail \in Int
  <2>1. mem.total \in Int
    BY <1>5 DEF PoolsRight, MemoryRecord
  <2> QED
    BY <1>3, <1>5, <1>10, <2>1, JobRight DEF jpeg_mem_available
<1>12. /\ limits'.max_minheights \in Nat \ {0}
       /\ most <= avail \/ limits'.max_minheights = 1 \/ limits'.max_minheights * least <= avail
  BY <1>4, <1>10, <1>11, ShareRight
<1>13. LimitsRight'
  <2>1. [i \in DOMAIN virt' |-> Least(virt'[i])] = E /\ [i \in DOMAIN virt' |-> Most(virt'[i])] = H
    BY <1>8 DEF E, H
  <2>2. limits'.earlier \subseteq {i \in DOMAIN virt' : virt'[i].realized}
    BY <1>4, <1>8 DEF Unrealized
  <2> QED
    BY <1>4, <1>8, <1>9, <1>11, <1>12, <2>1, <2>2 DEF LimitsRight
<1>14. ArraysRight' /\ ArraysSized' /\ Stores' = Stores /\ (\A i \in Unrealized' : ~virt'[i].b_s_open)
  BY <1>1 DEF MemoryInv, arrayVars, ArraysRight, HeldInWindow, HeldRight, ArraysSized, Stores, Unrealized
<1>15. PoolsRight(mem') /\ ObjectsRight(ListsOf(mem'), objects') /\ mem'.files = Cardinality(Stores') /\ NoBug(mem') /\ memJob' \in MemoryJobs
  BY <1>1, <1>14 DEF MemoryInv, InUse
<1> QED
  BY <1>1, <1>13, <1>14, <1>15 DEF MemoryInv

LEMMA FailedFails ==
  ASSUME NEW m \in MemoryRecord, NEW error, Reported(error)
  PROVE  ~Fine(Failed(m, error))
<1>1. Failed(m, error).error = error
  BY DEF Failed, MemoryRecord
<1> QED
  BY <1>1, Zenon DEF Fine, Reported

\* What realizing an array, or half of it, leaves of its control block.
SizedTo(a, rows, b) ==
  /\ b.width = a.width /\ b.kind = a.kind /\ b.maxaccess = a.maxaccess /\ b.rows_in_array = a.rows_in_array
  /\ b.rows_in_mem = rows /\ (b.b_s_open <=> rows < a.rows_in_array)
LEMMA SizedFields ==
  ASSUME NEW a \in ArrayRecord, NEW rows \in Nat
  PROVE  /\ SizedTo(a, rows, Sized(a, rows)) /\ SizedTo(a, rows, Realized(Sized(a, rows)))
         /\ Realized(Sized(a, rows)).realized /\ Sized(a, rows).realized = a.realized
<1> DEFINE open == rows < a.rows_in_array
           s == Sized(a, rows)
<1>1. open \in BOOLEAN /\ (open <=> rows < a.rows_in_array)
  BY DEF ArrayRecord
<1>2. s = [a EXCEPT !.rows_in_mem = rows, !.b_s_open = open]
  BY DEF Sized
<1> HIDE DEF open, s
<1>3. s \in ArrayRecord /\ SizedTo(a, rows, s) /\ s.realized = a.realized
  BY <1>1, <1>2 DEF ArrayRecord, SizedTo
<1> DEFINE f == [k \in Rows(s.rows_in_mem) |-> Unset]
           b == Realized(s)
<1>4. b = [s EXCEPT !.realized = TRUE, !.buffer = f, !.cur_start_row = 0, !.first_undef_row = 0, !.dirty = FALSE]
  BY DEF Realized
<1> HIDE DEF f, b
<1>5. /\ b.realized /\ b.width = s.width /\ b.kind = s.kind /\ b.maxaccess = s.maxaccess /\ b.rows_in_array = s.rows_in_array
      /\ b.rows_in_mem = s.rows_in_mem /\ b.b_s_open = s.b_s_open
  BY <1>3, <1>4 DEF ArrayRecord
<1>6. SizedTo(a, rows, b)
  BY <1>3, <1>5 DEF SizedTo
<1> QED
  BY <1>3, <1>5, <1>6 DEF s, b

\* The window of an array: all of it, or as many accesses as the share allows.
LEMMA WindowRange ==
  ASSUME ArraysRight, ArraysSized, NEW i \in DOMAIN virt, limits.max_minheights \in Nat \ {0}
  PROVE  /\ RowsInMem(virt[i]) \in 1 .. virt[i].rows_in_array
         /\ RowsInMem(virt[i]) = virt[i].rows_in_array \/ RowsInMem(virt[i]) >= virt[i].maxaccess
         /\ RowsInMem(virt[i]) <= limits.max_minheights * virt[i].maxaccess
<1> DEFINE rows == virt[i].rows_in_array
           access == virt[i].maxaccess
           share == limits.max_minheights
           height == (rows - 1) \div access + 1
<1>1. rows \in Nat \ {0} /\ access \in Nat \ {0} /\ share \in Nat \ {0}
  BY ArraySizes
<1> HIDE DEF rows, access, share
<1>2. /\ height \in Nat \ {0} /\ rows <= height * access
      /\ share < height => share * access < rows /\ share * access >= access /\ share * access \in Nat
      /\ height <= share => rows <= share * access
  BY <1>1, HeightRange
<1> HIDE DEF height
<1>3. RowsInMem(virt[i]) = IF height <= share THEN rows ELSE share * access
  BY DEF RowsInMem, MinHeight, rows, access, share, height
<1>4. /\ RowsInMem(virt[i]) \in 1 .. rows
      /\ RowsInMem(virt[i]) = rows \/ RowsInMem(virt[i]) >= access
      /\ RowsInMem(virt[i]) <= share * access
  <2>1. CASE height <= share
    BY <1>1, <1>2, <1>3, <2>1
  <2>2. CASE share < height
    <3> DEFINE p == share * access
    <3>1. p < rows /\ p >= access /\ p \in Nat /\ RowsInMem(virt[i]) = p
      BY <1>1, <1>2, <1>3, <2>2
    <3> HIDE DEF p
    <3>2. RowsInMem(virt[i]) \in 1 .. rows /\ RowsInMem(virt[i]) >= access /\ RowsInMem(virt[i]) <= p
      BY <1>1, <3>1
    <3> QED
      BY <3>2 DEF p
  <2> QED
    BY <1>1, <1>2, <2>1, <2>2
<1> QED
  BY <1>4 DEF rows, access, share

LEMMA StoresCounted ==
  ASSUME NEW m, PoolsRight(m), NEW files \in Int, NEW n, n = [m EXCEPT !.files = files]
  PROVE  PoolsRight(n) /\ ListsOf(n) = ListsOf(m) /\ n.files = files /\ (NoBug(n) <=> NoBug(m))
<1>1. m \in MemoryRecord
  BY DEF PoolsRight
<1>2. /\ n \in MemoryRecord /\ n.chunks = m.chunks /\ n.total = m.total /\ n.files = files
      /\ n.small_list = m.small_list /\ n.large_list = m.large_list /\ n.error = m.error
  BY <1>1 DEF MemoryRecord
<1>3. ListsOf(n) = ListsOf(m)
  BY <1>2 DEF ListsOf
<1>4. PoolsRight(n)
  BY <1>2, <1>3 DEF PoolsRight, ChunksRight
<1> QED
  BY <1>2, <1>3, <1>4, FineKept

\* The memory of an array with its store: the store is counted before the memory is there.
LEMMA ArrayMemoryRight ==
  ASSUME MemoryInv, memPhase = "realizing", NEW i \in DOMAIN virt
  PROVE  /\ PoolsRight(ArrayMemory(virt[i])) /\ Grown(ListsOf(mem), ListsOf(ArrayMemory(virt[i]))) /\ NoBug(ArrayMemory(virt[i]))
         /\ ArrayMemory(virt[i]).files = mem.files + (IF RowsInMem(virt[i]) < virt[i].rows_in_array THEN 1 ELSE 0)
<1> DEFINE a == virt[i]
           b == jpeg_open_backing_store(a)
           rows == RowsInMem(a)
           m == ArrayMemory(a)
<1>1. PoolsRight(mem) /\ NoBug(mem) /\ limits.max_minheights \in Nat \ {0} /\ ArraysRight /\ ArraysSized
  BY DEF MemoryInv, InUse, LimitsRight
<1>2. rows \in Nat \ {0} /\ a.width \in Nat \ {0} /\ "image" \in Pools /\ rows \in Int /\ a.rows_in_array \in Int
  <2>1. a.width \in Nat \ {0} /\ a.rows_in_array \in Nat \ {0}
    BY <1>1, ArraySizes
  <2>2. rows \in 1 .. a.rows_in_array
    BY <1>1, WindowRange
  <2> HIDE DEF a, rows
  <2> QED
    BY <2>1, <2>2 DEF Pools
<1>3. a.width * SIZEOF_JBLOCK \in Nat \ {0}
  <2>1. SIZEOF_JBLOCK \in Nat \ {0} /\ a.width \in Nat \ {0}
    BY <1>2, MemoryAssumption
  <2> HIDE DEF a
  <2> QED
    BY <2>1
<1>4. /\ PoolsRight(b) /\ ListsOf(b) = ListsOf(mem) /\ NoBug(b)
      /\ b.files = mem.files + (IF rows < a.rows_in_array THEN 1 ELSE 0)
  <2>1. CASE rows < a.rows_in_array
    <3>1. b = [mem EXCEPT !.files = mem.files + 1] /\ mem.files + 1 \in Int
      BY <1>1, <2>1 DEF jpeg_open_backing_store, PoolsRight, MemoryRecord
    <3> HIDE DEF b, rows, a
    <3> QED
      BY <1>1, <2>1, <3>1, StoresCounted
  <2>2. CASE ~(rows < a.rows_in_array)
    <3>1. b = mem /\ mem.files \in Int
      BY <1>1, <2>2 DEF jpeg_open_backing_store, PoolsRight, MemoryRecord
    <3> HIDE DEF b, rows, a
    <3> QED
      BY <1>1, <2>2, <3>1
  <2> QED
    BY <2>1, <2>2
<1>5. m = alloc_array(b, "image", a.width, rows) \/ m = alloc_array(b, "image", a.width * SIZEOF_JBLOCK, rows)
  BY Zenon DEF ArrayMemory, alloc_sarray, alloc_barray
<1> HIDE DEF m, b, rows, a
<1>6. Enlarged(b, m)
  BY <1>2, <1>3, <1>4, <1>5, ArrayAllocated
<1>7. PoolsRight(m) /\ Grown(ListsOf(mem), ListsOf(m)) /\ NoBug(m) /\ m.files = mem.files + (IF rows < a.rows_in_array THEN 1 ELSE 0)
  BY <1>4, <1>6 DEF Enlarged
<1> QED
  BY <1>7 DEF m, a, rows

\* The sums a realization is about stay when one of its arrays gets its window.
LEMMA LimitsKept ==
  ASSUME ArraysRight, ArraysSized, LimitsRight, NEW i \in DOMAIN virt, ~virt[i].realized,
         NEW b \in ArrayRecord, SizedTo(virt[i], RowsInMem(virt[i]), b), b.realized,
         virt' = [virt EXCEPT ![i] = b], UNCHANGED limits
  PROVE  LimitsRight'
<1> DEFINE E == [j \in DOMAIN virt |-> Least(virt[j])]
           H == [j \in DOMAIN virt |-> Most(virt[j])]
           E1 == [j \in DOMAIN virt' |-> Least(virt'[j])]
           H1 == [j \in DOMAIN virt' |-> Most(virt'[j])]
           rows == RowsInMem(virt[i])
<1>1. /\ DOMAIN virt' = DOMAIN virt /\ virt'[i] = b /\ \A j \in DOMAIN virt : j # i => virt'[j] = virt[j]
  BY DEF ArraysRight
<1>2. b.width = virt[i].width /\ b.kind = virt[i].kind /\ b.maxaccess = virt[i].maxaccess /\ b.rows_in_array = virt[i].rows_in_array
      /\ b.rows_in_mem = rows
  BY DEF SizedTo
<1>3. Least(b) = Least(virt[i]) /\ Most(b) = Most(virt[i])
  BY <1>2 DEF Least, Most, RowSize, ElementSize
<1>4. E1 = E /\ H1 = H
  <2>1. \A j \in DOMAIN virt : Least(virt'[j]) = Least(virt[j]) /\ Most(virt'[j]) = Most(virt[j])
    BY <1>1, <1>3
  <2> QED
    BY <1>1, <2>1
<1>5. ToRealize' = ToRealize
  BY <1>1 DEF ToRealize
<1>6. limits'.earlier \subseteq {j \in DOMAIN virt' : virt'[j].realized}
  BY <1>1 DEF LimitsRight
<1>7. rows \in 1 .. virt[i].rows_in_array /\ rows <= limits.max_minheights * virt[i].maxaccess
  BY WindowRange DEF LimitsRight
<1>8. ASSUME NEW j \in InMemory'
      PROVE  virt'[j].rows_in_mem <= virt'[j].rows_in_array
             /\ virt'[j].rows_in_mem <= limits'.max_minheights * virt'[j].maxaccess
  <2>1. CASE j = i
    <3>1. virt[i].rows_in_array \in Nat
      BY ArraySizes
    <3>2. rows <= virt[i].rows_in_array
      BY <1>7, <3>1
    <3> HIDE DEF rows
    <3> QED
      BY <1>1, <1>2, <1>7, <2>1, <3>2
  <2>2. CASE j # i
    <3>1. j \in InMemory /\ virt'[j] = virt[j]
      BY <1>1, <2>2 DEF InMemory
    <3> QED
      BY <3>1 DEF LimitsRight
  <2> QED
    BY <2>1, <2>2
<1>9. /\ limits.avail \in Int /\ limits.max_minheights \in Nat \ {0} /\ limits.least = SumOf(ToRealize, E)
      /\ \/ SumOf(ToRealize, H) <= limits.avail
         \/ limits.max_minheights = 1
         \/ limits.max_minheights * limits.least <= limits.avail
  BY DEF LimitsRight
<1>10. /\ limits'.least = SumOf(ToRealize', E1)
       /\ \/ SumOf(ToRealize', H1) <= limits'.avail
          \/ limits'.max_minheights = 1
          \/ limits'.max_minheights * limits'.least <= limits'.avail
  BY <1>4, <1>5, <1>9
<1> HIDE DEF E, H
<1> QED
  BY <1>6, <1>8, <1>9, <1>10 DEF LimitsRight

\* The window is within the share, or what there is of it is left for the abort to give back.
LEMMA RealizeOneKeeps == ASSUME MemoryInv, NEW i \in DOMAIN virt, RealizeOne(i) PROVE MemoryInv'
<1> DEFINE a == virt[i]
           rows == RowsInMem(a)
<1>1. memPhase = "realizing" /\ i \in Unrealized /\ UNCHANGED <<memJob, objects, limits, images>>
  BY DEF RealizeOne
<1>2. PoolsRight(mem) /\ ObjectsRight(ListsOf(mem), objects) /\ NoBug(mem) /\ LimitsRight /\ ArraysRight /\ ArraysSized
      /\ \A j \in Unrealized : ~virt[j].b_s_open
  BY <1>1 DEF MemoryInv, InUse
<1>3. CASE StoreWanted(i) /\ Settle(Failed(mem, StoreError)) /\ UNCHANGED arrayVars
  <2> DEFINE n == Failed(mem, StoreError)
  <2>1. Settle(n) /\ UNCHANGED arrayVars
    BY <1>3
  <2>2. Allocated(mem, n) /\ ~Fine(n)
    <3>1. mem \in MemoryRecord
      BY <1>2 DEF PoolsRight
    <3>2. StoreError = "tfile create" \/ StoreError = "no backing store"
      BY Zenon DEF StoreError
    <3>3. Reported(StoreError)
      BY <3>2, ReportedErrors, Zenon
    <3> QED
      BY <1>2, <3>1, <3>3, FailedRight, FailedFails, Zenon
  <2> HIDE DEF n
  <2>3. mem' = n /\ memPhase' = "failed"
    BY <2>1, <2>2, SettleIs
  <2>4. ObjectsRight(ListsOf(n), objects')
    BY <1>1, <1>2, <2>2, PoolsType, ObjectsStay DEF Allocated
  <2>5. ArraysRight' /\ ArraysSized' /\ Stores' = Stores
    BY <1>2, <2>1 DEF arrayVars, ArraysRight, HeldInWindow, HeldRight, ArraysSized, Stores
  <2>6. PoolsRight(n) /\ n.files = mem.files /\ NoBug(n)
    BY <2>2 DEF Allocated
  <2> QED
    BY <1>1, <1>2, <2>3, <2>4, <2>5, <2>6, CallKeeps
<1>4. CASE \E m \in {ArrayMemory(virt[i])} :
             /\ mem' = m
             /\ memPhase' = IF m.error # "" THEN "failed" ELSE IF Unrealized = {i} THEN "open" ELSE memPhase
             /\ IF m.error = "" THEN RealizeVirt(i, RowsInMem(virt[i])) ELSE SizeOnly(i, RowsInMem(virt[i]))
  <2>1. PICK m \in {ArrayMemory(virt[i])} :
          /\ mem' = m
          /\ Fine(m) => RealizeVirt(i, rows) /\ memPhase' = IF Unrealized = {i} THEN "open" ELSE memPhase
          /\ ~Fine(m) => SizeOnly(i, rows) /\ memPhase' = "failed"
    BY <1>4, Zenon DEF Fine
  <2>2. /\ PoolsRight(m) /\ Grown(ListsOf(mem), ListsOf(m)) /\ NoBug(m)
        /\ m.files = mem.files + (IF rows < a.rows_in_array THEN 1 ELSE 0)
    BY <1>1, <2>1, ArrayMemoryRight
  <2>3. ~virt[i].realized /\ a \in ArrayRecord
    BY <1>1, <1>2 DEF Unrealized, ArraysRight
  <2>4. /\ rows \in 1 .. virt[i].rows_in_array
        /\ rows = virt[i].rows_in_array \/ rows >= virt[i].maxaccess
        /\ rows <= limits.max_minheights * virt[i].maxaccess
    BY <1>2, WindowRange DEF LimitsRight
  <2>5. ArraysRight'
    <3>1. RealizeVirt(i, rows) \/ SizeOnly(i, rows)
      BY <2>1
    <3> QED
      BY <1>2, <2>3, <2>4, <3>1, SizingKeeps, Zenon
  <2>6. PICK b \in ArrayRecord : /\ virt' = [virt EXCEPT ![i] = b] /\ SizedTo(a, rows, b)
                                 /\ (Fine(m) => b.realized) /\ (b.realized \/ ~Fine(m))
    <3>1. rows \in Nat
      <4>1. a.rows_in_array \in Nat
        BY <2>3 DEF ArrayRecord
      <4> HIDE DEF a, rows
      <4> QED
        BY <2>4, <4>1 DEF a
    <3>2. virt' = [virt EXCEPT ![i] = IF Fine(m) THEN Realized(Sized(a, rows)) ELSE Sized(a, rows)]
      BY <2>1 DEF RealizeVirt, SizeOnly
    <3>3. virt'[i] = (IF Fine(m) THEN Realized(Sized(a, rows)) ELSE Sized(a, rows)) /\ virt'[i] \in ArrayRecord
      BY <1>2, <2>5, <3>2 DEF ArraysRight
    <3> HIDE DEF a, rows
    <3> QED
      BY <2>3, <3>1, <3>2, <3>3, SizedFields
  <2>7. DOMAIN virt' = DOMAIN virt /\ virt'[i] = b /\ \A j \in DOMAIN virt : j # i => virt'[j] = virt[j]
    BY <1>2, <2>6 DEF ArraysRight
  <2>8. ArraysSized'
    BY <1>2, <2>6, <2>7 DEF ArraysSized, SizedTo
  <2>9. m.files = Cardinality(Stores')
    <3>1. mem.files = Cardinality(Stores) /\ i \notin Stores /\ IsFiniteSet(Stores)
      BY <1>1, <1>2, ArraysFinite DEF MemoryInv, InUse, Stores
    <3>2. CASE rows < a.rows_in_array
      <4>1. Stores' = Stores \cup {i}
        <5>1. i \in DOMAIN virt
          OBVIOUS
        <5>2. b.b_s_open
          BY <2>6, <3>2, Zenon DEF SizedTo
        <5>3. Stores' = {j \in DOMAIN virt : virt'[j].b_s_open}
          BY <2>7, Zenon DEF Stores
        <5>4. \A j : j \in Stores' <=> j \in Stores \/ j = i
          BY <2>7, <5>1, <5>2, <5>3, Zenon DEF Stores
        <5> QED
          BY <5>4, Zenon
      <4>2. Cardinality(Stores \cup {i}) = Cardinality(Stores) + 1
        <5> HIDE DEF Stores
        <5> QED
          BY <3>1, FS_AddElement
      <4>3. m.files = mem.files + 1
        BY <2>2, <3>2
      <4> QED
        BY <3>1, <4>1, <4>2, <4>3, Zenon
    <3>3. CASE ~(rows < a.rows_in_array)
      <4>1. Stores' = Stores
        BY <2>6, <2>7, <3>1, <3>3 DEF Stores, SizedTo
      <4>2. mem.files \in Int
        BY <1>2 DEF PoolsRight, MemoryRecord
      <4> QED
        BY <2>2, <3>1, <3>3, <4>1, <4>2
    <3> QED
      BY <3>2, <3>3
  <2>10. memPhase' \in {"open", "realizing"} => b.realized /\ \A j \in Unrealized' : ~virt'[j].b_s_open
    BY <1>1, <1>2, <2>1, <2>6, <2>7 DEF Unrealized
  <2>11. memPhase' = "realizing" => LimitsRight'
    BY <1>1, <1>2, <2>3, <2>6, <2>10, LimitsKept
  <2>12. ObjectsRight(ListsOf(m), objects)
    BY <1>2, <2>2, PoolsType, ObjectsStay
  <2>13. memPhase' \in {"open", "realizing", "failed"}
    BY <1>1, <2>1
  <2> HIDE DEF a, rows
  <2> QED
    BY <1>1, <2>1, <2>2, <2>5, <2>8, <2>9, <2>10, <2>11, <2>12, <2>13 DEF MemoryInv
<1>5. (StoreWanted(i) /\ Settle(Failed(mem, StoreError)) /\ UNCHANGED arrayVars)
      \/ \E m \in {ArrayMemory(virt[i])} :
           /\ mem' = m
           /\ memPhase' = IF m.error # "" THEN "failed" ELSE IF Unrealized = {i} THEN "open" ELSE memPhase
           /\ IF m.error = "" THEN RealizeVirt(i, RowsInMem(virt[i])) ELSE SizeOnly(i, RowsInMem(virt[i]))
  BY Zenon DEF RealizeOne
<1> QED
  BY <1>3, <1>4, <1>5, Zenon

\* An access changes neither the sizes of an array nor whether it has a store.
LEMMA AccessKeepsInv ==
  ASSUME MemoryInv, NEW i \in DOMAIN virt, NEW w \in BOOLEAN, NEW start \in Rows(virt[i].rows_in_array),
         NEW end \in start + 1 .. Lesser(virt[i].rows_in_array, start + virt[i].maxaccess), Access(i, start, end, w)
  PROVE  MemoryInv'
<1>1. /\ memPhase = "open" /\ UNCHANGED <<memJob, memPhase, mem, objects, limits, images>>
      /\ access_virt_array(i, start, end, w)
  BY DEF Access, access_virt_sarray, access_virt_barray
<1>2. ArraysRight /\ ArraysSized /\ PoolsRight(mem) /\ ObjectsRight(ListsOf(mem), objects) /\ NoBug(mem)
      /\ \A j \in Unrealized : ~virt[j].b_s_open
  BY <1>1 DEF MemoryInv, InUse
<1>3. start \in 0 .. virt[i].rows_in_array /\ end \in start + 1 .. virt[i].rows_in_array
  <2>1. virt[i].rows_in_array \in Nat /\ virt[i].maxaccess \in Nat
    BY <1>2, ArraySizes
  <2> QED
    BY <2>1 DEF Rows, Lesser
<1>4. ArraysRight' /\ DOMAIN virt' = DOMAIN virt /\ SameArray(virt[i], virt'[i]) /\ \A j \in DOMAIN virt : j # i => virt'[j] = virt[j]
  BY <1>1, <1>2, <1>3, AccessStepKeeps
<1>5. \A j \in DOMAIN virt : /\ virt'[j].width = virt[j].width /\ virt'[j].maxaccess = virt[j].maxaccess
                             /\ virt'[j].rows_in_array = virt[j].rows_in_array
                             /\ virt'[j].realized = virt[j].realized /\ virt'[j].b_s_open = virt[j].b_s_open
  BY <1>4 DEF SameArray
<1>6. ArraysSized' /\ Stores' = Stores /\ \A j \in Unrealized' : ~virt'[j].b_s_open
  BY <1>2, <1>4, <1>5 DEF ArraysSized, Stores, Unrealized
<1>7. mem' = mem /\ memPhase' = "open" /\ ObjectsRight(ListsOf(mem), objects')
  BY <1>1, <1>2
<1> QED
  BY <1>1, <1>2, <1>4, <1>6, <1>7, CallKeeps

\* The window of an array without a store is all of it.
LEMMA NoVirtualBug ==
  ASSUME ArraysRight, NEW i \in DOMAIN virt, NEW start \in 0 .. virt[i].rows_in_array, NEW end \in start + 1 .. virt[i].rows_in_array
  PROVE  ~VirtualBug(virt[i], start, end)
<1>1. virt[i] \in ArrayRecord /\ (virt[i].realized => RowsRight(virt[i], written[i]))
  BY DEF ArraysRight, ArrayRight
<1>2. SUFFICES ASSUME virt[i].realized, OutsideWindow(virt[i], start, end), ~virt[i].b_s_open PROVE FALSE
  BY DEF VirtualBug
<1>3. virt[i].cur_start_row = 0 /\ virt[i].rows_in_mem = virt[i].rows_in_array
  BY <1>1, <1>2 DEF RowsRight
<1> QED
  BY <1>1, <1>2, <1>3 DEF OutsideWindow, ArrayRecord

LEMMA RefusalKeeps ==
  ASSUME MemoryInv, NEW i \in DOMAIN virt, NEW w \in BOOLEAN, NEW start \in Rows(virt[i].rows_in_array),
         NEW end \in start + 1 .. Lesser(virt[i].rows_in_array, start + virt[i].maxaccess), AccessRefused(i, start, end, w)
  PROVE  MemoryInv'
<1>1. memPhase = "open" /\ UNCHANGED <<memJob, objects, limits, images, arrayVars>>
  BY Zenon DEF AccessRefused
<1>2. ArraysRight /\ ArraysSized /\ PoolsRight(mem) /\ ObjectsRight(ListsOf(mem), objects) /\ NoBug(mem)
  BY <1>1 DEF MemoryInv, InUse
<1>3. start \in 0 .. virt[i].rows_in_array /\ end \in start + 1 .. virt[i].rows_in_array
  <2>1. virt[i].rows_in_array \in Nat /\ virt[i].maxaccess \in Nat
    BY <1>2, ArraySizes
  <2> QED
    BY <2>1 DEF Rows, Lesser
<1>4. ~VirtualBug(virt[i], start, end)
  BY <1>2, <1>3, NoVirtualBug
<1> DEFINE n == Failed(mem, "bad access")
<1>5. Settle(n)
  BY <1>4, Zenon DEF AccessRefused
<1>6. Allocated(mem, n) /\ ~Fine(n)
  <2>1. mem \in MemoryRecord
    BY <1>2 DEF PoolsRight
  <2> QED
    BY <1>2, <2>1, ReportedErrors, FailedRight, FailedFails, Zenon
<1> HIDE DEF n
<1>7. mem' = n /\ memPhase' = "failed"
  BY <1>5, <1>6, SettleIs
<1>8. PoolsRight(n) /\ n.files = mem.files /\ NoBug(n) /\ Grown(ListsOf(mem), ListsOf(n))
  BY <1>6 DEF Allocated
<1>9. ObjectsRight(ListsOf(n), objects')
  BY <1>1, <1>2, <1>8, PoolsType, ObjectsStay
<1>10. ArraysRight' /\ ArraysSized' /\ Stores' = Stores
  BY <1>1, <1>2 DEF arrayVars, ArraysRight, HeldInWindow, HeldRight, ArraysSized, Stores
<1> QED
  BY <1>1, <1>7, <1>8, <1>9, <1>10, CallKeeps

LEMMA ArraysForgotten ==
  ForgetArrays => ArraysRight' /\ ArraysSized' /\ Stores' = {} /\ Unrealized' = {}
<1> SUFFICES ASSUME ForgetArrays PROVE ArraysRight' /\ ArraysSized' /\ Stores' = {} /\ Unrealized' = {}
  OBVIOUS
<1>1. virt' = << >> /\ written' = << >> /\ held' = None
  BY DEF ForgetArrays
<1>2. ArraysRight'
  BY <1>1 DEF ArraysRight, None, HeldInWindow, HeldRight
<1> QED
  BY <1>1, <1>2 DEF ArraysSized, Stores, Unrealized

LEMMA AllStoresClosed ==
  ASSUME MemoryInv, InUse
  PROVE  /\ PoolsRight(StoresClosed(mem)) /\ ListsOf(StoresClosed(mem)) = ListsOf(mem)
         /\ StoresClosed(mem).files = 0 /\ NoBug(StoresClosed(mem))
<1>1. PoolsRight(mem) /\ NoBug(mem) /\ mem.files = Cardinality(Stores) /\ mem.files \in Int
  BY DEF MemoryInv, PoolsRight, MemoryRecord
<1>2. mem.files - Cardinality(Stores) = 0
  BY <1>1
<1>3. StoresClosed(mem) = [mem EXCEPT !.files = mem.files - Cardinality(Stores)]
  BY DEF StoresClosed, Stores
<1> QED
  BY <1>1, <1>2, <1>3, StoresCounted

\* After an abort the permanent pool is as it was, and nothing else is left.
LEMMA AbortKeeps == MemoryInv /\ jpeg_abort_memory => MemoryInv'
<1> SUFFICES ASSUME MemoryInv, jpeg_abort_memory PROVE MemoryInv'
  OBVIOUS
<1> DEFINE g == StoresClosed(mem)
           f == free_pool(g, "image")
           none == ""
           n == [f EXCEPT !.error = none, !.last = 0]
<1>1. /\ memPhase \in {"open", "failed"} /\ memPhase' = "open" /\ UNCHANGED memJob
      /\ mem' = n /\ objects' = {o \in objects : o.pool # "image"} /\ ForgetArrays
  BY Zenon DEF jpeg_abort_memory
<1>2. none \in Errors
  BY Zenon DEF Errors
<1>3. n.error = none => Fine(n)
  BY Zenon DEF Fine
<1> HIDE DEF none
<1>4. InUse /\ InUse' /\ "image" \in Pools
  BY <1>1 DEF InUse, Pools
<1>5. PoolsRight(g) /\ ListsOf(g) = ListsOf(mem) /\ g.files = 0 /\ NoBug(g)
  BY <1>4, AllStoresClosed
<1>6. Freed(g, "image", f)
  BY <1>4, <1>5, FreeRight
<1>7. PoolsRight(f) /\ f.files = 0 /\ f \in MemoryRecord
  BY <1>5, <1>6 DEF Freed, PoolsRight
<1>8. ObjectsRight(ListsOf(f), objects')
  <2>1. ObjectsRight(ListsOf(g), objects)
    BY <1>4, <1>5 DEF MemoryInv
  <2> QED
    BY <1>1, <1>4, <1>5, <1>6, <2>1, OtherObjectsStay
<1> HIDE DEF f, g
<1>9. /\ n \in MemoryRecord /\ n.chunks = f.chunks /\ n.total = f.total /\ n.files = 0
      /\ n.small_list = f.small_list /\ n.large_list = f.large_list /\ n.error = none
  BY <1>2, <1>7 DEF MemoryRecord
<1> HIDE DEF n
<1>10. ListsOf(n) = ListsOf(f)
  BY <1>9 DEF ListsOf
<1>11. PoolsRight(n)
  BY <1>7, <1>9, <1>10 DEF PoolsRight, ChunksRight
<1>12. NoBug(n)
  BY <1>3, <1>9, FineNoBug
<1>13. ArraysRight' /\ ArraysSized' /\ Stores' = {} /\ Unrealized' = {}
  BY <1>1, ArraysForgotten
<1>14. n.files = Cardinality(Stores')
  BY <1>9, <1>13, FS_EmptySet
<1>15. PoolsRight(mem') /\ ObjectsRight(ListsOf(mem'), objects') /\ NoBug(mem') /\ mem'.files = Cardinality(Stores')
  BY <1>1, <1>8, <1>10, <1>11, <1>12, <1>14
<1> QED
  BY <1>1, <1>4, <1>13, <1>15 DEF MemoryInv

\* With both pools freed no chunk is left but the one of the manager itself.
LEMMA DestructKeeps == MemoryInv /\ self_destruct => MemoryInv'
<1> SUFFICES ASSUME MemoryInv, self_destruct PROVE MemoryInv'
  OBVIOUS
<1> DEFINE g == StoresClosed(mem)
           f == free_pool(g, "image")
           e == free_pool(f, "permanent")
           n == [e EXCEPT !.chunks = {c \in @ : c.id # 1}, !.last = 0]
<1>1. /\ memPhase \in {"open", "failed"} /\ memPhase' = "done" /\ UNCHANGED memJob
      /\ mem' = n /\ objects' = {} /\ ForgetArrays
  BY DEF self_destruct
<1>2. InUse /\ ~InUse' /\ "image" \in Pools /\ "permanent" \in Pools /\ \A q \in Lists : q[2] = "image" \/ q[2] = "permanent"
  BY <1>1 DEF InUse, Pools, Lists
<1>3. PoolsRight(g) /\ g.files = 0 /\ NoBug(g)
  BY <1>2, AllStoresClosed
<1>4. Freed(g, "image", f)
  BY <1>2, <1>3, FreeRight
<1>5. PoolsRight(f) /\ f.files = 0 /\ f.error = g.error
  BY <1>3, <1>4 DEF Freed
<1>6. Freed(f, "permanent", e)
  BY <1>2, <1>5, FreeRight
<1>7. PoolsRight(e) /\ e.files = 0 /\ e.error = g.error /\ e \in MemoryRecord
  BY <1>5, <1>6 DEF Freed, PoolsRight
<1> HIDE DEF g, f, e
<1>8. \A q \in Lists : ListsOf(e)[q] = << >>
  BY <1>2, <1>4, <1>6 DEF Freed
<1>9. \A c \in e.chunks : c.id = 1
  <2>1. ListsMatch(ListsOf(e), e.chunks)
    BY <1>7 DEF PoolsRight
  <2> QED
    BY <1>8, <2>1 DEF ListsMatch
<1>10. n.chunks = {} /\ n.files = 0 /\ n.error = e.error
  BY <1>7, <1>9 DEF MemoryRecord
<1> HIDE DEF n
<1>11. NoBug(n)
  BY <1>3, <1>7, <1>10, FineKept
<1>12. ArraysRight' /\ ArraysSized' /\ Unrealized' = {}
  BY <1>1, ArraysForgotten
<1>13. mem'.chunks = {} /\ mem'.files = 0 /\ NoBug(mem')
  BY <1>1, <1>10, <1>11
<1> QED
  BY <1>1, <1>2, <1>12, <1>13 DEF MemoryInv

\* Nothing is allocated before the manager itself.
LEMMA NothingYet ==
  /\ NoMemory \in MemoryRecord /\ ChunksRight(NoMemory) /\ NoMemory.chunks = {} /\ NoMemory.files = 0 /\ NoBug(NoMemory)
  /\ \A q \in Lists : ListsOf(NoMemory)[q] = << >>
  /\ FreshId(NoMemory) = 1
<1> DEFINE none == ""
           empty == [p \in Pools |-> << >>]
           n == [small_list |-> empty, large_list |-> empty, total |-> 0, chunks |-> {}, files |-> 0, error |-> none, last |-> 0]
<1>1. NoMemory = n
  BY Zenon DEF NoMemory
<1>2. none \in Errors
  BY Zenon DEF Errors
<1>3. n.error = none => Fine(n)
  BY Zenon DEF Fine
<1> HIDE DEF none
<1>4. n \in MemoryRecord /\ n.chunks = {} /\ n.files = 0 /\ n.error = none /\ n.small_list = empty /\ n.large_list = empty /\ n.total = 0
  BY <1>2 DEF MemoryRecord
<1> HIDE DEF n
<1>5. ChunksRight(n)
  BY <1>4, FS_EmptySet, SumEmpty DEF ChunksRight, Numbered, SizeOfChunks
<1>6. \A q \in Lists : ListsOf(n)[q] = << >>
  BY <1>4 DEF ListsOf, Lists
<1>7. FreshId(n) = 1
  BY <1>4, FS_EmptySet DEF FreshId
<1> QED
  BY <1>1, <1>3, <1>4, <1>5, <1>6, <1>7, FineNoBug

LEMMA ManagerKeeps == MemoryInv /\ jinit_memory_mgr => MemoryInv'
<1> SUFFICES ASSUME MemoryInv, jinit_memory_mgr PROVE MemoryInv'
  OBVIOUS
<1>1. memPhase = "closed" /\ UNCHANGED <<memJob, objects, limits, arrayVars>>
  BY DEF jinit_memory_mgr
<1>2. mem = NoMemory /\ objects = {} /\ virt = << >> /\ ArraysRight /\ ArraysSized
  BY <1>1 DEF MemoryInv
<1>3. ArraysRight' /\ ArraysSized' /\ Stores' = {} /\ Unrealized' = {} /\ memJob' \in MemoryJobs
  BY <1>1, <1>2 DEF MemoryInv, arrayVars, ArraysRight, HeldInWindow, HeldRight, ArraysSized, Stores, Unrealized
<1>4. CASE mem' = mem /\ memPhase' = "done"
  <2>1. mem'.chunks = {} /\ mem'.files = 0 /\ NoBug(mem')
    BY <1>2, <1>4, NothingYet
  <2> QED
    BY <1>1, <1>2, <1>3, <1>4, <2>1 DEF MemoryInv, InUse
<1>5. CASE mem' = [jpeg_get(mem, ManagerSize) EXCEPT !.last = 0] /\ memPhase' = "open"
  <2> DEFINE g == jpeg_get(mem, ManagerSize)
             n == [g EXCEPT !.last = 0]
             c == [id |-> 1, size |-> ManagerSize]
  <2>1. Got(mem, ManagerSize, g)
    BY <1>2, NothingYet, GetRight, MemoryAssumption
  <2> HIDE DEF g
  <2>2. /\ g \in MemoryRecord /\ ChunksRight(g) /\ g.chunks = {c} /\ g.files = 0 /\ NoBug(g)
        /\ g.small_list = mem.small_list /\ g.large_list = mem.large_list
    BY <1>2, <2>1, NothingYet, FineKept DEF Got
  <2>3. /\ n \in MemoryRecord /\ n.chunks = g.chunks /\ n.total = g.total /\ n.files = 0 /\ n.error = g.error
        /\ n.small_list = g.small_list /\ n.large_list = g.large_list
    BY <2>2 DEF MemoryRecord
  <2> HIDE DEF n
  <2>4. ListsOf(n) = ListsOf(mem)
    BY <2>2, <2>3 DEF ListsOf
  <2>5. \A q \in Lists : ListsOf(n)[q] = << >>
    BY <1>2, <2>4, NothingYet
  <2>6. ChunksRight(n) /\ NoBug(n)
    BY <2>2, <2>3, FineKept DEF ChunksRight
  <2>7. ListsMatch(ListsOf(n), n.chunks)
    BY <2>2, <2>3, <2>5 DEF ListsMatch
  <2>8. SmallAligned(ListsOf(n))
    <3>1. \A pool \in Pools : <<"small", pool>> \in Lists
      BY DEF Lists
    <3> QED
      BY <2>5, <3>1 DEF SmallAligned
  <2>9. PoolsRight(n)
    BY <2>2, <2>3, <2>6, <2>7, <2>8 DEF PoolsRight
  <2>10. ObjectsRight(ListsOf(n), objects')
    BY <1>1, <1>2 DEF ObjectsRight
  <2>11. n.files = Cardinality(Stores')
    BY <1>3, <2>3, FS_EmptySet
  <2>12. mem' = n
    BY <1>5 DEF n, g
  <2> QED
    BY <1>3, <1>5, <2>6, <2>9, <2>10, <2>11, <2>12 DEF MemoryInv
<1> QED
  BY <1>4, <1>5 DEF jinit_memory_mgr

LEMMA MemoryInitInv == MemoryInit => MemoryInv
<1> SUFFICES ASSUME MemoryInit PROVE MemoryInv
  OBVIOUS
<1>1. memPhase = "closed" /\ memJob \in MemoryJobs /\ mem = NoMemory /\ objects = {} /\ ArrayIdle
  BY DEF MemoryInit, MemoryEmpty
<1>2. ArraysRight /\ virt = << >>
  BY <1>1, ArraysInit DEF ArrayIdle
<1>3. NoBug(mem)
  BY <1>1, NothingYet
<1> QED
  BY <1>1, <1>2, <1>3 DEF MemoryInv, InUse, ArraysSized

LEMMA MemoryStays == MemoryInv /\ UNCHANGED memoryVars => MemoryInv'
BY DEF memoryVars, MemoryInv, ArraysRight, HeldInWindow, HeldRight, ArraysSized, InUse, Unrealized, Stores, LimitsRight,
       ToRealize, InMemory

\* The invariant is inductive.
LEMMA MemoryStep == MemoryInv /\ [MemoryNext]_memoryVars => MemoryInv'
<1> SUFFICES ASSUME MemoryInv, [MemoryNext]_memoryVars PROVE MemoryInv'
  OBVIOUS
<1>1. ASSUME request_virt_sarray \/ request_virt_barray PROVE MemoryInv'
  BY <1>1, RequestVirtKeeps DEF request_virt_sarray, request_virt_barray
<1>2. ASSUME NEW i \in DOMAIN virt, RealizeOne(i) PROVE MemoryInv'
  BY <1>2, RealizeOneKeeps
<1>3. ASSUME AnyAccess PROVE MemoryInv'
  <2>1. PICK i \in DOMAIN virt, w \in BOOLEAN : \E start \in Rows(virt[i].rows_in_array) :
          \E end \in start + 1 .. Lesser(virt[i].rows_in_array, start + virt[i].maxaccess) :
            Access(i, start, end, w) \/ AccessRefused(i, start, end, w)
    BY <1>3 DEF AnyAccess
  <2> QED
    BY <2>1, AccessKeepsInv, RefusalKeeps
<1>4. ASSUME MemoryDone \/ UNCHANGED memoryVars PROVE MemoryInv'
  BY <1>4, MemoryStays DEF MemoryDone
<1> QED
  BY <1>1, <1>2, <1>3, <1>4, ManagerKeeps, AllocObjectKeeps, AllocArrayKeeps, RealizationBegins, AbortKeeps, DestructKeeps
     DEF MemoryNext

-----------------------------------------------------------------------------
(* What the invariant says of the manager.                                 *)

\* Every chunk is on a list, and every list has chunks of the system only.
LEMMA ListedIds ==
  ASSUME NEW m, PoolsRight(m)
  PROVE  {c.id : c \in m.chunks} = {1} \cup {c.id : c \in UNION {ChunksOf(m, p) : p \in Pools}}
<1> DEFINE L == ListsOf(m)
           listed == UNION {ChunksOf(m, p) : p \in Pools}
<1>1. m \in MemoryRecord /\ ListsMatch(L, m.chunks) /\ \E c \in m.chunks : c.id = 1
  BY DEF PoolsRight
<1>2. \A e : e \in listed <=> \E q \in Lists : \E i \in DOMAIN L[q] : L[q][i] = e
  <2>1. \A p \in Pools : /\ <<"small", p>> \in Lists /\ L[<<"small", p>>] = m.small_list[p]
                         /\ <<"large", p>> \in Lists /\ L[<<"large", p>>] = m.large_list[p]
                         /\ m.small_list[p] \in Seq(Entry) /\ m.large_list[p] \in Seq(Entry)
    BY <1>1, ListsType
  <2>2. \A q \in Lists : \E p \in Pools : q = <<"small", p>> \/ q = <<"large", p>>
    BY DEF Lists
  <2> HIDE DEF L
  <2>3. ASSUME NEW e, e \in listed
        PROVE  \E q \in Lists : \E i \in DOMAIN L[q] : L[q][i] = e
    <3>1. PICK p \in Pools : e \in ToSet(m.small_list[p]) \/ e \in ToSet(m.large_list[p])
      BY <2>3 DEF ChunksOf
    <3>2. (\E i \in DOMAIN L[<<"small", p>>] : L[<<"small", p>>][i] = e) \/ \E i \in DOMAIN L[<<"large", p>>] : L[<<"large", p>>][i] = e
      BY <2>1, <3>1 DEF ToSet
    <3> QED
      BY <2>1, <3>2
  <2>4. ASSUME NEW e, NEW q \in Lists, NEW i \in DOMAIN L[q], L[q][i] = e
        PROVE  e \in listed
    <3>1. PICK p \in Pools : q = <<"small", p>> \/ q = <<"large", p>>
      BY <2>2
    <3>2. e \in ToSet(m.small_list[p]) \/ e \in ToSet(m.large_list[p])
      BY <2>1, <2>4, <3>1 DEF ToSet
    <3> QED
      BY <3>2 DEF ChunksOf
  <2> QED
    BY <2>3, <2>4
<1> HIDE DEF L, listed
<1>3. ASSUME NEW c \in m.chunks, c.id # 1 PROVE \E e \in listed : e.id = c.id
  BY <1>1, <1>2, <1>3 DEF ListsMatch
<1>4. ASSUME NEW e \in listed PROVE \E c \in m.chunks : e.id = c.id
  BY <1>1, <1>2 DEF ListsMatch
<1>5. {c.id : c \in m.chunks} = {1} \cup {c.id : c \in listed}
  BY <1>1, <1>3, <1>4
<1> QED
  BY <1>5 DEF listed

LEMMA SpaceRight == MemoryInv => SpaceAccounted
<1> SUFFICES ASSUME MemoryInv, InUse PROVE SpaceAccounted
  BY DEF SpaceAccounted
<1> DEFINE L == ListsOf(mem)
           N == [p \in Pools |-> Len(L[<<"small", p>>]) + Len(L[<<"large", p>>])]
           M == [p \in Pools |-> Len(mem.small_list[p]) + Len(mem.large_list[p])]
<1>1. PoolsRight(mem)
  BY DEF MemoryInv
<1>2. mem.total = SizeOfChunks(mem.chunks)
  BY <1>1 DEF PoolsRight, ChunksRight
<1>3. {c.id : c \in mem.chunks} = {1} \cup {c.id : c \in ListedChunks}
  BY <1>1, ListedIds DEF ListedChunks
<1>4. Cardinality(mem.chunks) = 1 + SumOf(Pools, M)
  <2>1. M = N
    BY <1>1, ListsType DEF PoolsRight
  <2>2. /\ L \in [Lists -> Seq(Entry)] /\ mem.chunks \in SUBSET Chunk /\ IsFiniteSet(mem.chunks) /\ Numbered(mem.chunks)
        /\ ListsMatch(L, mem.chunks) /\ \E c \in mem.chunks : c.id = 1
    BY <1>1, ListsType DEF PoolsRight, MemoryRecord, ChunksRight
  <2> HIDE DEF L
  <2>3. Cardinality(mem.chunks) = 1 + SumOf(Pools, N)
    BY <2>2, ChunksCounted
  <2> QED
    BY <2>1, <2>3, Zenon
<1> QED
  BY <1>2, <1>3, <1>4 DEF SpaceAccounted

LEMMA ObjectsInside == MemoryInv => ObjectsApart
<1> SUFFICES ASSUME MemoryInv, NEW o \in objects
             PROVE  /\ (o.from - SmallHdr) % ALIGN = 0
                    /\ \E c \in mem.chunks : c.id = o.chunk /\ o.from + o.size <= c.size
                    /\ \A n \in objects \ {o} : Apart(o, n)
  BY DEF ObjectsApart, Apart
<1> DEFINE L == ListsOf(mem)
<1>1. PoolsRight(mem) /\ ObjectsRight(L, objects)
  BY DEF MemoryInv, InUse
<1>2. o \in ObjectRecord /\ Lies(o, L) /\ Multiple(o.from - SmallHdr) /\ \A n \in objects \ {o} : Apart(o, n)
  BY <1>1 DEF ObjectsRight
<1>3. (o.from - SmallHdr) % ALIGN = 0
  <2>1. o.from - SmallHdr \in Int
    BY <1>2, HeadersType DEF ObjectRecord
  <2> QED
    BY <1>2, <2>1, Multiples
<1>4. \E c \in mem.chunks : c.id = o.chunk /\ o.from + o.size <= c.size
  <2>1. L \in [Lists -> Seq(Entry)] /\ ListsMatch(L, mem.chunks)
    BY <1>1, PoolsType DEF PoolsRight
  <2> HIDE DEF L
  <2>2. PICK q \in Lists : \E i \in DOMAIN L[q] : L[q][i].id = o.chunk /\ o.from + o.size <= Header(q) + L[q][i].used
    BY <1>2 DEF Lies
  <2>3. PICK i \in DOMAIN L[q] : L[q][i].id = o.chunk /\ o.from + o.size <= Header(q) + L[q][i].used
    BY <2>2
  <2>4. PICK c \in mem.chunks : c.id = L[q][i].id /\ c.size = L[q][i].used + L[q][i].left + Header(q)
    BY <2>1 DEF ListsMatch
  <2>5. L[q][i].used \in Nat /\ L[q][i].left \in Nat /\ Header(q) \in Nat /\ o.from \in Nat /\ o.size \in Nat
    BY <1>2, <2>1, PlaceType, HeaderType DEF ObjectRecord
  <2> QED
    BY <2>3, <2>4, <2>5
<1> QED
  BY <1>2, <1>3, <1>4

\* Windows in rows and in units.
LEMMA Scaled ==
  ASSUME NEW x \in Nat, NEW k \in Nat, NEW y \in Nat, NEW r \in Nat \ {0}, x <= k * y
  PROVE  x * r <= k * (y * r)
<1>1. k * y \in Int
  OBVIOUS
<1>2. x * r <= (k * y) * r
  BY <1>1, ProductOrder
<1>3. (k * y) * r = k * (y * r)
  OBVIOUS
<1> QED
  BY <1>2, <1>3

\* Together the windows take no more than the share of each times the least of all.
LEMMA WindowsWithin == MemoryInv => WithinLimit
<1> SUFFICES ASSUME MemoryInv, memPhase = "realizing" PROVE WithinLimit
  BY DEF WithinLimit
<1> DEFINE E == [i \in DOMAIN virt |-> Least(virt[i])]
           H == [i \in DOMAIN virt |-> Most(virt[i])]
           F == [i \in InMemory |-> virt[i].rows_in_mem * RowSize(virt[i])]
           k == limits.max_minheights
<1>1. ArraysRight /\ ArraysSized /\ LimitsRight
  BY DEF MemoryInv
<1>2. InMemory \subseteq ToRealize /\ ToRealize \subseteq DOMAIN virt /\ IsFiniteSet(InMemory) /\ IsFiniteSet(ToRealize)
  <2>1. InMemory \subseteq ToRealize /\ ToRealize \subseteq DOMAIN virt
    BY DEF InMemory, ToRealize
  <2> QED
    BY <1>1, <2>1, ArraysFinite
<1>3. /\ k \in Nat \ {0} /\ limits.avail \in Int /\ limits.least = SumOf(ToRealize, E)
      /\ \/ SumOf(ToRealize, H) <= limits.avail
         \/ k = 1
         \/ k * limits.least <= limits.avail
  BY <1>1 DEF LimitsRight
<1>4. \A i \in ToRealize : E[i] \in Nat /\ H[i] \in Nat
  BY <1>1, <1>2, ArraySizes
<1>5. \A i \in InMemory : F[i] \in Int /\ F[i] <= 1 * H[i] /\ F[i] <= k * E[i]
  <2> SUFFICES ASSUME NEW i \in InMemory PROVE F[i] \in Int /\ F[i] <= 1 * H[i] /\ F[i] <= k * E[i]
    OBVIOUS
  <2> DEFINE a == virt[i]
  <2>1. i \in DOMAIN virt
    BY <1>2
  <2>2. /\ a.rows_in_mem \in Nat /\ a.rows_in_array \in Nat /\ a.maxaccess \in Nat /\ RowSize(a) \in Nat \ {0}
    BY <1>1, <2>1, ArraySizes DEF ArrayRecord
  <2>3. a.rows_in_mem <= a.rows_in_array /\ a.rows_in_mem <= k * a.maxaccess
    BY <1>1 DEF LimitsRight
  <2>4. F[i] = a.rows_in_mem * RowSize(a) /\ H[i] = a.rows_in_array * RowSize(a) /\ E[i] = a.maxaccess * RowSize(a)
    BY <2>1 DEF Least, Most
  <2> HIDE DEF a, F, H, E, k
  <2>5. a.rows_in_mem <= 1 * a.rows_in_array
    BY <2>2, <2>3
  <2>6. F[i] <= 1 * H[i]
    BY <2>2, <2>4, <2>5, Scaled
  <2>7. F[i] <= k * E[i]
    BY <1>3, <2>2, <2>3, <2>4, Scaled
  <2>8. F[i] \in Int
    BY <2>2, <2>4
  <2> QED
    BY <2>6, <2>7, <2>8
<1> HIDE DEF E, H, F, k
<1>6. \A i \in InMemory : E[i] \in Int /\ H[i] \in Int
  BY <1>2, <1>4
<1>7. SumOf(InMemory, F) <= 1 * SumOf(InMemory, H) /\ SumOf(InMemory, F) <= k * SumOf(InMemory, E)
  <2>1. SumOf(InMemory, F) <= 1 * SumOf(InMemory, H)
    BY <1>2, <1>5, <1>6, SumAtMost
  <2>2. k \in Int
    BY <1>3
  <2>3. SumOf(InMemory, F) <= k * SumOf(InMemory, E)
    BY <1>2, <1>5, <1>6, <2>2, SumAtMost
  <2> QED
    BY <2>1, <2>3
<1>8. SumOf(InMemory, H) <= SumOf(ToRealize, H) /\ SumOf(InMemory, E) <= SumOf(ToRealize, E)
  BY <1>2, <1>4, SumOfPart
<1>9. /\ SumOf(InMemory, F) \in Int /\ SumOf(InMemory, E) \in Int /\ SumOf(InMemory, H) \in Int
      /\ SumOf(ToRealize, E) \in Int /\ SumOf(ToRealize, H) \in Int
  BY <1>2, <1>4, <1>5, <1>6, SumInt
<1> DEFINE used == SumOf(InMemory, F)
           p == k * limits.least
           t == k * SumOf(InMemory, E)
<1>10. used <= p /\ p \in Int
  <2>1. t <= p /\ t \in Int /\ p \in Int
    <3> DEFINE u == SumOf(InMemory, E)
               v == SumOf(ToRealize, E)
    <3>1. u \in Int /\ v \in Int /\ u <= v /\ k \in Nat \ {0} /\ limits.least = v
      BY <1>3, <1>8, <1>9
    <3> HIDE DEF u, v
    <3>2. u * k <= v * k /\ u * k = k * u /\ v * k = k * v /\ k * u \in Int /\ k * v \in Int
      BY <3>1, ProductOrder
    <3>3. k * u <= k * v
      BY <3>2
    <3> QED
      BY <3>1, <3>2, <3>3 DEF u, v
  <2>2. used <= t /\ used \in Int
    BY <1>7, <1>9
  <2> HIDE DEF t, p, used
  <2> QED
    BY <2>1, <2>2
<1>11. used <= (IF limits.avail > limits.least THEN limits.avail ELSE limits.least)
  <2>1. CASE SumOf(ToRealize, H) <= limits.avail
    <3>1. used <= limits.avail
      BY <1>3, <1>7, <1>8, <1>9, <2>1
    <3> HIDE DEF used
    <3> QED
      BY <1>3, <1>9, <3>1 DEF used
  <2>2. CASE k = 1
    <3>1. used <= limits.least
      BY <1>3, <1>9, <1>10, <2>2
    <3> QED
      BY <1>3, <1>9, <3>1
  <2>3. CASE p <= limits.avail
    <3>1. used <= limits.avail
      <4> HIDE DEF p
      <4> QED
        BY <1>3, <1>9, <1>10, <2>3
    <3> QED
      BY <1>3, <1>9, <3>1
  <2> QED
    BY <1>3, <2>1, <2>2, <2>3
<1> QED
  BY <1>11 DEF WithinLimit, F

LEMMA MemoryInvSound == MemoryInv => MemorySound /\ RowsKept
<1> SUFFICES ASSUME MemoryInv PROVE MemorySound /\ RowsKept
  OBVIOUS
<1>1. SpaceAccounted /\ ObjectsApart /\ WithinLimit
  BY SpaceRight, ObjectsInside, WindowsWithin
<1>2. (memPhase = "done" => mem.chunks = {} /\ mem.files = 0) /\ ArraysRight /\ NoBug(mem)
  BY DEF MemoryInv
<1>3. MemorySound
  BY <1>1, <1>2, Zenon DEF MemorySound, NoBug
<1> QED
  BY <1>2, <1>3, ArraysKept

\* The manager's books are right, its objects apart, its windows within the limit, and what it
\* took is given back, for any requests, sizes, alignment and memory (jmemmgr.c).
THEOREM MemoryAlwaysSound == MemorySpec => []MemorySound
<1>1. MemoryInv /\ [MemoryNext]_memoryVars => MemoryInv'
  BY MemoryStep
<1> QED
  BY <1>1, MemoryInitInv, MemoryInvSound, PTL DEF MemorySpec

\* The rows of the arrays are kept in the windows the manager gives them.
THEOREM RowsKeptInMemory == MemorySpec => []RowsKept
<1>1. MemoryInv /\ [MemoryNext]_memoryVars => MemoryInv'
  BY MemoryStep
<1> QED
  BY <1>1, MemoryInitInv, MemoryInvSound, PTL DEF MemorySpec

-----------------------------------------------------------------------------
(***************************************************************************)
(* Lossless transformations: pictures, arrays and tables are turned together. *)
(*                                                                         *)
(* The largest sampling factors, which are folds of the community modules. *)
(***************************************************************************)
\* A fold takes the elements of a finite set one after the other in the order of Ch: it exists as a
\* function of the sets that are left, with values in every set that its operation keeps.
Foldable(Base, Ch, Good, base, Op) ==
  /\ IsFiniteSet(Base) /\ \A T \in SUBSET Base : T # {} => Ch[T] \in T
  /\ base \in Good /\ \A x \in Base, g \in Good : Op[<<x, g>>] \in Good
Folded(f, Base, Ch, Good, base, Op) ==
  /\ f \in [SUBSET Base -> Good] /\ f[{}] = base
  /\ \A T \in SUBSET Base : T # {} => f[T] = Op[<<Ch[T], f[T \ {Ch[T]}]>>]
\* Such a function exists.
LEMMA FoldExists ==
  ASSUME NEW Base, NEW Ch, NEW Good, NEW base, NEW Op, Foldable(Base, Ch, Good, base, Op)
  PROVE  \E f : Folded(f, Base, Ch, Good, base, Op)
<1> USE DEF Foldable
<1> DEFINE Small(n) == {T \in SUBSET Base : Cardinality(T) <= n}
           Is(f, n) == f[{}] = base /\ \A T \in Small(n) : T # {} => f[T] = Op[<<Ch[T], f[T \ {Ch[T]}]>>]
           G == {n \in Nat : \E f \in [Small(n) -> Good] : Is(f, n)}
<1>1. \A T \in SUBSET Base : IsFiniteSet(T) /\ Cardinality(T) \in Nat
  BY FS_Subset, FS_CardinalityType
<1>2. 0 \in G
  <2>1. Small(0) = {{}}
    <3>1. \A T \in SUBSET Base : Cardinality(T) = 0 <=> T = {}
      BY <1>1, FS_EmptySet
    <3>2. QED
      BY <1>1, <3>1
  <2>2. [s \in {{}} |-> base] \in [Small(0) -> Good] /\ Is([s \in {{}} |-> base], 0)
    BY <2>1
  <2>3. QED
    BY <2>2
<1>3. ASSUME NEW n \in Nat, n \in G PROVE n + 1 \in G
  <2>1. PICK f \in [Small(n) -> Good] : Is(f, n)
    BY <1>3
  <2> DEFINE g == [s \in Small(n + 1) |-> IF s = {} THEN base ELSE Op[<<Ch[s], f[s \ {Ch[s]}]>>]]
  <2>2. ASSUME NEW s \in Small(n + 1), s # {}
        PROVE  Ch[s] \in Base /\ s \ {Ch[s]} \in Small(n)
    <3>1. Ch[s] \in s
      BY <2>2
    <3>2. Cardinality(s \ {Ch[s]}) = Cardinality(s) - 1
      BY <1>1, <3>1, FS_RemoveElement
    <3>3. QED
      BY <1>1, <3>1, <3>2
  <2>3. ASSUME NEW s \in Small(n) PROVE s \in Small(n + 1) /\ f[s] = g[s]
    <3>1. s \in Small(n + 1)
      BY <1>1
    <3> HIDE DEF Small
    <3> QED
      BY <2>1, <3>1
  <2>4. {} \in Small(n + 1)
    BY <1>1, FS_EmptySet
  <2> HIDE DEF Small
  <2>5. g \in [Small(n + 1) -> Good]
    <3>1. ASSUME NEW s \in Small(n + 1), s # {} PROVE Op[<<Ch[s], f[s \ {Ch[s]}]>>] \in Good
      BY <2>1, <2>2, <3>1
    <3> QED
      BY <3>1
  <2>6. Is(g, n + 1)
    <3>1. g[{}] = base
      BY <2>4
    <3>2. ASSUME NEW s \in Small(n + 1), s # {} PROVE g[s] = Op[<<Ch[s], g[s \ {Ch[s]}]>>]
      <4>1. f[s \ {Ch[s]}] = g[s \ {Ch[s]}]
        <5> HIDE DEF g
        <5> QED
          BY <2>2, <2>3, <3>2
      <4>2. g[s] = Op[<<Ch[s], f[s \ {Ch[s]}]>>]
        BY <3>2
      <4> HIDE DEF g
      <4> QED
        BY <4>1, <4>2
    <3> QED
      BY <3>1, <3>2
  <2> HIDE DEF g, Is
  <2>7. n + 1 \in Nat /\ \E h \in [Small(n + 1) -> Good] : Is(h, n + 1)
    BY <2>5, <2>6
  <2> QED
    BY <2>7
<1>4. Cardinality(Base) \in G
  <2> HIDE DEF G
  <2> QED
    BY <1>1, <1>2, <1>3, NumberInduction
<1>5. \A T \in SUBSET Base : Cardinality(T) <= Cardinality(Base)
  BY FS_Subset
<1>6. Small(Cardinality(Base)) = SUBSET Base
  BY <1>5
<1> HIDE DEF Small
<1>7. QED
  BY <1>4, <1>6 DEF Folded

\* Every function that takes the elements so has its values there.
LEMMA FoldStays ==
  ASSUME NEW Base, IsFiniteSet(Base), NEW Ch, \A T \in SUBSET Base : T # {} => Ch[T] \in T,
         NEW Good, NEW f, f[{}] \in Good,
         \A T \in SUBSET Base : T # {} /\ f[T \ {Ch[T]}] \in Good => f[T] \in Good
  PROVE  f[Base] \in Good
<1> DEFINE G == {n \in Nat : \A T \in SUBSET Base : Cardinality(T) = n => f[T] \in Good}
<1>1. \A T \in SUBSET Base : IsFiniteSet(T) /\ Cardinality(T) \in Nat
  BY FS_Subset, FS_CardinalityType
<1>2. 0 \in G
  <2>1. ASSUME NEW T \in SUBSET Base, Cardinality(T) = 0 PROVE f[T] \in Good
    <3>1. T = {}
      BY <1>1, <2>1, FS_EmptySet
    <3> QED
      BY <3>1
  <2> QED
    BY <2>1
<1>3. ASSUME NEW n \in Nat, n \in G PROVE n + 1 \in G
  <2>1. ASSUME NEW T \in SUBSET Base, Cardinality(T) = n + 1 PROVE f[T] \in Good
    <3>1. T # {}
      <4>1. Cardinality({}) = 0
        BY FS_EmptySet
      <4>2. n + 1 # 0
        OBVIOUS
      <4> QED
        BY <2>1, <4>1, <4>2, Zenon
    <3>2. Ch[T] \in T
      BY <3>1
    <3>3. Cardinality(T \ {Ch[T]}) = Cardinality(T) - 1
      BY <1>1, <3>2, FS_RemoveElement
    <3>4. Cardinality(T \ {Ch[T]}) = n /\ T \ {Ch[T]} \in SUBSET Base
      BY <2>1, <3>3
    <3>5. f[T \ {Ch[T]}] \in Good
      BY <1>3, <3>4
    <3> QED
      BY <3>1, <3>5
  <2> QED
    BY <2>1
<1>4. Cardinality(Base) \in Nat /\ Cardinality(Base) \in G
  <2> HIDE DEF G
  <2> QED
    BY <1>1, <1>2, <1>3, NumberInduction
<1> QED
  BY <1>4

\* The largest of a family of numbers, and 1 if there is none.
IsLargest(m, T, H) ==
  /\ m \in Nat \ {0} /\ \A c \in T : H[c] <= m
  /\ m = 1 \/ \E c \in T : H[c] = m
Larger(n, m) == IF n > m THEN n ELSE m
LargestStep(f, T, H) == IF T = {} THEN 1 ELSE Larger(H[Some(T)], f[T \ {Some(T)}])
LargestSteps(f, S, H) == \A T \in SUBSET S : f[T] = LargestStep(f, T, H)

LEMMA LargestExists ==
  ASSUME NEW S, IsFiniteSet(S), NEW H \in [S -> Nat \ {0}]
  PROVE  \E f : f = [T \in SUBSET S |-> LargestStep(f, T, H)]
<1> DEFINE Ch == [T \in SUBSET S |-> Some(T)]
           Op == [p \in S \X Nat |-> Larger(H[p[1]], p[2])]
<1>1. \A T \in SUBSET S : T # {} => Ch[T] = Some(T) /\ Ch[T] \in T
  BY DEF Some
<1>2. \A x \in S, g \in Nat : Op[<<x, g>>] = Larger(H[x], g) /\ Op[<<x, g>>] \in Nat
  BY DEF Larger
<1> HIDE DEF Ch, Op
<1>3. PICK f : Folded(f, S, Ch, Nat, 1, Op)
  <2>1. Foldable(S, Ch, Nat, 1, Op)
    BY <1>1, <1>2 DEF Foldable
  <2> QED
    BY <2>1, FoldExists
<1>4. ASSUME NEW T \in SUBSET S, T # {} PROVE f[T] = Larger(H[Some(T)], f[T \ {Some(T)}])
  <2>1. Ch[T] \in S /\ f[T \ {Ch[T]}] \in Nat
    BY <1>1, <1>3, <1>4 DEF Folded
  <2> QED
    BY <1>1, <1>2, <1>3, <1>4, <2>1 DEF Folded
<1>5. \A T \in SUBSET S : f[T] = LargestStep(f, T, H)
  BY <1>3, <1>4 DEF LargestStep, Folded
<1>6. f = [T \in SUBSET S |-> f[T]]
  BY <1>3 DEF Folded
<1> QED
  BY <1>5, <1>6

LEMMA LargestFound ==
  ASSUME NEW S, IsFiniteSet(S), NEW H \in [S -> Nat \ {0}], NEW f, LargestSteps(f, S, H)
  PROVE  IsLargest(f[S], S, H)
<1> DEFINE Ch == [T \in SUBSET S |-> Some(T)]
           p == [T \in SUBSET S |-> <<T, f[T]>>]
           Good == {q \in (SUBSET S) \X Nat : IsLargest(q[2], q[1], H)}
<1>1. \A T \in SUBSET S : T # {} => Ch[T] = Some(T) /\ Ch[T] \in T
  BY DEF Some
<1>2. \A T \in SUBSET S : p[T] \in Good <=> IsLargest(f[T], T, H)
  BY DEF IsLargest
<1>3. IsLargest(f[{}], {}, H)
  BY DEF IsLargest, LargestSteps, LargestStep
<1>4. ASSUME NEW T \in SUBSET S, T # {}, IsLargest(f[T \ {Some(T)}], T \ {Some(T)}, H)
      PROVE  IsLargest(f[T], T, H)
  <2> DEFINE x == Some(T)
             m == f[T \ {x}]
  <2>1. x \in T /\ f[T] = Larger(H[x], m)
    BY <1>4 DEF Some, LargestSteps, LargestStep
  <2> HIDE DEF x
  <2>2. m \in Nat \ {0} /\ (\A c \in T \ {x} : H[c] <= m) /\ (m = 1 \/ \E c \in T \ {x} : H[c] = m)
    BY <1>4 DEF IsLargest, x
  <2> HIDE DEF m
  <2>3. \A c \in T : H[c] \in Nat \ {0}
    OBVIOUS
  <2> QED
    BY <2>1, <2>2, <2>3 DEF IsLargest, Larger
<1> HIDE DEF p, Good, Ch
<1>5. p[{}] \in Good
  BY <1>2, <1>3
<1>6. \A T \in SUBSET S : T # {} /\ p[T \ {Ch[T]}] \in Good => p[T] \in Good
  BY <1>1, <1>2, <1>4
<1>7. p[S] \in Good
  BY <1>1, <1>5, <1>6, FoldStays
<1> QED
  BY <1>2, <1>7

LEMMA LargestUnique ==
  ASSUME NEW S, NEW H \in [S -> Nat], NEW m, NEW n, IsLargest(m, S, H), IsLargest(n, S, H)
  PROVE  m = n
BY DEF IsLargest

Hs(info) == [c \in DOMAIN info.comps |-> info.comps[c].h]
Vs(info) == [c \in DOMAIN info.comps |-> info.comps[c].v]
LEMMA MaxHDef ==
  ASSUME NEW info
  PROVE  MaxH(info) = (CHOOSE f : f = [T \in SUBSET DOMAIN info.comps |->
           IF T = {} THEN 1
           ELSE IF info.comps[Some(T)].h > f[T \ {Some(T)}] THEN info.comps[Some(T)].h ELSE f[T \ {Some(T)}]])[DOMAIN info.comps]
BY DEF MaxH, FoldSet, MapThenFoldSet, Some
LEMMA MaxVDef ==
  ASSUME NEW info
  PROVE  MaxV(info) = (CHOOSE f : f = [T \in SUBSET DOMAIN info.comps |->
           IF T = {} THEN 1
           ELSE IF info.comps[Some(T)].v > f[T \ {Some(T)}] THEN info.comps[Some(T)].v ELSE f[T \ {Some(T)}]])[DOMAIN info.comps]
BY DEF MaxV, FoldSet, MapThenFoldSet, Some

LEMMA MaxHRight ==
  ASSUME NEW info, IsFiniteSet(DOMAIN info.comps), Hs(info) \in [DOMAIN info.comps -> Nat \ {0}]
  PROVE  IsLargest(MaxH(info), DOMAIN info.comps, Hs(info))
<1> DEFINE S == DOMAIN info.comps
           H == Hs(info)
           Is(f) == f = [T \in SUBSET S |->
             IF T = {} THEN 1
             ELSE IF info.comps[Some(T)].h > f[T \ {Some(T)}] THEN info.comps[Some(T)].h ELSE f[T \ {Some(T)}]]
           g == CHOOSE f : Is(f)
<1>1. IsFiniteSet(S) /\ H \in [S -> Nat \ {0}]
  OBVIOUS
<1>2. \A c \in S : H[c] = info.comps[c].h
  BY DEF Hs
<1>3. \A T \in SUBSET S : T # {} => Some(T) \in S
  BY DEF Some
<1>4. ASSUME NEW f, f = [T \in SUBSET S |-> LargestStep(f, T, H)] PROVE Is(f)
  <2>1. \A T \in SUBSET S : LargestStep(f, T, H) =
             IF T = {} THEN 1
             ELSE IF info.comps[Some(T)].h > f[T \ {Some(T)}] THEN info.comps[Some(T)].h ELSE f[T \ {Some(T)}]
    BY <1>2, <1>3 DEF LargestStep, Larger
  <2> QED
    BY <1>4, <2>1
<1>5. MaxH(info) = g[S]
  BY MaxHDef
<1>6. \E f : Is(f)
  <2> HIDE DEF S, Is
  <2>1. PICK f : f = [T \in SUBSET S |-> LargestStep(f, T, H)]
    <3> HIDE DEF H
    <3> QED
      BY <1>1, LargestExists, ZenonT(60)
  <2> QED
    BY <1>4, <2>1
<1>7. Is(g)
  <2> HIDE DEF Is
  <2> QED
    BY <1>6
<1> HIDE DEF g
<1>8. LargestSteps(g, S, H)
  BY <1>2, <1>3, <1>7 DEF LargestSteps, LargestStep, Larger
<1> HIDE DEF S, H, Is
<1>9. IsLargest(g[S], S, H)
  BY <1>1, <1>8, LargestFound, Zenon
<1> QED
  BY <1>5, <1>9 DEF S, H
LEMMA MaxVRight ==
  ASSUME NEW info, IsFiniteSet(DOMAIN info.comps), Vs(info) \in [DOMAIN info.comps -> Nat \ {0}]
  PROVE  IsLargest(MaxV(info), DOMAIN info.comps, Vs(info))
<1> DEFINE S == DOMAIN info.comps
           H == Vs(info)
           Is(f) == f = [T \in SUBSET S |->
             IF T = {} THEN 1
             ELSE IF info.comps[Some(T)].v > f[T \ {Some(T)}] THEN info.comps[Some(T)].v ELSE f[T \ {Some(T)}]]
           g == CHOOSE f : Is(f)
<1>1. IsFiniteSet(S) /\ H \in [S -> Nat \ {0}]
  OBVIOUS
<1>2. \A c \in S : H[c] = info.comps[c].v
  BY DEF Vs
<1>3. \A T \in SUBSET S : T # {} => Some(T) \in S
  BY DEF Some
<1>4. ASSUME NEW f, f = [T \in SUBSET S |-> LargestStep(f, T, H)] PROVE Is(f)
  <2>1. \A T \in SUBSET S : LargestStep(f, T, H) =
             IF T = {} THEN 1
             ELSE IF info.comps[Some(T)].v > f[T \ {Some(T)}] THEN info.comps[Some(T)].v ELSE f[T \ {Some(T)}]
    BY <1>2, <1>3 DEF LargestStep, Larger
  <2> QED
    BY <1>4, <2>1
<1>5. MaxV(info) = g[S]
  BY MaxVDef
<1>6. \E f : Is(f)
  <2> HIDE DEF S, Is
  <2>1. PICK f : f = [T \in SUBSET S |-> LargestStep(f, T, H)]
    <3> HIDE DEF H
    <3> QED
      BY <1>1, LargestExists, ZenonT(60)
  <2> QED
    BY <1>4, <2>1
<1>7. Is(g)
  <2> HIDE DEF Is
  <2> QED
    BY <1>6
<1> HIDE DEF g
<1>8. LargestSteps(g, S, H)
  BY <1>2, <1>3, <1>7 DEF LargestSteps, LargestStep, Larger
<1> HIDE DEF S, H, Is
<1>9. IsLargest(g[S], S, H)
  BY <1>1, <1>8, LargestFound, Zenon
<1> QED
  BY <1>5, <1>9 DEF S, H

-----------------------------------------------------------------------------
(* Pixels, samples, blocks and whole MCUs along one axis.                 *)

\* The quotient is the only number with a remainder below the divisor.
LEMMA QuotientIs ==
  ASSUME NEW a \in Nat \ {0}, NEW x \in Nat, NEW q \in Int, q * a <= x, x < q * a + a
  PROVE  x \div a = q
<1> DEFINE p == x \div a
<1>1. p \in Nat /\ p * a <= x /\ x < p * a + a
  BY DivisionRange
<1> HIDE DEF p
<1>2. p * a \in Int /\ q * a \in Int
  BY <1>1, ProductOrder
<1>3. p * a < q * a + a /\ q * a < p * a + a
  BY <1>1, <1>2
<1>4. p <= q /\ q <= p
  BY <1>1, <1>3, ProductOrder
<1> QED
  BY <1>1, <1>4 DEF p

LEMMA Product == \A a, b \in Int : a * b \in Int
OBVIOUS
LEMMA ProductNat == \A a, b \in Nat : a * b \in Nat
OBVIOUS
LEMMA ProductPositive == \A a, b \in Nat \ {0} : a * b \in Nat \ {0}
OBVIOUS
LEMMA Associates == \A a, b, c \in Int : (a * b) * c = a * (b * c) /\ a * b = b * a
OBVIOUS

\* Dividend and divisor may have a factor in common.
LEMMA QuotientScaled ==
  ASSUME NEW y \in Nat, NEW v \in Nat \ {0}, NEW k \in Nat \ {0}
  PROVE  (y * v) \div (k * v) = y \div k
<1> DEFINE q == y \div k
<1>1. q \in Nat /\ q * k <= y /\ y < q * k + k
  BY DivisionRange
<1> HIDE DEF q
<1>2. k * v \in Nat \ {0} /\ y * v \in Nat /\ q * k \in Int
  BY <1>1, Product, ProductNat, ProductPositive
<1>3. (q * k) * v <= y * v
  BY <1>1, <1>2, ProductOrder
<1>4. (y + 1) * v <= (q * k + k) * v
  <2>1. y + 1 <= q * k + k /\ y + 1 \in Int /\ q * k + k \in Int
    BY <1>1, <1>2
  <2> HIDE DEF q
  <2> QED
    BY <2>1, ProductOrder
<1>5. (y + 1) * v = y * v + v /\ (q * k + k) * v = (q * k) * v + k * v /\ (q * k) * v = q * (k * v)
  BY <1>1, <1>2, ProductOrder, Associates
<1>6. q * (k * v) <= y * v /\ y * v < q * (k * v) + k * v
  <2> DEFINE a == y * v
             b == q * (k * v)
             c == k * v
  <2>1. a \in Int /\ b \in Int /\ c \in Int /\ b <= a /\ a + v <= b + c
    BY <1>1, <1>2, <1>3, <1>4, <1>5, Product
  <2> HIDE DEF a, b, c
  <2>2. b <= a /\ a < b + c
    BY <2>1
  <2> QED
    BY <2>2 DEF a, b, c
<1>7. (y * v) \div (k * v) = q
  BY <1>1, <1>2, <1>6, QuotientIs
<1> QED
  BY <1>7 DEF q

\* One axis: samples are k pixels wide, blocks two samples, MCUs v blocks.
LEMMA Blocks ==
  ASSUME NEW y \in Nat, NEW k \in Nat \ {0}
  PROVE  (y \div k) \div 2 = y \div (2 * k)
<1> DEFINE s == y \div k
           b == s \div 2
<1>1. s \in Nat /\ s * k <= y /\ y < s * k + k
  BY DivisionRange
<1> HIDE DEF s
<1>2. b \in Nat /\ 2 * b <= s /\ s <= 2 * b + 1
  BY <1>1
<1> HIDE DEF b
<1>3. (2 * b) * k <= s * k /\ s * k <= (2 * b + 1) * k
  BY <1>1, <1>2, ProductOrder
<1>4. (2 * b + 1) * k = (2 * b) * k + k /\ (2 * b) * k = b * (2 * k) /\ b * (2 * k) \in Int /\ s * k \in Int
  BY <1>1, <1>2, ProductOrder, Associates
<1>5. b * (2 * k) <= y /\ y < b * (2 * k) + 2 * k
  <2> DEFINE p == b * (2 * k)
             q == s * k
  <2>1. p \in Int /\ q \in Int /\ p <= q /\ q <= p + k /\ q <= y /\ y < q + k
    BY <1>1, <1>3, <1>4
  <2> HIDE DEF p, q
  <2>2. p <= y /\ y < p + 2 * k
    BY <2>1
  <2> QED
    BY <2>2 DEF p
<1>6. y \div (2 * k) = b
  BY <1>2, <1>5, QuotientIs
<1> QED
  BY <1>6 DEF b, s

\* The blocks of an axis, N pixels long, are enough for all its pixels.
LEMMA InBlocks ==
  ASSUME NEW N \in Nat, NEW y \in 0 .. N - 1, NEW k \in Nat \ {0}, NEW v \in Nat \ {0}
  PROVE  /\ (y \div k) \div 2 \in 0 .. CeilDiv(N * v, (k * v) * 2) - 1
         /\ CeilDiv(N * v, (k * v) * 2) \in Nat
<1> DEFINE u == (k * v) * 2
           x == N * v + u - 1
           B == x \div u
           b == y \div (2 * k)
<1>1. u \in Nat \ {0} /\ N * v \in Nat /\ y \in Nat /\ 2 * k \in Nat \ {0} /\ (2 * k) * v = u
  <2>1. k * v \in Nat \ {0} /\ N * v \in Nat /\ (2 * k) * v = 2 * (k * v)
    BY ProductPositive, ProductNat, Associates
  <2> QED
    BY <2>1
<1> HIDE DEF u
<1>2. x \in Nat /\ CeilDiv(N * v, (k * v) * 2) = B
  BY <1>1 DEF CeilDiv, u
<1>3. B \in Nat /\ N * v <= B * u
  <2> DEFINE n == N * v
  <2>1. B \in Nat /\ x < B * u + u
    BY <1>1, <1>2, DivisionRange
  <2>2. B * u \in Int /\ n \in Int /\ x = n + u - 1
    BY <1>1, <2>1, Product
  <2> HIDE DEF B, x, n
  <2>3. n <= B * u
    BY <1>1, <2>1, <2>2
  <2> QED
    BY <2>1, <2>3 DEF n
<1> HIDE DEF B, x
<1>4. b \in Nat /\ b * (2 * k) <= y
  BY <1>1, DivisionRange
<1> HIDE DEF b
<1>5. b * (2 * k) + 1 <= N /\ b * (2 * k) \in Int
  BY <1>4, <1>1, Product
<1>6. (b * (2 * k) + 1) * v <= N * v
  BY <1>5, ProductOrder
<1>7. (b * (2 * k) + 1) * v = b * u + v
  BY <1>1, <1>4, <1>5, ProductOrder, Associates
<1>8. b < B
  <2>1. b * u \in Int /\ B * u \in Int
    BY <1>1, <1>3, <1>4, Product
  <2>2. b * u + v <= B * u
    <3> DEFINE n == N * v
               m == b * u
               l == B * u
    <3>1. n \in Int /\ m \in Int /\ l \in Int /\ m + v <= n /\ n <= l
      BY <1>1, <1>3, <1>6, <1>7, <2>1
    <3> HIDE DEF n, m, l
    <3>2. m + v <= l
      BY <3>1
    <3> QED
      BY <3>2 DEF m, l
  <2>3. ~(B * u <= b * u)
    BY <2>1, <2>2
  <2> QED
    BY <1>1, <1>3, <1>4, <2>3, ProductOrder
<1>9. (y \div k) \div 2 = b
  BY <1>1, Blocks DEF b
<1> QED
  BY <1>2, <1>3, <1>4, <1>8, <1>9

\* Rounding up to whole MCUs leaves the blocks there are.
LEMMA PaddedMore ==
  ASSUME NEW n \in Nat, NEW v \in Nat \ {0}
  PROVE  RoundUp(n, v) \in Nat /\ n <= RoundUp(n, v)
<1> DEFINE x == n + v - 1
           B == x \div v
<1>1. x \in Nat /\ RoundUp(n, v) = B * v
  BY DEF RoundUp, CeilDiv
<1>2. B \in Nat /\ x < B * v + v
  BY <1>1, DivisionRange
<1> HIDE DEF B
<1>3. B * v \in Nat
  BY <1>2, ProductNat
<1>4. n <= B * v
  BY <1>2, <1>3
<1> QED
  BY <1>1, <1>3, <1>4

\* Mirroring the pixels of the whole MCUs mirrors the samples of their blocks.
MirroredSample(s, W) == IF s \div 2 < W THEN 2 * W - 1 - s ELSE s
LEMMA MirrorRight ==
  ASSUME NEW y \in Nat, NEW k \in Nat \ {0}, NEW W \in Nat
  PROVE  /\ y < W * (2 * k) <=> (y \div k) \div 2 < W
         /\ MirroredAt(y, W * (2 * k)) \in Nat
         /\ MirroredAt(y, W * (2 * k)) \div k = MirroredSample(y \div k, W)
<1> DEFINE F == W * (2 * k)
           s == y \div k
           b == y \div (2 * k)
<1>1. 2 * k \in Nat \ {0} /\ F \in Nat /\ F = (2 * W) * k
  BY ProductNat, Associates
<1>2. b \in Nat /\ b * (2 * k) <= y /\ y < b * (2 * k) + 2 * k /\ (y \div k) \div 2 = b
  BY <1>1, DivisionRange, Blocks
<1>3. s \in Nat /\ s * k <= y /\ y < s * k + k
  BY DivisionRange
<1>4. s \div 2 = b
  BY <1>2
<1> HIDE DEF F, s, b
<1>5. y < F <=> b < W
  <2>1. CASE b < W
    <3>1. (b + 1) * (2 * k) <= F /\ (b + 1) * (2 * k) = b * (2 * k) + 2 * k
      BY <1>1, <1>2, <2>1, ProductOrder DEF F
    <3> QED
      BY <1>1, <1>2, <2>1, <3>1, Product
  <2>2. CASE ~(b < W)
    <3>1. W * (2 * k) <= b * (2 * k)
      BY <1>1, <1>2, <2>2, ProductOrder
    <3>2. b * (2 * k) \in Int
      BY <1>1, <1>2, Product
    <3>3. F <= b * (2 * k)
      BY <3>1 DEF F
    <3> QED
      BY <1>1, <1>2, <2>2, <3>2, <3>3
  <2> QED
    BY <2>1, <2>2
<1>6. ASSUME y < F PROVE F - y - 1 \in Nat /\ (F - y - 1) \div k = 2 * W - 1 - s
  <2>1. F - y - 1 \in Nat
    BY <1>1, <1>6
  <2> DEFINE q == 2 * W - 1 - s
             p == s * k
  <2>2. q \in Int /\ p \in Int /\ q = 2 * W - (s + 1)
    BY <1>3, Product
  <2>3. (s + 1) * k = s * k + k /\ (2 * W) * k - (s + 1) * k = (2 * W - (s + 1)) * k
    BY <1>3, ProductOrder
  <2>4. q * k = F - (p + k)
    BY <1>1, <2>2, <2>3
  <2>5. p <= y /\ y < p + k
    BY <1>3
  <2> HIDE DEF p, q
  <2>6. q * k <= F - y - 1 /\ F - y - 1 < q * k + k
    BY <1>1, <2>2, <2>4, <2>5
  <2>7. (F - y - 1) \div k = q
    BY <2>1, <2>2, <2>6, QuotientIs
  <2> QED
    BY <2>1, <2>7 DEF q
<1> QED
  BY <1>3, <1>4, <1>5, <1>6 DEF MirroredAt, MirroredSample, F, s

\* Of a mirrored sample the block is the mirrored one, and its rows or columns are exchanged.
LEMMA SampleMirrored ==
  ASSUME NEW s \in Nat, NEW W \in Nat
  PROVE  /\ MirroredSample(s, W) \div 2 = MirroredAt(s \div 2, W)
         /\ MirroredSample(s, W) % 2 = (IF s \div 2 < W THEN 1 - (s % 2) ELSE s % 2)
         /\ MirroredSample(s, W) \in Nat
BY DEF MirroredSample, MirroredAt

-----------------------------------------------------------------------------
(* Blocks: signs and transposition against the samples they stand for.     *)

\* A sample is the sum of four products, two of them with a sign each.
LEMMA SignRight == Sign(0) = 1 /\ Sign(1) = -1 /\ Sign(2) = 1
BY DEF Sign
LEMMA SignedProducts ==
  \A b, q \in Int :
    b * q \in Int /\ (1 * b) * q = b * q /\ ((-1) * b) * q = -(b * q) /\ (1 * (-b)) * q = -(b * q) /\ ((-1) * (-b)) * q = b * q
OBVIOUS
LEMMA CellsOfBlock == /\ Cell2 = (0 .. 1) \X (0 .. 1)
               /\ <<0, 0>> \in Cell2 /\ <<0, 1>> \in Cell2 /\ <<1, 0>> \in Cell2 /\ <<1, 1>> \in Cell2
BY DEF Cell2, DCTSIZE

Part(b, q, i, j) == b[<<i, j>>] * q[<<i, j>>]
LEMMA SampleIs ==
  ASSUME NEW b \in Block, NEW q \in Block
  PROVE  /\ \A i, j \in {0, 1} : Part(b, q, i, j) \in Int
         /\ BlockSample(b, q, 0, 0) = Part(b, q, 0, 0) + Part(b, q, 0, 1) + Part(b, q, 1, 0) + Part(b, q, 1, 1)
         /\ BlockSample(b, q, 0, 1) = Part(b, q, 0, 0) - Part(b, q, 0, 1) + Part(b, q, 1, 0) - Part(b, q, 1, 1)
         /\ BlockSample(b, q, 1, 0) = Part(b, q, 0, 0) + Part(b, q, 0, 1) - Part(b, q, 1, 0) - Part(b, q, 1, 1)
         /\ BlockSample(b, q, 1, 1) = Part(b, q, 0, 0) - Part(b, q, 0, 1) - Part(b, q, 1, 0) + Part(b, q, 1, 1)
<1>1. ASSUME NEW i \in {0, 1}, NEW j \in {0, 1}
      PROVE  /\ Part(b, q, i, j) \in Int /\ 1 * b[<<i, j>>] * q[<<i, j>>] = Part(b, q, i, j)
             /\ (-1) * b[<<i, j>>] * q[<<i, j>>] = -Part(b, q, i, j)
  <2>1. b[<<i, j>>] \in Int /\ q[<<i, j>>] \in Int
    BY CellsOfBlock DEF Block
  <2> QED
    BY <2>1, SignedProducts DEF Part
<1>2. 0 + 0 = 0 /\ 0 + 1 = 1 /\ 1 + 0 = 1 /\ 1 + 1 = 2
  OBVIOUS
<1> DEFINE A == Part(b, q, 0, 0)
           B == Part(b, q, 0, 1)
           C == Part(b, q, 1, 0)
           D == Part(b, q, 1, 1)
<1>3. A \in Int /\ B \in Int /\ C \in Int /\ D \in Int
  BY <1>1
<1>4. /\ BlockSample(b, q, 0, 0) = A + B + C + D
      /\ BlockSample(b, q, 0, 1) = A + (-B) + C + (-D)
      /\ BlockSample(b, q, 1, 0) = A + B + (-C) + (-D)
      /\ BlockSample(b, q, 1, 1) = A + (-B) + (-C) + D
  <2>1. A = b[<<0, 0>>] * q[<<0, 0>>]
    BY DEF Part
  <2>2. /\ Sign(0) * b[<<0, 1>>] * q[<<0, 1>>] = B /\ Sign(1) * b[<<0, 1>>] * q[<<0, 1>>] = -B
        /\ Sign(0) * b[<<1, 0>>] * q[<<1, 0>>] = C /\ Sign(1) * b[<<1, 0>>] * q[<<1, 0>>] = -C
        /\ Sign(0) * b[<<1, 1>>] * q[<<1, 1>>] = D /\ Sign(1) * b[<<1, 1>>] * q[<<1, 1>>] = -D
        /\ Sign(2) * b[<<1, 1>>] * q[<<1, 1>>] = D
    BY <1>1, SignRight
  <2> HIDE DEF A, B, C, D
  <2> QED
    BY <1>2, <2>1, <2>2, Zenon DEF BlockSample
<1> HIDE DEF A, B, C, D
<1>5. /\ A + (-B) + C + (-D) = A - B + C - D /\ A + B + (-C) + (-D) = A + B - C - D
      /\ A + (-B) + (-C) + D = A - B - C + D
  BY <1>3
<1>6. \A i, j \in {0, 1} : Part(b, q, i, j) \in Int
  BY <1>1
<1> QED
  BY <1>4, <1>5, <1>6, Zenon DEF A, B, C, D

LEMMA RowsNegated ==
  ASSUME NEW b \in Block
  PROVE  /\ NegateOddRows(b) \in Block
         /\ \A q \in Block, y \in {0, 1}, x \in {0, 1} : BlockSample(NegateOddRows(b), q, y, x) = BlockSample(b, q, 1 - y, x)
<1> DEFINE n == NegateOddRows(b)
<1>1. n \in Block /\ n[<<0, 0>>] = b[<<0, 0>>] /\ n[<<0, 1>>] = b[<<0, 1>>] /\ n[<<1, 0>>] = -b[<<1, 0>>] /\ n[<<1, 1>>] = -b[<<1, 1>>]
  BY CellsOfBlock DEF NegateOddRows, Block
<1> HIDE DEF n
<1> SUFFICES ASSUME NEW q \in Block, NEW y \in {0, 1}, NEW x \in {0, 1}
             PROVE  BlockSample(n, q, y, x) = BlockSample(b, q, 1 - y, x)
  BY <1>1 DEF n
<1>2. /\ Part(n, q, 0, 0) = Part(b, q, 0, 0) /\ Part(n, q, 0, 1) = Part(b, q, 0, 1)
      /\ Part(n, q, 1, 0) = -Part(b, q, 1, 0) /\ Part(n, q, 1, 1) = -Part(b, q, 1, 1)
  <2>1. \A u, v \in Int : (-u) * v = -(u * v)
    OBVIOUS
  <2>2. \A c \in Cell2 : b[c] \in Int /\ q[c] \in Int
    BY DEF Block
  <2> QED
    BY <1>1, <2>1, <2>2, CellsOfBlock DEF Part
<1>3. \A i, j \in {0, 1} : Part(b, q, i, j) \in Int
  BY SampleIs
<1>4. (y = 0 \/ y = 1) /\ (x = 0 \/ x = 1) /\ 1 - 0 = 1 /\ 1 - 1 = 0
  OBVIOUS
<1> QED
  BY <1>1, <1>2, <1>3, <1>4, SampleIs

LEMMA ColumnsNegated ==
  ASSUME NEW b \in Block
  PROVE  /\ NegateOddColumns(b) \in Block
         /\ \A q \in Block, y \in {0, 1}, x \in {0, 1} : BlockSample(NegateOddColumns(b), q, y, x) = BlockSample(b, q, y, 1 - x)
<1> DEFINE n == NegateOddColumns(b)
<1>1. n \in Block /\ n[<<0, 0>>] = b[<<0, 0>>] /\ n[<<0, 1>>] = -b[<<0, 1>>] /\ n[<<1, 0>>] = b[<<1, 0>>] /\ n[<<1, 1>>] = -b[<<1, 1>>]
  BY CellsOfBlock DEF NegateOddColumns, Block
<1> HIDE DEF n
<1> SUFFICES ASSUME NEW q \in Block, NEW y \in {0, 1}, NEW x \in {0, 1}
             PROVE  BlockSample(n, q, y, x) = BlockSample(b, q, y, 1 - x)
  BY <1>1 DEF n
<1>2. /\ Part(n, q, 0, 0) = Part(b, q, 0, 0) /\ Part(n, q, 0, 1) = -Part(b, q, 0, 1)
      /\ Part(n, q, 1, 0) = Part(b, q, 1, 0) /\ Part(n, q, 1, 1) = -Part(b, q, 1, 1)
  <2>1. \A u, v \in Int : (-u) * v = -(u * v)
    OBVIOUS
  <2>2. \A c \in Cell2 : b[c] \in Int /\ q[c] \in Int
    BY DEF Block
  <2> QED
    BY <1>1, <2>1, <2>2, CellsOfBlock DEF Part
<1>3. \A i, j \in {0, 1} : Part(b, q, i, j) \in Int
  BY SampleIs
<1>4. (y = 0 \/ y = 1) /\ (x = 0 \/ x = 1) /\ 1 - 0 = 1 /\ 1 - 1 = 0
  OBVIOUS
<1> QED
  BY <1>1, <1>2, <1>3, <1>4, SampleIs

LEMMA BlockTransposed ==
  ASSUME NEW b \in Block
  PROVE  /\ TransposedBlock(b) \in Block
         /\ \A q \in Block, y \in {0, 1}, x \in {0, 1} : BlockSample(TransposedBlock(b), TransposedBlock(q), y, x) = BlockSample(b, q, x, y)
<1>1. \A e \in Block : /\ TransposedBlock(e) \in Block
                       /\ TransposedBlock(e)[<<0, 0>>] = e[<<0, 0>>] /\ TransposedBlock(e)[<<0, 1>>] = e[<<1, 0>>]
                       /\ TransposedBlock(e)[<<1, 0>>] = e[<<0, 1>>] /\ TransposedBlock(e)[<<1, 1>>] = e[<<1, 1>>]
  BY CellsOfBlock DEF TransposedBlock, Block
<1> SUFFICES ASSUME NEW q \in Block, NEW y \in {0, 1}, NEW x \in {0, 1}
             PROVE  BlockSample(TransposedBlock(b), TransposedBlock(q), y, x) = BlockSample(b, q, x, y)
  BY <1>1
<1> DEFINE n == TransposedBlock(b)
           m == TransposedBlock(q)
<1>2. /\ Part(n, m, 0, 0) = Part(b, q, 0, 0) /\ Part(n, m, 0, 1) = Part(b, q, 1, 0)
      /\ Part(n, m, 1, 0) = Part(b, q, 0, 1) /\ Part(n, m, 1, 1) = Part(b, q, 1, 1)
  BY <1>1 DEF Part
<1>3. n \in Block /\ m \in Block
  BY <1>1
<1> HIDE DEF n, m
<1>4. \A i, j \in {0, 1} : Part(b, q, i, j) \in Int
  BY SampleIs
<1>5. (y = 0 \/ y = 1) /\ (x = 0 \/ x = 1)
  OBVIOUS
<1>6. BlockSample(n, m, y, x) = BlockSample(b, q, x, y)
  BY <1>2, <1>3, <1>4, <1>5, SampleIs
<1> QED
  BY <1>6 DEF n, m

-----------------------------------------------------------------------------
(* The eight transformations, block by block.                              *)

\* What becomes of a block's rows and columns: as Origin, of samples in their block.
OriginCell(t, r, e, mr, me) ==
  CASE t = "none" -> <<r, e>>
    [] t = "flip_h" -> <<r, me>>
    [] t = "flip_v" -> <<mr, e>>
    [] t = "transpose" -> <<e, r>>
    [] t = "transverse" -> <<me, mr>>
    [] t = "rot_90" -> <<me, r>>
    [] t = "rot_180" -> <<mr, me>>
    [] t = "rot_270" -> <<e, mr>>
TurnedTable(t, q) == IF TransposesSize(t) THEN TransposedBlock(q) ELSE q
\* Where a transformation writes: into the workspace, or in place.
Reached(t, dst, c, a, w, P, Q) ==
  /\ RowsWritten(dst, c) \in Nat /\ width_in_blocks(dst, c) \in Nat /\ ColumnsWritten(dst, c) \in Nat
  /\ P \in 0 .. RowsWritten(dst, c) - 1 /\ Q \in 0 .. width_in_blocks(dst, c) - 1 /\ Q \in 0 .. ColumnsWritten(dst, c) - 1
  /\ IF NeedsWorkspace(t) THEN <<P, Q>> \in DOMAIN w ELSE <<P, Q>> \in DOMAIN a

LEMMA OverwrittenAt == ASSUME NEW w, NEW new, NEW p \in DOMAIN w, p \in DOMAIN new PROVE Overwritten(w, new)[p] = new[p]
BY DEF Overwritten

\* The blocks and cells of the source that are shown at a cell of the result.
LEMMA TransformedSample ==
  ASSUME NEW t \in Transforms, NEW dst, NEW c, NEW a, NEW w, NEW q \in Block,
         NEW P \in Nat, NEW Q \in Nat, NEW r \in {0, 1}, NEW e \in {0, 1},
         comp_height(dst, c) \in Nat, comp_width(dst, c) \in Nat,
         a[Origin(t, P, Q, comp_height(dst, c), comp_width(dst, c))] \in Block,
         Reached(t, dst, c, a, w, P, Q)
  PROVE  LET o == Origin(t, P, Q, comp_height(dst, c), comp_width(dst, c))
             k == OriginCell(t, r, e, IF P < comp_height(dst, c) THEN 1 - r ELSE r, IF Q < comp_width(dst, c) THEN 1 - e ELSE e)
         IN  BlockSample(Transformed(t, dst, c, a, w)[<<P, Q>>], TurnedTable(t, q), r, e) = BlockSample(a[o], q, k[1], k[2])
<1> DEFINE H == comp_height(dst, c)
           W == comp_width(dst, c)
           o == Origin(t, P, Q, H, W)
           mr == IF P < H THEN 1 - r ELSE r
           me == IF Q < W THEN 1 - e ELSE e
           k == OriginCell(t, r, e, mr, me)
           b == a[o]
           R == RowsWritten(dst, c)
           C == ColumnsWritten(dst, c)
           B == width_in_blocks(dst, c)
           res == Transformed(t, dst, c, a, w)[<<P, Q>>]
<1> SUFFICES BlockSample(res, TurnedTable(t, q), r, e) = BlockSample(b, q, k[1], k[2])
  OBVIOUS
<1>1. H \in Nat /\ W \in Nat /\ b \in Block
  OBVIOUS
<1>2. /\ P \in 0 .. R - 1 /\ Q \in 0 .. B - 1 /\ Q \in 0 .. C - 1 /\ P < R
      /\ <<P, Q>> \in Place(R, B) /\ <<P, Q>> \in Place(R, C)
  BY DEF Reached, Place
<1>3. IF NeedsWorkspace(t) THEN <<P, Q>> \in DOMAIN w ELSE <<P, Q>> \in DOMAIN a
  BY DEF Reached
<1>4. MirroredAt(P, H) = (IF P < H THEN H - P - 1 ELSE P) /\ MirroredAt(Q, W) = (IF Q < W THEN W - Q - 1 ELSE Q)
  BY DEF MirroredAt
<1>5. /\ <<P, Q>>[1] = P /\ <<P, Q>>[2] = Q /\ (Q >= W <=> ~(Q < W)) /\ (P >= H <=> ~(P < H))
      /\ 1 - r \in {0, 1} /\ 1 - e \in {0, 1}
  BY <1>1
<1>6. /\ NegateOddRows(b) \in Block /\ NegateOddColumns(b) \in Block /\ NegateOddRows(NegateOddColumns(b)) \in Block
      /\ \A y, x \in {0, 1} : /\ BlockSample(NegateOddRows(b), q, y, x) = BlockSample(b, q, 1 - y, x)
                              /\ BlockSample(NegateOddColumns(b), q, y, x) = BlockSample(b, q, y, 1 - x)
                              /\ BlockSample(NegateOddRows(NegateOddColumns(b)), q, y, x) = BlockSample(b, q, 1 - y, 1 - x)
  <2>1. \A y \in {0, 1} : 1 - y \in {0, 1}
    OBVIOUS
  <2>2. NegateOddRows(b) \in Block /\ NegateOddColumns(b) \in Block /\ NegateOddRows(NegateOddColumns(b)) \in Block
    BY <1>1, RowsNegated, ColumnsNegated
  <2> HIDE DEF b
  <2> QED
    BY <1>1, <2>1, <2>2, RowsNegated, ColumnsNegated
<1>7. \A x \in Block : BlockSample(TransposedBlock(x), TransposedBlock(q), r, e) = BlockSample(x, q, e, r)
  BY BlockTransposed
<1>8. r \in {0, 1} /\ e \in {0, 1}
  OBVIOUS
<1> HIDE DEF H, W, R, C, B, b, k, res
<1>9. CASE t = "none"
  <2>1. b = a[<<P, Q>>] /\ k[1] = r /\ k[2] = e
    BY <1>9 DEF b, k, Origin, OriginCell, H, W
  <2>2. res = b
    BY <1>2, <1>3, <1>4, <1>5, <1>9, <2>1 DEF res, Transformed, NeedsWorkspace, R, W
  <2>3. TurnedTable(t, q) = q
    BY <1>9 DEF TurnedTable, TransposesSize
  <2>4. res = b
    BY <2>2
  <2> QED
    BY <1>1, <1>5, <1>6, <1>7, <1>8, <2>1, <2>3, <2>4
<1>10. CASE t = "flip_h"
  <2>1. b = a[<<P, MirroredAt(Q, W)>>] /\ k[1] = r /\ k[2] = me
    BY <1>10 DEF b, k, Origin, OriginCell, H, W
  <2>2. res = (IF Q < W THEN NegateOddColumns(b) ELSE b)
    BY <1>2, <1>3, <1>4, <1>5, <1>10, <2>1 DEF res, Transformed, NeedsWorkspace, do_flip_h, R, W
  <2>3. TurnedTable(t, q) = q
    BY <1>10 DEF TurnedTable, TransposesSize
  <2>4. res = (IF Q < W THEN NegateOddColumns(b) ELSE b)
    BY <2>2
  <2> QED
    BY <1>1, <1>5, <1>6, <1>7, <1>8, <2>1, <2>3, <2>4
<1>11. CASE t = "flip_v"
  <2>1. b = a[<<MirroredAt(P, H), Q>>] /\ k[1] = mr /\ k[2] = e
    BY <1>11 DEF b, k, Origin, OriginCell, H, W
  <2>2. <<P, Q>> \in DOMAIN w
    BY <1>3, <1>11 DEF NeedsWorkspace
  <2>3. res = do_flip_v(dst, c, a, w)[<<P, Q>>]
    BY <1>11 DEF res, Transformed
  <2>4. do_flip_v(dst, c, a, w)[<<P, Q>>] = (IF P < H THEN NegateOddRows(b) ELSE b)
    BY <1>2, <1>4, <1>5, <2>1, <2>2, OverwrittenAt DEF do_flip_v, R, C, B, H, W
  <2>5. TurnedTable(t, q) = q
    BY <1>11 DEF TurnedTable, TransposesSize
  <2>6. res = (IF P < H THEN NegateOddRows(b) ELSE b)
    BY <2>3, <2>4
  <2> QED
    BY <1>1, <1>5, <1>6, <1>7, <1>8, <2>1, <2>5, <2>6
<1>12. CASE t = "transpose"
  <2>1. b = a[<<Q, P>>] /\ k[1] = e /\ k[2] = r
    BY <1>12 DEF b, k, Origin, OriginCell, H, W
  <2>2. <<P, Q>> \in DOMAIN w
    BY <1>3, <1>12 DEF NeedsWorkspace
  <2>3. res = do_transpose(dst, c, a, w)[<<P, Q>>]
    BY <1>12 DEF res, Transformed
  <2>4. do_transpose(dst, c, a, w)[<<P, Q>>] = TransposedBlock(b)
    BY <1>2, <1>4, <1>5, <2>1, <2>2, OverwrittenAt DEF do_transpose, R, C, B, H, W
  <2>5. TurnedTable(t, q) = TransposedBlock(q)
    BY <1>12 DEF TurnedTable, TransposesSize
  <2>6. res = TransposedBlock(b)
    BY <2>3, <2>4
  <2> QED
    BY <1>1, <1>5, <1>6, <1>7, <1>8, <2>1, <2>5, <2>6
<1>13. CASE t = "transverse"
  <2>1. b = a[<<MirroredAt(Q, W), MirroredAt(P, H)>>] /\ k[1] = me /\ k[2] = mr
    BY <1>13 DEF b, k, Origin, OriginCell, H, W
  <2>2. <<P, Q>> \in DOMAIN w
    BY <1>3, <1>13 DEF NeedsWorkspace
  <2>3. res = do_transverse(dst, c, a, w)[<<P, Q>>]
    BY <1>13 DEF res, Transformed
  <2>4. do_transverse(dst, c, a, w)[<<P, Q>>] =
          TransposedBlock((IF P < H THEN IF Q < W THEN NegateOddRows(NegateOddColumns(b)) ELSE NegateOddColumns(b) ELSE IF Q < W THEN NegateOddRows(b) ELSE b))
    <3>1. <<P, Q>> \in Place(R, C)
      BY <1>2
    <3>2. LET x == do_transverse(dst, c, a, w)[<<P, Q>>]
          IN  /\ P < H /\ Q < W => x = TransposedBlock(NegateOddRows(NegateOddColumns(a[<<MirroredAt(Q, W), MirroredAt(P, H)>>])))
              /\ P < H /\ ~(Q < W) => x = TransposedBlock(NegateOddColumns(a[<<Q, MirroredAt(P, H)>>]))
              /\ ~(P < H) /\ Q < W => x = TransposedBlock(NegateOddRows(a[<<MirroredAt(Q, W), P>>]))
              /\ ~(P < H) /\ ~(Q < W) => x = TransposedBlock(a[<<Q, P>>])
      BY <1>5, <2>2, <3>1, OverwrittenAt, SMTT(30) DEF do_transverse, R, C, B, H, W
    <3>3. b = a[<<MirroredAt(Q, W), MirroredAt(P, H)>>]
          /\ (P < H => MirroredAt(P, H) = H - P - 1) /\ (~(P < H) => MirroredAt(P, H) = P) /\ (~(Q < W) => MirroredAt(Q, W) = Q)
      BY <1>4, <2>1
    <3> QED
      BY <3>2, <3>3, Zenon
  <2>5. TurnedTable(t, q) = TransposedBlock(q)
    BY <1>13 DEF TurnedTable, TransposesSize
  <2>6. res =
          TransposedBlock((IF P < H THEN IF Q < W THEN NegateOddRows(NegateOddColumns(b)) ELSE NegateOddColumns(b) ELSE IF Q < W THEN NegateOddRows(b) ELSE b))
    BY <2>3, <2>4
  <2> QED
    BY <1>1, <1>5, <1>6, <1>7, <1>8, <2>1, <2>5, <2>6
<1>14. CASE t = "rot_90"
  <2>1. b = a[<<MirroredAt(Q, W), P>>] /\ k[1] = me /\ k[2] = r
    BY <1>14 DEF b, k, Origin, OriginCell, H, W
  <2>2. <<P, Q>> \in DOMAIN w
    BY <1>3, <1>14 DEF NeedsWorkspace
  <2>3. res = do_rot_90(dst, c, a, w)[<<P, Q>>]
    BY <1>14 DEF res, Transformed
  <2>4. do_rot_90(dst, c, a, w)[<<P, Q>>] = TransposedBlock((IF Q < W THEN NegateOddRows(b) ELSE b))
    BY <1>2, <1>4, <1>5, <2>1, <2>2, OverwrittenAt DEF do_rot_90, R, C, B, H, W
  <2>5. TurnedTable(t, q) = TransposedBlock(q)
    BY <1>14 DEF TurnedTable, TransposesSize
  <2>6. res = TransposedBlock((IF Q < W THEN NegateOddRows(b) ELSE b))
    BY <2>3, <2>4
  <2> QED
    BY <1>1, <1>5, <1>6, <1>7, <1>8, <2>1, <2>5, <2>6
<1>15. CASE t = "rot_180"
  <2>1. b = a[<<MirroredAt(P, H), MirroredAt(Q, W)>>] /\ k[1] = mr /\ k[2] = me
    BY <1>15 DEF b, k, Origin, OriginCell, H, W
  <2>2. <<P, Q>> \in DOMAIN w
    BY <1>3, <1>15 DEF NeedsWorkspace
  <2>3. res = do_rot_180(dst, c, a, w)[<<P, Q>>]
    BY <1>15 DEF res, Transformed
  <2>4. do_rot_180(dst, c, a, w)[<<P, Q>>] =
          (IF P < H THEN IF Q < W THEN NegateOddRows(NegateOddColumns(b)) ELSE NegateOddRows(b) ELSE IF Q < W THEN NegateOddColumns(b) ELSE b)
    <3>1. <<P, Q>> \in Place(R, B)
      BY <1>2
    <3>2. LET x == do_rot_180(dst, c, a, w)[<<P, Q>>]
          IN  /\ P < H /\ Q < W => x = NegateOddRows(NegateOddColumns(a[<<MirroredAt(P, H), MirroredAt(Q, W)>>]))
              /\ P < H /\ ~(Q < W) => x = NegateOddRows(a[<<MirroredAt(P, H), Q>>])
              /\ ~(P < H) /\ Q < W => x = NegateOddColumns(a[<<P, MirroredAt(Q, W)>>])
              /\ ~(P < H) /\ ~(Q < W) => x = a[<<P, Q>>]
      BY <1>5, <2>2, <3>1, OverwrittenAt DEF do_rot_180, R, C, B, H, W
    <3>3. b = a[<<MirroredAt(P, H), MirroredAt(Q, W)>>]
          /\ (P < H => MirroredAt(P, H) = H - P - 1) /\ (~(P < H) => MirroredAt(P, H) = P) /\ (~(Q < W) => MirroredAt(Q, W) = Q)
      BY <1>4, <2>1
    <3> QED
      BY <3>2, <3>3, Zenon
  <2>5. TurnedTable(t, q) = q
    BY <1>15 DEF TurnedTable, TransposesSize
  <2>6. res = (IF P < H THEN IF Q < W THEN NegateOddRows(NegateOddColumns(b)) ELSE NegateOddRows(b) ELSE IF Q < W THEN NegateOddColumns(b) ELSE b)
    BY <2>3, <2>4
  <2> QED
    BY <1>1, <1>5, <1>6, <1>7, <1>8, <2>1, <2>5, <2>6
<1>16. CASE t = "rot_270"
  <2>1. b = a[<<Q, MirroredAt(P, H)>>] /\ k[1] = e /\ k[2] = mr
    BY <1>16 DEF b, k, Origin, OriginCell, H, W
  <2>2. <<P, Q>> \in DOMAIN w
    BY <1>3, <1>16 DEF NeedsWorkspace
  <2>3. res = do_rot_270(dst, c, a, w)[<<P, Q>>]
    BY <1>16 DEF res, Transformed
  <2>4. do_rot_270(dst, c, a, w)[<<P, Q>>] = TransposedBlock((IF P < H THEN NegateOddColumns(b) ELSE b))
    BY <1>2, <1>4, <1>5, <2>1, <2>2, OverwrittenAt DEF do_rot_270, R, C, B, H, W
  <2>5. TurnedTable(t, q) = TransposedBlock(q)
    BY <1>16 DEF TurnedTable, TransposesSize
  <2>6. res =
          TransposedBlock((IF P < H THEN NegateOddColumns(b) ELSE b))
    BY <2>3, <2>4
  <2> QED
    BY <1>1, <1>5, <1>6, <1>7, <1>8, <2>1, <2>5, <2>6
<1> QED
  BY <1>9, <1>10, <1>11, <1>12, <1>13, <1>14, <1>15, <1>16 DEF Transforms

-----------------------------------------------------------------------------
(* Pixels of a component.                                                  *)

\* How many pixels a sample of a component is high and wide.
StepV(info, c) == MaxV(info) \div info.comps[c].v
StepH(info, c) == MaxH(info) \div info.comps[c].h
LayoutRight(info) ==
  /\ info.width \in Nat /\ info.height \in Nat /\ IsFiniteSet(DOMAIN info.comps)
  /\ Hs(info) \in [DOMAIN info.comps -> Nat \ {0}] /\ Vs(info) \in [DOMAIN info.comps -> Nat \ {0}]
  /\ SamplingWhole(info)

LEMMA WholeQuotient ==
  ASSUME NEW m \in Nat \ {0}, NEW h \in Nat \ {0}, m % h = 0
  PROVE  m \div h \in Nat \ {0} /\ m = (m \div h) * h
<1>1. m \div h \in Nat /\ m = (m \div h) * h
  OBVIOUS
<1>2. m \div h # 0
  BY <1>1
<1> QED
  BY <1>1, <1>2

LEMMA StepsRight ==
  ASSUME NEW info, LayoutRight(info), NEW c \in DOMAIN info.comps
  PROVE  /\ info.comps[c].h \in Nat \ {0} /\ info.comps[c].v \in Nat \ {0}
         /\ StepV(info, c) \in Nat \ {0} /\ MaxV(info) = StepV(info, c) * info.comps[c].v
         /\ StepH(info, c) \in Nat \ {0} /\ MaxH(info) = StepH(info, c) * info.comps[c].h
<1>1. info.comps[c].h \in Nat \ {0} /\ info.comps[c].v \in Nat \ {0}
  <2>1. Hs(info)[c] \in Nat \ {0} /\ Vs(info)[c] \in Nat \ {0}
    BY DEF LayoutRight
  <2> QED
    BY <2>1 DEF Hs, Vs
<1>2. MaxV(info) \in Nat \ {0} /\ MaxH(info) \in Nat \ {0}
  <2>1. IsLargest(MaxV(info), DOMAIN info.comps, Vs(info)) /\ IsLargest(MaxH(info), DOMAIN info.comps, Hs(info))
    BY MaxVRight, MaxHRight DEF LayoutRight
  <2> QED
    BY <2>1, Zenon DEF IsLargest
<1>3. MaxH(info) % info.comps[c].h = 0 /\ MaxV(info) % info.comps[c].v = 0
  BY DEF LayoutRight, SamplingWhole
<1> QED
  BY <1>1, <1>2, <1>3, WholeQuotient DEF StepV, StepH

\* The whole MCUs of an axis of N pixels, in pixels and in blocks.
LEMMA WholeMcus ==
  ASSUME NEW N \in Nat, NEW k \in Nat \ {0}, NEW v \in Nat \ {0}
  PROVE  LET M == k * v
             F == Whole(N, M * 2)
             W == (N \div (M * 2)) * v
         IN  F = W * (2 * k) /\ W \in Nat /\ F \in Nat /\ F <= N
<1> DEFINE u == (k * v) * 2
           q == N \div u
<1>1. u \in Nat \ {0} /\ u = v * (2 * k)
  <2>1. k * v \in Nat \ {0} /\ v * (2 * k) = (2 * k) * v /\ (2 * k) * v = 2 * (k * v)
    BY ProductPositive, Associates
  <2> QED
    BY <2>1
<1>2. q \in Nat /\ q * u <= N
  <2> HIDE DEF u
  <2> QED
    BY <1>1, DivisionRange
<1>3. q * v \in Nat /\ q * u \in Nat /\ (q * v) * (2 * k) = q * (v * (2 * k))
  <2> HIDE DEF q, u
  <2> QED
    BY <1>1, <1>2, ProductNat, Associates
<1> HIDE DEF q, u
<1>4. q * u = (q * v) * (2 * k)
  BY <1>1, <1>3
<1> QED
  BY <1>2, <1>3, <1>4 DEF Whole, u, q

\* One axis of a component: its pixels, their samples and blocks, and those of their mirror images.
AxisRight(N, k, F, W, B, y) ==
  /\ W \in Nat /\ B \in Nat /\ y \in 0 .. N - 1 /\ MirroredAt(y, F) \in 0 .. N - 1
  /\ (y \div k) \div 2 \in 0 .. B - 1 /\ (y \div k) % 2 \in {0, 1} /\ F <= N
  /\ (MirroredAt(y, F) \div k) \div 2 = MirroredAt((y \div k) \div 2, W)
  /\ (MirroredAt(y, F) \div k) % 2 = (IF (y \div k) \div 2 < W THEN 1 - ((y \div k) % 2) ELSE (y \div k) % 2)

LEMMA AxisTurned ==
  ASSUME NEW N \in Nat, NEW k \in Nat \ {0}, NEW v \in Nat \ {0}, NEW y \in 0 .. N - 1
  PROVE  LET M == k * v IN AxisRight(N, k, Whole(N, M * 2), (N \div (M * 2)) * v, CeilDiv(N * v, M * 2), y)
<1> DEFINE M == k * v
           F == Whole(N, M * 2)
           W == (N \div (M * 2)) * v
           B == CeilDiv(N * v, M * 2)
           s == y \div k
<1>1. F = W * (2 * k) /\ W \in Nat /\ F \in Nat /\ F <= N
  BY WholeMcus
<1>2. B \in Nat /\ s \div 2 \in 0 .. B - 1
  BY InBlocks
<1> HIDE DEF F, W, B, M
<1>3. s \in Nat /\ y \in Nat
  BY DivisionRange
<1>4. /\ y < F <=> s \div 2 < W
      /\ MirroredAt(y, F) \div k = MirroredSample(s, W)
  BY <1>1, <1>3, MirrorRight
<1>5. MirroredAt(y, F) \in 0 .. N - 1
  BY <1>1 DEF MirroredAt
<1> HIDE DEF s
<1>6. s % 2 \in {0, 1}
  BY <1>3
<1>7. /\ (MirroredAt(y, F) \div k) \div 2 = MirroredAt(s \div 2, W)
      /\ (MirroredAt(y, F) \div k) % 2 = (IF s \div 2 < W THEN 1 - (s % 2) ELSE s % 2)
  <2>1. /\ MirroredSample(s, W) \div 2 = MirroredAt(s \div 2, W)
        /\ MirroredSample(s, W) % 2 = (IF s \div 2 < W THEN 1 - (s % 2) ELSE s % 2)
    BY <1>1, <1>3, SampleMirrored
  <2> QED
    BY <1>4, <2>1, Zenon
<1>8. AxisRight(N, k, F, W, B, y)
  BY <1>1, <1>2, <1>5, <1>6, <1>7, Zenon DEF AxisRight, s
<1> QED
  BY <1>8 DEF F, W, B, M

\* The rows and the columns of a component.
LEMMA RowsTurned ==
  ASSUME NEW info, LayoutRight(info), NEW c \in DOMAIN info.comps, NEW y \in 0 .. info.height - 1
  PROVE  /\ AxisRight(info.height, StepV(info, c), FullHeight(info), comp_height(info, c), height_in_blocks(info, c), y)
         /\ (y * info.comps[c].v) \div MaxV(info) = y \div StepV(info, c)
<1> DEFINE v == info.comps[c].v
           k == StepV(info, c)
           N == info.height
           M == MaxV(info)
<1>1. v \in Nat \ {0} /\ k \in Nat \ {0} /\ N \in Nat /\ M = k * v /\ y \in 0 .. N - 1
  BY StepsRight DEF LayoutRight
<1>2. /\ FullHeight(info) = Whole(N, M * 2) /\ comp_height(info, c) = (N \div (M * 2)) * v
      /\ height_in_blocks(info, c) = CeilDiv(N * v, M * 2)
  BY DEF FullHeight, comp_height, height_in_blocks, DCTSIZE
<1> HIDE DEF v, k, N, M
<1>3. AxisRight(N, k, Whole(N, M * 2), (N \div (M * 2)) * v, CeilDiv(N * v, M * 2), y)
  BY <1>1, AxisTurned
<1>4. (y * v) \div M = y \div k
  <2>1. y \in Nat
    BY <1>1
  <2> QED
    BY <1>1, <2>1, QuotientScaled
<1> QED
  BY <1>2, <1>3, <1>4 DEF v, k, N, M

LEMMA ColumnsTurned ==
  ASSUME NEW info, LayoutRight(info), NEW c \in DOMAIN info.comps, NEW x \in 0 .. info.width - 1
  PROVE  /\ AxisRight(info.width, StepH(info, c), FullWidth(info), comp_width(info, c), width_in_blocks(info, c), x)
         /\ (x * info.comps[c].h) \div MaxH(info) = x \div StepH(info, c)
<1> DEFINE h == info.comps[c].h
           k == StepH(info, c)
           N == info.width
           M == MaxH(info)
<1>1. h \in Nat \ {0} /\ k \in Nat \ {0} /\ N \in Nat /\ M = k * h /\ x \in 0 .. N - 1
  BY StepsRight DEF LayoutRight
<1>2. /\ FullWidth(info) = Whole(N, M * 2) /\ comp_width(info, c) = (N \div (M * 2)) * h
      /\ width_in_blocks(info, c) = CeilDiv(N * h, M * 2)
  BY DEF FullWidth, comp_width, width_in_blocks, DCTSIZE
<1> HIDE DEF h, k, N, M
<1>3. AxisRight(N, k, Whole(N, M * 2), (N \div (M * 2)) * h, CeilDiv(N * h, M * 2), x)
  BY <1>1, AxisTurned
<1>4. (x * h) \div M = x \div k
  <2>1. x \in Nat
    BY <1>1
  <2> QED
    BY <1>1, <2>1, QuotientScaled
<1> QED
  BY <1>2, <1>3, <1>4 DEF h, k, N, M

\* The pixel that is shown comes from the cell that is shown, whichever way the picture is turned.
OriginRight(t, y, x, fh, fw, H, W, kv, kh, lv, lh) ==
  LET o == Origin(t, y, x, fh, fw)
      P == (y \div kv) \div 2
      Q == (x \div kh) \div 2
      r == (y \div kv) % 2
      e == (x \div kh) % 2
      mr == IF P < H THEN 1 - r ELSE r
      me == IF Q < W THEN 1 - e ELSE e
      k == OriginCell(t, r, e, mr, me)
  IN  /\ <<(o[1] \div lv) \div 2, (o[2] \div lh) \div 2>> = Origin(t, P, Q, H, W)
      /\ (o[1] \div lv) % 2 = k[1] /\ (o[2] \div lh) % 2 = k[2]
      /\ IF TransposesSize(t) THEN o[1] \in {x, MirroredAt(x, fw)} /\ o[2] \in {y, MirroredAt(y, fh)}
         ELSE o[1] \in {y, MirroredAt(y, fh)} /\ o[2] \in {x, MirroredAt(x, fw)}
LEMMA OriginDivided ==
  ASSUME NEW t \in Transforms, NEW y, NEW x, NEW fh, NEW fw, NEW H, NEW W, NEW kv, NEW kh, NEW lv, NEW lh, NEW N, NEW M, NEW B, NEW C,
         AxisRight(N, kv, fh, H, B, y), AxisRight(M, kh, fw, W, C, x),
         IF TransposesSize(t) THEN lv = kh /\ lh = kv ELSE lv = kv /\ lh = kh
  PROVE  OriginRight(t, y, x, fh, fw, H, W, kv, kh, lv, lh)
<1> DEFINE P == (y \div kv) \div 2
           Q == (x \div kh) \div 2
           r == (y \div kv) % 2
           e == (x \div kh) % 2
           mr == IF P < H THEN 1 - r ELSE r
           me == IF Q < W THEN 1 - e ELSE e
           o == Origin(t, y, x, fh, fw)
           my == MirroredAt(y, fh)
           mx == MirroredAt(x, fw)
           mp == MirroredAt(P, H)
           mq == MirroredAt(Q, W)
<1>1. /\ (my \div kv) \div 2 = mp /\ (my \div kv) % 2 = mr /\ (mx \div kh) \div 2 = mq /\ (mx \div kh) % 2 = me
      /\ (y \div kv) \div 2 = P /\ (y \div kv) % 2 = r /\ (x \div kh) \div 2 = Q /\ (x \div kh) % 2 = e
  BY Zenon DEF AxisRight
<1>2. /\ o = CASE t = "none" -> <<y, x>> [] t = "flip_h" -> <<y, mx>> [] t = "flip_v" -> <<my, x>> [] t = "transpose" -> <<x, y>>
               [] t = "transverse" -> <<mx, my>> [] t = "rot_90" -> <<mx, y>> [] t = "rot_180" -> <<my, mx>> [] t = "rot_270" -> <<x, my>>
      /\ Origin(t, P, Q, H, W) =
             CASE t = "none" -> <<P, Q>> [] t = "flip_h" -> <<P, mq>> [] t = "flip_v" -> <<mp, Q>> [] t = "transpose" -> <<Q, P>>
               [] t = "transverse" -> <<mq, mp>> [] t = "rot_90" -> <<mq, P>> [] t = "rot_180" -> <<mp, mq>> [] t = "rot_270" -> <<Q, mp>>
  BY DEF Origin
<1> SUFFICES /\ <<(o[1] \div lv) \div 2, (o[2] \div lh) \div 2>> = Origin(t, P, Q, H, W)
             /\ (o[1] \div lv) % 2 = OriginCell(t, r, e, mr, me)[1] /\ (o[2] \div lh) % 2 = OriginCell(t, r, e, mr, me)[2]
             /\ IF TransposesSize(t) THEN o[1] \in {x, mx} /\ o[2] \in {y, my} ELSE o[1] \in {y, my} /\ o[2] \in {x, mx}
  BY Zenon DEF OriginRight
<1> HIDE DEF o, my, mx, mp, mq, P, Q, r, e, mr, me
<1>3. t \in {"none", "flip_h", "flip_v", "rot_180"} \/ t \in {"transpose", "transverse", "rot_90", "rot_270"}
  BY DEF Transforms
<1>4. CASE t \in {"none", "flip_h", "flip_v", "rot_180"}
  <2>1. lv = kv /\ lh = kh /\ ~TransposesSize(t)
    BY <1>4 DEF TransposesSize
  <2> QED
    BY <1>1, <1>2, <1>4, <2>1 DEF OriginCell
<1>5. CASE t \in {"transpose", "transverse", "rot_90", "rot_270"}
  <2>1. lv = kh /\ lh = kv /\ TransposesSize(t)
    BY <1>5 DEF TransposesSize
  <2> QED
    BY <1>1, <1>2, <1>5, <2>1 DEF OriginCell
<1> QED
  BY <1>3, <1>4, <1>5

SampleOf(info, c, a, sy, sx) ==
  BlockSample(a[<<sy \div 2, sx \div 2>>], info.quant[info.comps[c].tbl], sy % 2, sx % 2)
LEMMA PixelIs ==
  ASSUME NEW info, NEW c, NEW a, NEW y, NEW x
  PROVE  PixelOf(info, c, a, y, x) =
           SampleOf(info, c, a, (y * info.comps[c].v) \div MaxV(info), (x * info.comps[c].h) \div MaxH(info))
BY Zenon DEF PixelOf, ComponentSample, SampleOf, DCTSIZE

\* The sizes of the result, and the samples of a component, are those of the source turned.
SizesTurned(t, src, dst, c) ==
  IF TransposesSize(t)
  THEN dst.height <= src.width /\ dst.width <= src.height /\ StepV(dst, c) = StepH(src, c) /\ StepH(dst, c) = StepV(src, c)
  ELSE dst.height <= src.height /\ dst.width <= src.width /\ StepV(dst, c) = StepV(src, c) /\ StepH(dst, c) = StepH(src, c)

LEMMA PaddedBlocks ==
  ASSUME NEW info, LayoutRight(info), NEW c \in DOMAIN info.comps,
         NEW P, NEW Q, height_in_blocks(info, c) \in Nat, width_in_blocks(info, c) \in Nat
  PROVE  /\ RoundUp(height_in_blocks(info, c), info.comps[c].v) \in Nat
         /\ RoundUp(width_in_blocks(info, c), info.comps[c].h) \in Nat
         /\ P \in 0 .. height_in_blocks(info, c) - 1 => P \in 0 .. RoundUp(height_in_blocks(info, c), info.comps[c].v) - 1
         /\ Q \in 0 .. width_in_blocks(info, c) - 1 => Q \in 0 .. RoundUp(width_in_blocks(info, c), info.comps[c].h) - 1
<1> DEFINE n == height_in_blocks(info, c)
           m == width_in_blocks(info, c)
           rn == RoundUp(n, info.comps[c].v)
           rm == RoundUp(m, info.comps[c].h)
<1>1. n \in Nat /\ m \in Nat
  OBVIOUS
<1>2. rn \in Nat /\ n <= rn /\ rm \in Nat /\ m <= rm
  <2> HIDE DEF n, m
  <2> QED
    BY <1>1, StepsRight, PaddedMore
<1> HIDE DEF n, m, rn, rm
<1>3. (P \in 0 .. n - 1 => P \in 0 .. rn - 1) /\ (Q \in 0 .. m - 1 => Q \in 0 .. rm - 1)
  BY <1>1, <1>2
<1> QED
  BY <1>2, <1>3 DEF n, m, rn, rm

\* A pixel of a component of the result.
PixelReady(t, src, dst, c, a, w) ==
  /\ t \in Transforms /\ LayoutRight(src) /\ LayoutRight(dst) /\ c \in DOMAIN dst.comps /\ c \in DOMAIN src.comps
  /\ SizesTurned(t, src, dst, c) /\ a \in [PaddedPlaces(src, c) -> Block] /\ src.quant[src.comps[c].tbl] \in Block
  /\ NeedsWorkspace(t) => w = WorkspaceArray(src, c, t)
  /\ dst.quant[dst.comps[c].tbl] = TurnedTable(t, src.quant[src.comps[c].tbl])
PixelShown(t, src, dst, c, a, b, y, x) ==
  LET o == Origin(t, y, x, FullHeight(dst), FullWidth(dst)) IN PixelOf(dst, c, b, y, x) = PixelOf(src, c, a, o[1], o[2])
LEMMA PixelTurned ==
  ASSUME NEW t, NEW src, NEW dst, NEW c, NEW a, NEW w, PixelReady(t, src, dst, c, a, w),
         NEW y \in 0 .. dst.height - 1, NEW x \in 0 .. dst.width - 1
  PROVE  PixelShown(t, src, dst, c, a, Transformed(t, dst, c, a, w), y, x)
<1>1. /\ t \in Transforms /\ LayoutRight(src) /\ LayoutRight(dst) /\ c \in DOMAIN dst.comps /\ c \in DOMAIN src.comps
      /\ SizesTurned(t, src, dst, c) /\ a \in [PaddedPlaces(src, c) -> Block] /\ src.quant[src.comps[c].tbl] \in Block
      /\ NeedsWorkspace(t) => w = WorkspaceArray(src, c, t)
      /\ dst.quant[dst.comps[c].tbl] = TurnedTable(t, src.quant[src.comps[c].tbl])
  BY Zenon DEF PixelReady
<1> DEFINE o == Origin(t, y, x, FullHeight(dst), FullWidth(dst))
           kv == StepV(dst, c)
           kh == StepH(dst, c)
           lv == StepV(src, c)
           lh == StepH(src, c)
           P == (y \div kv) \div 2
           Q == (x \div kh) \div 2
           r == (y \div kv) % 2
           e == (x \div kh) % 2
           H == comp_height(dst, c)
           W == comp_width(dst, c)
           mr == IF P < H THEN 1 - r ELSE r
           me == IF Q < W THEN 1 - e ELSE e
           q == src.quant[src.comps[c].tbl]
           O == Origin(t, P, Q, H, W)
           k == OriginCell(t, r, e, mr, me)
           my == MirroredAt(y, FullHeight(dst))
           mx == MirroredAt(x, FullWidth(dst))
<1>2. /\ AxisRight(dst.height, kv, FullHeight(dst), H, height_in_blocks(dst, c), y)
      /\ (y * dst.comps[c].v) \div MaxV(dst) = y \div kv
  BY <1>1, RowsTurned
<1>3. /\ AxisRight(dst.width, kh, FullWidth(dst), W, width_in_blocks(dst, c), x)
      /\ (x * dst.comps[c].h) \div MaxH(dst) = x \div kh
  BY <1>1, ColumnsTurned
<1>4. /\ H \in Nat /\ height_in_blocks(dst, c) \in Nat /\ P \in 0 .. height_in_blocks(dst, c) - 1 /\ r \in {0, 1}
      /\ my \in 0 .. dst.height - 1 /\ (my \div kv) \div 2 = MirroredAt(P, H) /\ (my \div kv) % 2 = mr
  BY <1>2, Zenon DEF AxisRight
<1>5. /\ W \in Nat /\ width_in_blocks(dst, c) \in Nat /\ Q \in 0 .. width_in_blocks(dst, c) - 1 /\ e \in {0, 1}
      /\ mx \in 0 .. dst.width - 1 /\ (mx \div kh) \div 2 = MirroredAt(Q, W) /\ (mx \div kh) % 2 = me
  BY <1>3, Zenon DEF AxisRight
<1>6. IF TransposesSize(t) THEN lv = kh /\ lh = kv ELSE lv = kv /\ lh = kh
  BY <1>1 DEF SizesTurned
<1>7. /\ <<(o[1] \div lv) \div 2, (o[2] \div lh) \div 2>> = O
      /\ (o[1] \div lv) % 2 = k[1] /\ (o[2] \div lh) % 2 = k[2]
      /\ IF TransposesSize(t) THEN o[1] \in {x, mx} /\ o[2] \in {y, my} ELSE o[1] \in {y, my} /\ o[2] \in {x, mx}
  <2>1. OriginRight(t, y, x, FullHeight(dst), FullWidth(dst), H, W, kv, kh, lv, lh)
    <3> HIDE DEF kv, kh, lv, lh, H, W
    <3> QED
      BY <1>1, <1>2, <1>3, <1>6, OriginDivided
  <2> QED
    BY <2>1, Zenon DEF OriginRight
\* The pixel of the source is one of the source.
<1>8. /\ dst.height \in Nat /\ dst.width \in Nat /\ src.height \in Nat /\ src.width \in Nat
      /\ IF TransposesSize(t) THEN dst.height <= src.width /\ dst.width <= src.height
         ELSE dst.height <= src.height /\ dst.width <= src.width
  BY <1>1 DEF LayoutRight, SizesTurned
<1>9. o[1] \in 0 .. src.height - 1 /\ o[2] \in 0 .. src.width - 1
  <2> HIDE DEF o, my, mx
  <2>1. y \in 0 .. dst.height - 1 /\ my \in 0 .. dst.height - 1 /\ x \in 0 .. dst.width - 1 /\ mx \in 0 .. dst.width - 1
    BY <1>4, <1>5
  <2>2. CASE TransposesSize(t)
    BY <1>7, <1>8, <2>1, <2>2
  <2>3. CASE ~TransposesSize(t)
    BY <1>7, <1>8, <2>1, <2>3
  <2> QED
    BY <2>2, <2>3
<1> HIDE DEF o, my, mx
<1>10. /\ AxisRight(src.height, lv, FullHeight(src), comp_height(src, c), height_in_blocks(src, c), o[1])
      /\ (o[1] * src.comps[c].v) \div MaxV(src) = o[1] \div lv
      /\ AxisRight(src.width, lh, FullWidth(src), comp_width(src, c), width_in_blocks(src, c), o[2])
      /\ (o[2] * src.comps[c].h) \div MaxH(src) = o[2] \div lh
  BY <1>1, <1>9, RowsTurned, ColumnsTurned
<1>11. /\ height_in_blocks(src, c) \in Nat /\ (o[1] \div lv) \div 2 \in 0 .. height_in_blocks(src, c) - 1
       /\ width_in_blocks(src, c) \in Nat /\ (o[2] \div lh) \div 2 \in 0 .. width_in_blocks(src, c) - 1
  BY <1>10, Zenon DEF AxisRight
<1>12. O \in PaddedPlaces(src, c) /\ a[O] \in Block
  <2> DEFINE p1 == (o[1] \div lv) \div 2
             p2 == (o[2] \div lh) \div 2
  <2>1. /\ p1 \in 0 .. RoundUp(height_in_blocks(src, c), src.comps[c].v) - 1
        /\ p2 \in 0 .. RoundUp(width_in_blocks(src, c), src.comps[c].h) - 1
    BY <1>1, <1>11, PaddedBlocks
  <2>2. O = <<p1, p2>>
    BY <1>7
  <2> HIDE DEF p1, p2, O
  <2>3. O \in PaddedPlaces(src, c)
    BY <2>1, <2>2 DEF PaddedPlaces, Place
  <2> QED
    BY <1>1, <2>3
\* The block of the pixel lies in the arrays.
<1>13. \A v \in 0 .. src.height - 1 : (v \div lv) \div 2 \in 0 .. height_in_blocks(src, c) - 1
  <2>1. ASSUME NEW v \in 0 .. src.height - 1 PROVE (v \div lv) \div 2 \in 0 .. height_in_blocks(src, c) - 1
    BY <1>1, RowsTurned DEF AxisRight
  <2> QED
    BY <2>1
<1>14. \A v \in 0 .. src.width - 1 : (v \div lh) \div 2 \in 0 .. width_in_blocks(src, c) - 1
  <2>1. ASSUME NEW v \in 0 .. src.width - 1 PROVE (v \div lh) \div 2 \in 0 .. width_in_blocks(src, c) - 1
    BY <1>1, ColumnsTurned DEF AxisRight
  <2> QED
    BY <2>1
<1>15. IF TransposesSize(t) THEN P \in 0 .. width_in_blocks(src, c) - 1 /\ Q \in 0 .. height_in_blocks(src, c) - 1
       ELSE P \in 0 .. height_in_blocks(src, c) - 1 /\ Q \in 0 .. width_in_blocks(src, c) - 1
  <2>1. CASE TransposesSize(t)
    <3>1. lv = kh /\ lh = kv /\ y \in 0 .. src.width - 1 /\ x \in 0 .. src.height - 1
      BY <1>6, <1>8, <2>1
    <3> QED
      BY <1>13, <1>14, <2>1, <3>1
  <2>2. CASE ~TransposesSize(t)
    <3>1. lv = kv /\ lh = kh /\ y \in 0 .. src.height - 1 /\ x \in 0 .. src.width - 1
      BY <1>6, <1>8, <2>2
    <3> QED
      BY <1>13, <1>14, <2>2, <3>1
  <2> QED
    BY <2>1, <2>2
<1> HIDE DEF kv, kh, lv, lh, P, Q, r, e, H, W, mr, me, O, k, q
<1>16. IF NeedsWorkspace(t) THEN <<P, Q>> \in DOMAIN w ELSE <<P, Q>> \in DOMAIN a
  <2> DEFINE rows == RoundUp(height_in_blocks(src, c), src.comps[c].v)
             cols == RoundUp(width_in_blocks(src, c), src.comps[c].h)
  <2>1. IF TransposesSize(t) THEN P \in 0 .. cols - 1 /\ Q \in 0 .. rows - 1 ELSE P \in 0 .. rows - 1 /\ Q \in 0 .. cols - 1
    <3>1. /\ P \in 0 .. height_in_blocks(src, c) - 1 => P \in 0 .. rows - 1
          /\ Q \in 0 .. height_in_blocks(src, c) - 1 => Q \in 0 .. rows - 1
          /\ P \in 0 .. width_in_blocks(src, c) - 1 => P \in 0 .. cols - 1
          /\ Q \in 0 .. width_in_blocks(src, c) - 1 => Q \in 0 .. cols - 1
      BY <1>1, <1>11, PaddedBlocks
    <3> HIDE DEF rows, cols
    <3> QED
      BY <1>15, <3>1
  <2>2. NeedsWorkspace(t) => DOMAIN w = (IF TransposesSize(t) THEN Place(cols, rows) ELSE Place(rows, cols))
    BY <1>1 DEF WorkspaceArray
  <2>3. DOMAIN a = Place(rows, cols)
    BY <1>1 DEF PaddedPlaces
  <2>4. TransposesSize(t) => NeedsWorkspace(t)
    BY DEF TransposesSize, NeedsWorkspace
  <2> HIDE DEF rows, cols
  <2> QED
    BY <2>1, <2>2, <2>3, <2>4 DEF Place
<1>17. Reached(t, dst, c, a, w, P, Q)
  <2>1. /\ RowsWritten(dst, c) \in Nat /\ ColumnsWritten(dst, c) \in Nat
        /\ P \in 0 .. RowsWritten(dst, c) - 1 /\ Q \in 0 .. ColumnsWritten(dst, c) - 1
    BY <1>1, <1>4, <1>5, PaddedBlocks DEF RowsWritten, ColumnsWritten
  <2> QED
    BY <1>4, <1>5, <1>16, <2>1 DEF Reached
<1>18. BlockSample(Transformed(t, dst, c, a, w)[<<P, Q>>], TurnedTable(t, q), r, e) = BlockSample(a[O], q, k[1], k[2])
  <2>1. P \in Nat /\ Q \in Nat /\ r \in {0, 1} /\ e \in {0, 1} /\ q \in Block
    BY <1>1, <1>4, <1>5 DEF q
  <2>2. comp_height(dst, c) \in Nat /\ comp_width(dst, c) \in Nat
    BY <1>4, <1>5 DEF H, W
  <2>3. a[Origin(t, P, Q, comp_height(dst, c), comp_width(dst, c))] \in Block
    BY <1>12 DEF O, H, W
  <2> QED
    BY <1>1, <1>17, <2>1, <2>2, <2>3, TransformedSample DEF O, H, W, k, mr, me
<1>19. PixelOf(dst, c, Transformed(t, dst, c, a, w), y, x) = BlockSample(Transformed(t, dst, c, a, w)[<<P, Q>>], TurnedTable(t, q), r, e)
  <2>1. dst.quant[dst.comps[c].tbl] = TurnedTable(t, q)
    BY <1>1 DEF q
  <2> DEFINE z == Transformed(t, dst, c, a, w)
  <2>2. PixelOf(dst, c, z, y, x) = BlockSample(z[<<P, Q>>], dst.quant[dst.comps[c].tbl], r, e)
    <3>1. PixelOf(dst, c, z, y, x) = SampleOf(dst, c, z, y \div kv, x \div kh)
      <4> HIDE DEF z
      <4>1. PixelOf(dst, c, z, y, x) = SampleOf(dst, c, z, (y * dst.comps[c].v) \div MaxV(dst), (x * dst.comps[c].h) \div MaxH(dst))
        BY PixelIs
      <4> QED
        BY <1>2, <1>3, <4>1, Zenon
    <3> HIDE DEF z
    <3> QED
      BY <3>1, Zenon DEF P, Q, r, e, SampleOf
  <2> QED
    BY <2>1, <2>2, Zenon
<1>20. PixelOf(src, c, a, o[1], o[2]) = BlockSample(a[O], q, k[1], k[2])
  <2>1. PixelOf(src, c, a, o[1], o[2]) =
          BlockSample(a[<<(o[1] \div lv) \div 2, (o[2] \div lh) \div 2>>], q, (o[1] \div lv) % 2, (o[2] \div lh) % 2)
    <3>1. PixelOf(src, c, a, o[1], o[2]) = SampleOf(src, c, a, (o[1] * src.comps[c].v) \div MaxV(src), (o[2] * src.comps[c].h) \div MaxH(src))
      BY PixelIs
    <3>2. PixelOf(src, c, a, o[1], o[2]) = SampleOf(src, c, a, o[1] \div lv, o[2] \div lh)
      BY <1>10, <3>1, Zenon
    <3> QED
      BY <3>2, Zenon DEF q, SampleOf
  <2> QED
    BY <1>7, <2>1, Zenon
<1> QED
  BY <1>18, <1>19, <1>20, Zenon DEF o, PixelShown

-----------------------------------------------------------------------------
(* The parameters of the result.                                           *)

\* Two layouts whose largest factors are of the same families.
SizesTyped(info) ==
  /\ IsFiniteSet(DOMAIN info.comps)
  /\ Hs(info) \in [DOMAIN info.comps -> Nat \ {0}] /\ Vs(info) \in [DOMAIN info.comps -> Nat \ {0}]
LEMMA LargestAlike ==
  ASSUME NEW i, NEW j, SizesTyped(i), SizesTyped(j)
  PROVE  /\ Hs(i) = Hs(j) => MaxH(i) = MaxH(j)
         /\ Vs(i) = Vs(j) => MaxV(i) = MaxV(j)
         /\ Hs(i) = Vs(j) => MaxH(i) = MaxV(j)
<1>1. /\ IsLargest(MaxH(i), DOMAIN i.comps, Hs(i)) /\ IsLargest(MaxV(i), DOMAIN i.comps, Vs(i))
      /\ IsLargest(MaxH(j), DOMAIN j.comps, Hs(j)) /\ IsLargest(MaxV(j), DOMAIN j.comps, Vs(j))
  BY MaxHRight, MaxVRight DEF SizesTyped
<1>2. /\ Hs(i) \in [DOMAIN i.comps -> Nat] /\ Vs(i) \in [DOMAIN i.comps -> Nat]
      /\ Hs(j) \in [DOMAIN j.comps -> Nat] /\ Vs(j) \in [DOMAIN j.comps -> Nat]
  BY DEF SizesTyped
<1>3. /\ DOMAIN Hs(i) = DOMAIN i.comps /\ DOMAIN Vs(i) = DOMAIN i.comps
      /\ DOMAIN Hs(j) = DOMAIN j.comps /\ DOMAIN Vs(j) = DOMAIN j.comps
  BY DEF Hs, Vs
<1> QED
  BY <1>1, <1>2, <1>3, LargestUnique, Zenon

\* The fields of a file's parameters that a transformation changes, one by one.
Fields == {"width", "height", "space", "comps", "quant"}
SameComps(i, j) == j.comps = i.comps /\ j.quant = i.quant
LEMMA WidthSet ==
  ASSUME NEW i, Fields \subseteq DOMAIN i, NEW n
  PROVE  LET j == [i EXCEPT !.width = n]
         IN  Fields \subseteq DOMAIN j /\ j.width = n /\ j.height = i.height /\ SameComps(i, j)
BY DEF Fields, SameComps
LEMMA HeightSet ==
  ASSUME NEW i, Fields \subseteq DOMAIN i, NEW n
  PROVE  LET j == [i EXCEPT !.height = n]
         IN  Fields \subseteq DOMAIN j /\ j.height = n /\ j.width = i.width /\ SameComps(i, j)
BY DEF Fields, SameComps

LEMMA SameLayout ==
  ASSUME NEW i, NEW j, LayoutRight(i), SameComps(i, j), j.width \in Nat, j.height \in Nat
  PROVE  /\ LayoutRight(j) /\ MaxH(j) = MaxH(i) /\ MaxV(j) = MaxV(i)
         /\ \A c \in DOMAIN i.comps : StepV(j, c) = StepV(i, c) /\ StepH(j, c) = StepH(i, c)
<1>1. j.comps = i.comps
  BY DEF SameComps
<1>2. Hs(j) = Hs(i) /\ Vs(j) = Vs(i)
  BY <1>1 DEF Hs, Vs
<1>3. SizesTyped(i) /\ SizesTyped(j)
  BY <1>1, <1>2, Zenon DEF SizesTyped, LayoutRight
<1>4. MaxH(j) = MaxH(i) /\ MaxV(j) = MaxV(i)
  BY <1>2, <1>3, LargestAlike
<1>5. LayoutRight(j)
  BY <1>1, <1>2, <1>4, Zenon DEF LayoutRight, SamplingWhole
<1>6. \A c \in DOMAIN i.comps : StepV(j, c) = StepV(i, c) /\ StepH(j, c) = StepH(i, c)
  BY <1>1, <1>4, Zenon DEF StepV, StepH
<1> QED
  BY <1>4, <1>5, <1>6

\* transpose_critical_parameters turns the layout.
LEMMA LayoutTransposed ==
  ASSUME NEW i, Fields \subseteq DOMAIN i, LayoutRight(i), \A c \in DOMAIN i.comps : {"h", "v", "tbl"} \subseteq DOMAIN i.comps[c]
  PROVE  LET j == transpose_critical_parameters(i)
         IN  /\ Fields \subseteq DOMAIN j /\ j.width = i.height /\ j.height = i.width
             /\ DOMAIN j.comps = DOMAIN i.comps /\ LayoutRight(j) /\ MaxH(j) = MaxV(i) /\ MaxV(j) = MaxH(i)
             /\ j.quant = [t \in DOMAIN i.quant |-> TransposedBlock(i.quant[t])]
             /\ \A c \in DOMAIN i.comps : /\ j.comps[c].tbl = i.comps[c].tbl
                                          /\ StepV(j, c) = StepH(i, c) /\ StepH(j, c) = StepV(i, c)
<1> DEFINE j == transpose_critical_parameters(i)
           cs == [c \in DOMAIN i.comps |-> [i.comps[c] EXCEPT !.h = i.comps[c].v, !.v = i.comps[c].h]]
           qs == [t \in DOMAIN i.quant |-> TransposedBlock(i.quant[t])]
<1>1. /\ Fields \subseteq DOMAIN j /\ j.width = i.height /\ j.height = i.width /\ j.comps = cs /\ j.quant = qs
  <2>1. j = [i EXCEPT !.width = i.height, !.height = i.width, !.comps = cs, !.quant = qs]
    BY DEF transpose_critical_parameters
  <2> HIDE DEF j, cs, qs
  <2> QED
    BY <2>1 DEF Fields
<1>2. ASSUME NEW c \in DOMAIN i.comps
      PROVE  cs[c].h = i.comps[c].v /\ cs[c].v = i.comps[c].h /\ cs[c].tbl = i.comps[c].tbl
  <2>1. {"h", "v", "tbl"} \subseteq DOMAIN i.comps[c]
    OBVIOUS
  <2> DEFINE d == i.comps[c]
  <2>2. cs[c] = [d EXCEPT !.h = d.v, !.v = d.h]
    OBVIOUS
  <2> HIDE DEF cs, d
  <2>3. cs[c].h = d.v /\ cs[c].v = d.h /\ cs[c].tbl = d.tbl
    BY <2>1, <2>2 DEF d
  <2> QED
    BY <2>3 DEF d
<1>3. DOMAIN cs = DOMAIN i.comps
  OBVIOUS
<1> HIDE DEF j, cs, qs
<1>4. Hs(j) = Vs(i) /\ Vs(j) = Hs(i) /\ DOMAIN j.comps = DOMAIN i.comps
  BY <1>1, <1>2, <1>3 DEF Hs, Vs
<1>5. SizesTyped(i) /\ SizesTyped(j)
  BY <1>4, Zenon DEF SizesTyped, LayoutRight
<1>6. MaxH(j) = MaxV(i) /\ MaxV(j) = MaxH(i)
  BY <1>4, <1>5, LargestAlike
<1>7. \A c \in DOMAIN i.comps : /\ j.comps[c].tbl = i.comps[c].tbl /\ j.comps[c].h = i.comps[c].v /\ j.comps[c].v = i.comps[c].h
  BY <1>1, <1>2
<1>8. \A c \in DOMAIN i.comps : StepV(j, c) = StepH(i, c) /\ StepH(j, c) = StepV(i, c)
  BY <1>6, <1>7, Zenon DEF StepV, StepH
<1>9. LayoutRight(j)
  <2>1. j.width \in Nat /\ j.height \in Nat
    BY <1>1 DEF LayoutRight
  <2>2. SamplingWhole(j)
    BY <1>4, <1>6, <1>7, Zenon DEF LayoutRight, SamplingWhole
  <2> QED
    BY <1>5, <2>1, <2>2, Zenon DEF LayoutRight, SizesTyped
<1>10. /\ Fields \subseteq DOMAIN j /\ j.width = i.height /\ j.height = i.width
       /\ DOMAIN j.comps = DOMAIN i.comps /\ LayoutRight(j) /\ MaxH(j) = MaxV(i) /\ MaxV(j) = MaxH(i)
       /\ j.quant = qs
       /\ \A c \in DOMAIN i.comps : /\ j.comps[c].tbl = i.comps[c].tbl
                                    /\ StepV(j, c) = StepH(i, c) /\ StepH(j, c) = StepV(i, c)
  BY <1>1, <1>4, <1>6, <1>7, <1>8, <1>9, Zenon
<1> QED
  BY <1>10, Zenon DEF j, qs

\* The parameters of what a job reads.
LEMMA FileRight ==
  ASSUME NEW i \in FileRecord
  PROVE  /\ DOMAIN i = Fields \cup {"used"} /\ i.width \in Nat \ {0} /\ i.height \in Nat \ {0} /\ i.quant \in Seq(Block)
         /\ SizesTyped(i) /\ DOMAIN i.comps = 1 .. Len(i.comps) /\ Len(i.comps) \in Nat
         /\ \A c \in DOMAIN i.comps : DOMAIN i.comps[c] = {"h", "v", "tbl"} /\ i.comps[c].h \in Nat \ {0} /\ i.comps[c].v \in Nat \ {0}
         /\ SamplingWhole(i) => LayoutRight(i)
<1>1. /\ DOMAIN i = Fields \cup {"used"} /\ i.width \in Nat \ {0} /\ i.height \in Nat \ {0} /\ i.quant \in Seq(Block)
  BY DEF FileRecord, Fields
<1> DEFINE C == [h : Nat \ {0}, v : Nat \ {0}, tbl : Nat]
<1>2. i.comps \in Seq(C)
  BY DEF FileRecord
<1>3. DOMAIN i.comps = 1 .. Len(i.comps) /\ Len(i.comps) \in Nat /\ \A c \in DOMAIN i.comps : i.comps[c] \in C
  <2> HIDE DEF C
  <2> QED
    BY <1>2
<1>4. \A c \in DOMAIN i.comps : DOMAIN i.comps[c] = {"h", "v", "tbl"} /\ i.comps[c].h \in Nat \ {0} /\ i.comps[c].v \in Nat \ {0}
  BY <1>3
<1>5. IsFiniteSet(DOMAIN i.comps)
  <2>1. \A m, n \in Int : IsFiniteSet(m .. n)
    BY FS_Interval
  <2>2. Len(i.comps) \in Int /\ 1 \in Int
    BY <1>3
  <2> QED
    BY <1>3, <2>1, <2>2, Zenon
<1>6. SizesTyped(i)
  BY <1>4, <1>5 DEF SizesTyped, Hs, Vs
<1> QED
  BY <1>1, <1>3, <1>4, <1>6 DEF LayoutRight, SizesTyped

\* One component of a grayscale picture has a sample for every pixel.
LEMMA LayoutGray ==
  ASSUME NEW i \in FileRecord, SamplingWhole(i), CanBeGray(i),
         i.space = "ycbcr" /\ Len(i.comps) = 3 => i.comps[1].h = MaxH(i) /\ i.comps[1].v = MaxV(i)
  PROVE  LET j == MadeGray(i)
         IN  /\ Fields \subseteq DOMAIN j /\ j.width = i.width /\ j.height = i.height /\ j.quant = i.quant
             /\ LayoutRight(j) /\ DOMAIN j.comps = {1} /\ DOMAIN j.comps \subseteq DOMAIN i.comps
             /\ \A c \in DOMAIN j.comps : /\ {"h", "v", "tbl"} \subseteq DOMAIN j.comps[c] /\ j.comps[c].tbl = i.comps[c].tbl
                                          /\ StepV(j, c) = StepV(i, c) /\ StepH(j, c) = StepH(i, c)
<1> DEFINE j == MadeGray(i)
           cs == <<[h |-> 1, v |-> 1, tbl |-> i.comps[1].tbl]>>
<1>1. /\ Fields \subseteq DOMAIN j /\ j.width = i.width /\ j.height = i.height /\ j.quant = i.quant /\ j.comps = cs
  <2>1. j = [i EXCEPT !.space = "grayscale", !.comps = cs]
    BY DEF MadeGray
  <2>2. Fields \subseteq DOMAIN i
    BY FileRight
  <2> HIDE DEF j, cs
  <2> QED
    BY <2>1, <2>2 DEF Fields
<1>2. DOMAIN cs = {1} /\ cs[1].h = 1 /\ cs[1].v = 1 /\ cs[1].tbl = i.comps[1].tbl /\ DOMAIN cs[1] = {"h", "v", "tbl"}
  OBVIOUS
<1> HIDE DEF j, cs
<1>3. DOMAIN j.comps = {1}
  BY <1>1, <1>2
<1>4. SizesTyped(j)
  <2>1. IsFiniteSet({1})
    BY FS_Singleton
  <2> QED
    BY <1>1, <1>2, <2>1 DEF SizesTyped, Hs, Vs
<1>5. MaxH(j) = 1 /\ MaxV(j) = 1
  <2>1. IsLargest(MaxV(j), {1}, Vs(j)) /\ IsLargest(MaxH(j), {1}, Hs(j))
    BY <1>3, <1>4, MaxVRight, MaxHRight DEF SizesTyped
  <2>2. Vs(j)[1] = 1 /\ Hs(j)[1] = 1
    BY <1>1, <1>2 DEF Hs, Vs
  <2> QED
    BY <2>1, <2>2 DEF IsLargest
<1>6. 1 \in DOMAIN i.comps /\ i.comps[1].h = MaxH(i) /\ i.comps[1].v = MaxV(i)
  <2>1. Len(i.comps) = 1 \/ Len(i.comps) = 3
    BY DEF CanBeGray
  <2>2. 1 \in DOMAIN i.comps
    BY <2>1, FileRight
  <2>3. CASE i.space = "ycbcr" /\ Len(i.comps) = 3
    BY <2>2, <2>3
  <2>4. CASE Len(i.comps) = 1
    <3>1. DOMAIN i.comps = {1}
      BY <2>4, FileRight
    <3>2. IsLargest(MaxV(i), {1}, Vs(i)) /\ IsLargest(MaxH(i), {1}, Hs(i))
      <4>1. SizesTyped(i)
        BY FileRight
      <4>2. IsLargest(MaxV(i), DOMAIN i.comps, Vs(i)) /\ IsLargest(MaxH(i), DOMAIN i.comps, Hs(i))
        BY <4>1, MaxVRight, MaxHRight DEF SizesTyped
      <4> QED
        BY <3>1, <4>2, Zenon
    <3>3. Vs(i)[1] = i.comps[1].v /\ Hs(i)[1] = i.comps[1].h /\ i.comps[1].v \in Nat \ {0} /\ i.comps[1].h \in Nat \ {0}
      BY <3>1, FileRight DEF Hs, Vs
    <3>4. i.comps[1].v = MaxV(i) /\ i.comps[1].h = MaxH(i)
      BY <3>2, <3>3 DEF IsLargest
    <3> QED
      BY <2>2, <3>4
  <2> QED
    BY <2>3, <2>4 DEF CanBeGray
<1>7. StepV(i, 1) = 1 /\ StepH(i, 1) = 1
  <2>1. i.comps[1].h \in Nat \ {0} /\ i.comps[1].v \in Nat \ {0}
    BY <1>6, FileRight
  <2>2. \A n \in Nat \ {0} : n \div n = 1
    OBVIOUS
  <2> QED
    BY <1>6, <2>1, <2>2 DEF StepV, StepH
<1>8. StepV(j, 1) = 1 /\ StepH(j, 1) = 1
  BY <1>1, <1>2, <1>5 DEF StepV, StepH
<1>9. LayoutRight(j)
  <2>1. SamplingWhole(j)
    BY <1>1, <1>2, <1>5 DEF SamplingWhole
  <2>2. j.width \in Nat /\ j.height \in Nat
    BY <1>1, FileRight
  <2> QED
    BY <1>4, <2>1, <2>2, Zenon DEF LayoutRight, SizesTyped
<1>10. \A c \in DOMAIN j.comps : /\ {"h", "v", "tbl"} \subseteq DOMAIN j.comps[c] /\ j.comps[c].tbl = i.comps[c].tbl
                                 /\ StepV(j, c) = StepV(i, c) /\ StepH(j, c) = StepH(i, c)
  BY <1>1, <1>2, <1>3, <1>7, <1>8
<1>11. DOMAIN j.comps \subseteq DOMAIN i.comps
  BY <1>3, <1>6
<1> QED
  BY <1>1, <1>3, <1>9, <1>10, <1>11, Zenon DEF j

\* Cutting off what is left of the last MCU.
LEMMA WholePart ==
  ASSUME NEW n \in Nat \ {0}, NEW u \in Nat \ {0}
  PROVE  /\ Whole(n, u) \in Nat /\ Whole(n, u) <= n /\ (n \div u > 0 <=> Whole(n, u) > 0)
         /\ Whole(n, u) = (n \div u) * u
<1> DEFINE q == n \div u
<1>1. q \in Nat /\ q * u <= n
  BY DivisionRange
<1>2. Whole(n, u) = q * u
  BY DEF Whole
<1> HIDE DEF q
<1>3. q * u \in Nat /\ (q > 0 => q * u > 0) /\ (q = 0 => q * u = 0)
  BY <1>1, ProductNat, ProductPositive
<1>4. q > 0 <=> q * u > 0
  BY <1>1, <1>3
<1> QED
  BY <1>1, <1>2, <1>3, <1>4 DEF q

LEMMA LargestPositive ==
  ASSUME NEW i, LayoutRight(i)
  PROVE  MaxH(i) \in Nat \ {0} /\ MaxV(i) \in Nat \ {0} /\ MaxH(i) * 2 \in Nat \ {0} /\ MaxV(i) * 2 \in Nat \ {0}
<1>1. MaxV(i) \in Nat \ {0} /\ MaxH(i) \in Nat \ {0}
  <2>1. IsLargest(MaxV(i), DOMAIN i.comps, Vs(i)) /\ IsLargest(MaxH(i), DOMAIN i.comps, Hs(i))
    BY MaxVRight, MaxHRight DEF LayoutRight
  <2> QED
    BY <2>1, Zenon DEF IsLargest
<1> QED
  BY <1>1

LEMMA WidthTrimmed ==
  ASSUME NEW i, Fields \subseteq DOMAIN i, LayoutRight(i), i.width \in Nat \ {0}, NEW t, NEW trim \in BOOLEAN
  PROVE  LET j == TrimmedWidth(i, t, trim)
             f == Whole(i.width, MaxH(i) * DCTSIZE)
         IN  /\ Fields \subseteq DOMAIN j /\ SameComps(i, j) /\ j.height = i.height
             /\ j.width = (IF trim /\ TrimmedRight(t) /\ f > 0 THEN f ELSE i.width)
             /\ j.width \in Nat \ {0} /\ j.width <= i.width
<1> DEFINE u == MaxH(i) * DCTSIZE
           n == i.width
           f == Whole(n, u)
           j == TrimmedWidth(i, t, trim)
<1> SUFFICES /\ Fields \subseteq DOMAIN j /\ SameComps(i, j) /\ j.height = i.height
             /\ j.width = (IF trim /\ TrimmedRight(t) /\ f > 0 THEN f ELSE n)
             /\ j.width \in Nat \ {0} /\ j.width <= n
  OBVIOUS
<1>1. u \in Nat \ {0} /\ n \in Nat \ {0}
  BY LargestPositive DEF DCTSIZE
<1>2. f \in Nat /\ f <= n /\ (n \div u > 0 <=> f > 0) /\ f = (n \div u) * u
  <2> HIDE DEF n, u
  <2> QED
    BY <1>1, WholePart
<1>3. j = (IF trim /\ TrimmedRight(t) /\ n \div u > 0 THEN [i EXCEPT !.width = (n \div u) * u] ELSE i)
  BY Zenon DEF TrimmedWidth, trim_right_edge
<1>4. j = (IF trim /\ TrimmedRight(t) /\ f > 0 THEN [i EXCEPT !.width = f] ELSE i)
  <2> HIDE DEF j, n, u, f
  <2> QED
    BY <1>2, <1>3, Zenon
<1>5. CASE trim /\ TrimmedRight(t) /\ f > 0
  <2>1. j = [i EXCEPT !.width = f]
    BY <1>4, <1>5, Zenon
  <2> HIDE DEF f, j, n
  <2>2. Fields \subseteq DOMAIN j /\ j.width = f /\ j.height = i.height /\ SameComps(i, j)
    BY <2>1, WidthSet
  <2> QED
    BY <1>1, <1>2, <1>5, <2>2
<1>6. CASE ~(trim /\ TrimmedRight(t) /\ f > 0)
  <2>1. j = i
    BY <1>4, <1>6, Zenon
  <2> HIDE DEF f, j
  <2>2. Fields \subseteq DOMAIN j /\ j.width = n /\ j.height = i.height /\ SameComps(i, j)
    BY <2>1 DEF SameComps
  <2> HIDE DEF n
  <2> QED
    BY <1>1, <1>6, <2>2
<1> QED
  BY <1>5, <1>6

LEMMA HeightTrimmed ==
  ASSUME NEW i, Fields \subseteq DOMAIN i, LayoutRight(i), i.height \in Nat \ {0}, NEW t, NEW trim \in BOOLEAN
  PROVE  LET j == TrimmedHeight(i, t, trim)
             f == Whole(i.height, MaxV(i) * DCTSIZE)
         IN  /\ Fields \subseteq DOMAIN j /\ SameComps(i, j) /\ j.width = i.width
             /\ j.height = (IF trim /\ TrimmedBottom(t) /\ f > 0 THEN f ELSE i.height)
             /\ j.height \in Nat \ {0} /\ j.height <= i.height
<1> DEFINE u == MaxV(i) * DCTSIZE
           n == i.height
           f == Whole(n, u)
           j == TrimmedHeight(i, t, trim)
<1> SUFFICES /\ Fields \subseteq DOMAIN j /\ SameComps(i, j) /\ j.width = i.width
             /\ j.height = (IF trim /\ TrimmedBottom(t) /\ f > 0 THEN f ELSE n)
             /\ j.height \in Nat \ {0} /\ j.height <= n
  OBVIOUS
<1>1. u \in Nat \ {0} /\ n \in Nat \ {0}
  BY LargestPositive DEF DCTSIZE
<1>2. f \in Nat /\ f <= n /\ (n \div u > 0 <=> f > 0) /\ f = (n \div u) * u
  <2> HIDE DEF n, u
  <2> QED
    BY <1>1, WholePart
<1>3. j = (IF trim /\ TrimmedBottom(t) /\ n \div u > 0 THEN [i EXCEPT !.height = (n \div u) * u] ELSE i)
  BY Zenon DEF TrimmedHeight, trim_bottom_edge
<1>4. j = (IF trim /\ TrimmedBottom(t) /\ f > 0 THEN [i EXCEPT !.height = f] ELSE i)
  <2> HIDE DEF j, n, u, f
  <2> QED
    BY <1>2, <1>3, Zenon
<1>5. CASE trim /\ TrimmedBottom(t) /\ f > 0
  <2>1. j = [i EXCEPT !.height = f]
    BY <1>4, <1>5, Zenon
  <2> HIDE DEF f, j, n
  <2>2. Fields \subseteq DOMAIN j /\ j.height = f /\ j.width = i.width /\ SameComps(i, j)
    BY <2>1, HeightSet
  <2> QED
    BY <1>1, <1>2, <1>5, <2>2
<1>6. CASE ~(trim /\ TrimmedBottom(t) /\ f > 0)
  <2>1. j = i
    BY <1>4, <1>6, Zenon
  <2> HIDE DEF f, j
  <2>2. Fields \subseteq DOMAIN j /\ j.height = n /\ j.width = i.width /\ SameComps(i, j)
    BY <2>1 DEF SameComps
  <2> HIDE DEF n
  <2> QED
    BY <1>1, <1>6, <2>2
<1> QED
  BY <1>5, <1>6

\* jtransform_adjust_parameters turns sizes, factors and tables together.
LEMMA AdjustedRight ==
  ASSUME TransformAssumption, SamplingInOrder, NEW job \in TransformJobs, job.gray => CanBeGray(job.info)
  PROVE  LET i == job.info
             d == jtransform_adjust_parameters(i, job.transform, job.trim, job.gray)
         IN  /\ LayoutRight(d) /\ DOMAIN d.comps \subseteq DOMAIN i.comps /\ SizeRight(job, i, d)
             /\ DOMAIN d.comps \subseteq 1 .. Components1(i, job.gray)
             /\ \A c \in DOMAIN d.comps : /\ SizesTurned(job.transform, i, d, c)
                                          /\ d.quant[d.comps[c].tbl] = TurnedTable(job.transform, i.quant[i.comps[c].tbl])
<1> DEFINE i == job.info
           t == job.transform
           trim == job.trim
           g == IF job.gray THEN MadeGray(i) ELSE i
           u == TurnedInfo(g, t)
           r == TrimmedWidth(u, t, trim)
           d == TrimmedHeight(r, t, trim)
<1>1. /\ i \in FileRecord /\ t \in Transforms /\ trim \in BOOLEAN /\ SamplingWhole(i)
      /\ \A c \in DOMAIN i.comps : i.comps[c].tbl \in DOMAIN i.quant
      /\ job.gray /\ i.space = "ycbcr" /\ Len(i.comps) = 3 => i.comps[1].h = MaxH(i) /\ i.comps[1].v = MaxV(i)
      /\ (job.gray => CanBeGray(i))
  BY Zenon DEF TransformAssumption, SamplingInOrder
<1>2. /\ Fields \subseteq DOMAIN g /\ g.width = i.width /\ g.height = i.height /\ g.quant = i.quant
      /\ LayoutRight(g) /\ DOMAIN g.comps \subseteq DOMAIN i.comps
      /\ \A c \in DOMAIN g.comps : /\ {"h", "v", "tbl"} \subseteq DOMAIN g.comps[c] /\ g.comps[c].tbl = i.comps[c].tbl
                                   /\ StepV(g, c) = StepV(i, c) /\ StepH(g, c) = StepH(i, c)
  <2> HIDE DEF i
  <2>1. CASE job.gray
    <3>1. g = MadeGray(i)
      BY <2>1
    <3> QED
      BY <1>1, <2>1, <3>1, LayoutGray, Zenon
  <2>2. CASE ~job.gray
    <3>1. g = i
      BY <2>2
    <3>2. /\ Fields \subseteq DOMAIN i /\ LayoutRight(i)
          /\ \A c \in DOMAIN i.comps : {"h", "v", "tbl"} \subseteq DOMAIN i.comps[c]
      BY <1>1, FileRight
    <3> HIDE DEF g
    <3> QED
      BY <3>1, <3>2
  <2> QED
    BY <2>1, <2>2
<1>3. DOMAIN g.comps \subseteq 1 .. Components1(i, job.gray)
  <2>1. DOMAIN i.comps = 1 .. Len(i.comps) /\ Len(i.comps) \in Nat
    BY <1>1, FileRight
  <2> HIDE DEF i
  <2>2. CASE job.gray
    <3>1. g = MadeGray(i)
      BY <2>2
    <3>2. DOMAIN g.comps = {1}
      BY <1>1, <2>2, <3>1, LayoutGray, Zenon
    <3>3. Len(i.comps) = 1 \/ Len(i.comps) = 3
      BY <1>1, <2>2 DEF CanBeGray
    <3>4. Components1(i, job.gray) \in {1, 3}
      BY <3>3 DEF Components1
    <3> HIDE DEF g
    <3> QED
      BY <3>2, <3>4
  <2>3. CASE ~job.gray
    <3>1. g = i
      BY <2>3
    <3>2. Components1(i, job.gray) = Len(i.comps)
      BY <2>3 DEF Components1
    <3> HIDE DEF g
    <3> QED
      BY <2>1, <3>1, <3>2
  <2> QED
    BY <2>2, <2>3
<1>4. i.width \in Nat \ {0} /\ i.height \in Nat \ {0}
  BY <1>1, FileRight
<1> HIDE DEF i, g
<1> DEFINE w == IF TransposesSize(t) THEN i.height ELSE i.width
           h == IF TransposesSize(t) THEN i.width ELSE i.height
<1>5. /\ Fields \subseteq DOMAIN u /\ u.width = w /\ u.height = h /\ LayoutRight(u) /\ DOMAIN u.comps = DOMAIN g.comps
      /\ u.quant = (IF TransposesSize(t) THEN [n \in DOMAIN i.quant |-> TransposedBlock(i.quant[n])] ELSE i.quant)
      /\ \A c \in DOMAIN g.comps :
           /\ u.comps[c].tbl = i.comps[c].tbl
           /\ IF TransposesSize(t) THEN StepV(u, c) = StepH(i, c) /\ StepH(u, c) = StepV(i, c)
              ELSE StepV(u, c) = StepV(i, c) /\ StepH(u, c) = StepH(i, c)
  <2>1. CASE TransposesSize(t)
    <3>1. u = transpose_critical_parameters(g)
      BY <2>1 DEF TurnedInfo
    <3> HIDE DEF u, t
    <3>2. \A c \in DOMAIN g.comps : {"h", "v", "tbl"} \subseteq DOMAIN g.comps[c]
      BY <1>2
    <3>3. /\ Fields \subseteq DOMAIN u /\ u.width = g.height /\ u.height = g.width
          /\ DOMAIN u.comps = DOMAIN g.comps /\ LayoutRight(u)
          /\ u.quant = [n \in DOMAIN g.quant |-> TransposedBlock(g.quant[n])]
          /\ \A c \in DOMAIN g.comps : /\ u.comps[c].tbl = g.comps[c].tbl
                                       /\ StepV(u, c) = StepH(g, c) /\ StepH(u, c) = StepV(g, c)
      BY <1>2, <3>1, <3>2, LayoutTransposed, Zenon
    <3> QED
      BY <1>2, <2>1, <3>3
  <2>2. CASE ~TransposesSize(t)
    <3>1. u = g
      BY <2>2 DEF TurnedInfo
    <3> HIDE DEF u, t
    <3> QED
      BY <1>2, <2>2, <3>1
  <2> QED
    BY <2>1, <2>2
<1>6. w \in Nat \ {0} /\ h \in Nat \ {0}
  BY <1>4
<1> HIDE DEF u, w, h, t, trim
<1>7. /\ Fields \subseteq DOMAIN r /\ SameComps(u, r) /\ r.height = h
      /\ r.width = (IF trim /\ TrimmedRight(t) /\ Whole(w, MaxH(u) * DCTSIZE) > 0 THEN Whole(w, MaxH(u) * DCTSIZE) ELSE w)
      /\ r.width \in Nat \ {0} /\ r.width <= w
  <2>1. u.width \in Nat \ {0}
    BY <1>5, <1>6
  <2>2. /\ Fields \subseteq DOMAIN r /\ SameComps(u, r) /\ r.height = u.height
        /\ r.width = (IF trim /\ TrimmedRight(t) /\ Whole(u.width, MaxH(u) * DCTSIZE) > 0 THEN Whole(u.width, MaxH(u) * DCTSIZE) ELSE u.width)
        /\ r.width \in Nat \ {0} /\ r.width <= u.width
    BY <1>1, <1>5, <2>1, WidthTrimmed
  <2> HIDE DEF r
  <2>3. u.width = w /\ u.height = h
    BY <1>5
  <2> QED
    BY <2>2, <2>3, Zenon
<1> HIDE DEF r
<1>8. LayoutRight(r) /\ MaxH(r) = MaxH(u) /\ MaxV(r) = MaxV(u) /\ \A c \in DOMAIN u.comps : StepV(r, c) = StepV(u, c) /\ StepH(r, c) = StepH(u, c)
  <2>1. r.width \in Nat /\ r.height \in Nat
    BY <1>6, <1>7
  <2> QED
    BY <1>5, <1>7, <2>1, SameLayout, Zenon
<1>9. /\ Fields \subseteq DOMAIN d /\ SameComps(r, d) /\ d.width = r.width
      /\ d.height = (IF trim /\ TrimmedBottom(t) /\ Whole(h, MaxV(u) * DCTSIZE) > 0 THEN Whole(h, MaxV(u) * DCTSIZE) ELSE h)
      /\ d.height \in Nat \ {0} /\ d.height <= h
  <2>1. r.height \in Nat \ {0}
    BY <1>6, <1>7
  <2>2. /\ Fields \subseteq DOMAIN d /\ SameComps(r, d) /\ d.width = r.width
        /\ d.height = (IF trim /\ TrimmedBottom(t) /\ Whole(r.height, MaxV(r) * DCTSIZE) > 0 THEN Whole(r.height, MaxV(r) * DCTSIZE) ELSE r.height)
        /\ d.height \in Nat \ {0} /\ d.height <= r.height
    BY <1>1, <1>7, <1>8, <2>1, HeightTrimmed
  <2> HIDE DEF d
  <2>3. r.height = h /\ MaxV(r) = MaxV(u)
    BY <1>7, <1>8
  <2> QED
    BY <2>2, <2>3, Zenon
<1> HIDE DEF d
<1>10. LayoutRight(d) /\ MaxH(d) = MaxH(r) /\ MaxV(d) = MaxV(r) /\ \A c \in DOMAIN r.comps : StepV(d, c) = StepV(r, c) /\ StepH(d, c) = StepH(r, c)
  <2>1. d.width \in Nat /\ d.height \in Nat
    BY <1>7, <1>9
  <2> QED
    BY <1>8, <1>9, <2>1, SameLayout, Zenon
<1>11. d.comps = u.comps /\ d.quant = u.quant /\ r.comps = u.comps
  BY <1>7, <1>9 DEF SameComps
<1>12. DOMAIN d.comps = DOMAIN g.comps
  BY <1>5, <1>11
<1>13. ASSUME NEW c \in DOMAIN d.comps
       PROVE  /\ SizesTurned(t, i, d, c)
              /\ d.quant[d.comps[c].tbl] = TurnedTable(t, i.quant[i.comps[c].tbl])
  <2>1. c \in DOMAIN g.comps /\ c \in DOMAIN u.comps /\ c \in DOMAIN r.comps /\ c \in DOMAIN i.comps
    BY <1>2, <1>5, <1>11, <1>12
  <2>2. StepV(d, c) = StepV(u, c) /\ StepH(d, c) = StepH(u, c)
    BY <1>8, <1>10, <2>1
  <2>3. d.height <= h /\ d.width <= w
    BY <1>7, <1>9
  <2>4. SizesTurned(t, i, d, c)
    <3>1. IF TransposesSize(t) THEN StepV(u, c) = StepH(i, c) /\ StepH(u, c) = StepV(i, c)
          ELSE StepV(u, c) = StepV(i, c) /\ StepH(u, c) = StepH(i, c)
      BY <1>5, <2>1
    <3> QED
      BY <2>2, <2>3, <3>1, Zenon DEF SizesTurned, w, h
  <2>5. d.comps[c].tbl = i.comps[c].tbl /\ i.comps[c].tbl \in DOMAIN i.quant
    BY <1>1, <1>5, <1>11, <2>1
  <2>6. d.quant[i.comps[c].tbl] = TurnedTable(t, i.quant[i.comps[c].tbl])
    BY <1>5, <1>11, <2>5 DEF TurnedTable
  <2> QED
    BY <2>4, <2>5, <2>6
<1>14. SizeRight(job, i, d)
  <2>1. MaxH(d) = MaxH(u) /\ MaxV(d) = MaxV(u)
    BY <1>8, <1>10
  <2>2. d.width = (IF trim /\ TrimmedRight(t) /\ Whole(w, MaxH(d) * DCTSIZE) > 0 THEN Whole(w, MaxH(d) * DCTSIZE) ELSE w)
    BY <1>7, <1>9, <2>1, Zenon
  <2>3. d.height = (IF trim /\ TrimmedBottom(t) /\ Whole(h, MaxV(d) * DCTSIZE) > 0 THEN Whole(h, MaxV(d) * DCTSIZE) ELSE h)
    BY <1>9, <2>1, Zenon
  <2> QED
    BY <2>2, <2>3, Zenon DEF SizeRight, w, h, t, trim
<1>15. d = jtransform_adjust_parameters(i, job.transform, job.trim, job.gray)
  BY Zenon DEF jtransform_adjust_parameters, d, r, u, g, t, trim
<1>16. /\ LayoutRight(d) /\ DOMAIN d.comps \subseteq DOMAIN i.comps /\ SizeRight(job, i, d)
       /\ DOMAIN d.comps \subseteq 1 .. Components1(i, job.gray)
       /\ \A c \in DOMAIN d.comps : /\ SizesTurned(job.transform, i, d, c)
                                    /\ d.quant[d.comps[c].tbl] = TurnedTable(job.transform, i.quant[i.comps[c].tbl])
  BY <1>2, <1>10, <1>12, <1>13, <1>14, <1>3 DEF t
<1> QED
  BY <1>15, <1>16, Zenon DEF i

\* The arrays read from a file.
LEMMA ArraysRead ==
  ASSUME TransformAssumption, NEW job \in TransformJobs, NEW c \in DOMAIN job.info.comps
  PROVE  SourceArray(job.info, c, job.fill) \in [PaddedPlaces(job.info, c) -> Block]
<1> DEFINE s == BlockValues[job.fill]
           X == PaddedPlaces(job.info, c)
<1>1. s \in Seq(Int) /\ s # << >>
  BY DEF TransformAssumption
<1>2. Len(s) \in Nat \ {0} /\ \A n \in 1 .. Len(s) : s[n] \in Int
  <2> HIDE DEF s
  <2> QED
    BY <1>1
<1> DEFINE L == Len(s)
<1>3. \A n \in Int : 1 + (n % L) \in 1 .. L
  <2>1. L \in Nat \ {0}
    BY <1>2
  <2> HIDE DEF L
  <2> QED
    BY <2>1
<1>4. \A n \in Int : s[1 + (n % Len(s))] \in Int
  BY <1>2, <1>3
<1>5. c \in Int
  <2>1. job.info \in FileRecord
    BY DEF TransformAssumption
  <2>2. DOMAIN job.info.comps = 1 .. Len(job.info.comps) /\ Len(job.info.comps) \in Nat
    BY <2>1, FileRight
  <2> QED
    BY <2>2
<1>6. \A p \in X : p[1] \in Int /\ p[2] \in Int
  BY DEF PaddedPlaces, Place
<1>7. \A k \in Cell2 : k[1] \in Int /\ k[2] \in Int
  BY CellsOfBlock
<1>8. ASSUME NEW p \in X, NEW k \in Cell2
      PROVE  s[1 + ((41 * c + 17 * p[1] + 5 * p[2] + 2 * k[1] + k[2]) % Len(s))] \in Int
  <2>1. p[1] \in Int /\ p[2] \in Int /\ k[1] \in Int /\ k[2] \in Int
    BY <1>6, <1>7
  <2>2. \A a1, a2, a3, a4, a5 \in Int : 41 * a1 + 17 * a2 + 5 * a3 + 2 * a4 + a5 \in Int
    OBVIOUS
  <2>3. 41 * c + 17 * p[1] + 5 * p[2] + 2 * k[1] + k[2] \in Int
    BY <1>5, <2>1, <2>2, Zenon
  <2> QED
    BY <1>4, <2>3, Zenon
<1>9. SourceArray(job.info, c, job.fill) =
        [p \in X |-> [k \in Cell2 |-> s[1 + ((41 * c + 17 * p[1] + 5 * p[2] + 2 * k[1] + k[2]) % Len(s))]]]
  BY Zenon DEF SourceArray
<1> HIDE DEF s, X, L
<1>10. ASSUME NEW p \in X PROVE [k \in Cell2 |-> s[1 + ((41 * c + 17 * p[1] + 5 * p[2] + 2 * k[1] + k[2]) % Len(s))]] \in Block
  <2>1. \A k \in Cell2 : s[1 + ((41 * c + 17 * p[1] + 5 * p[2] + 2 * k[1] + k[2]) % Len(s))] \in Int
    BY <1>8
  <2> QED
    BY <2>1, Zenon DEF Block
<1>11. [p \in X |-> [k \in Cell2 |-> s[1 + ((41 * c + 17 * p[1] + 5 * p[2] + 2 * k[1] + k[2]) % Len(s))]]] \in [X -> Block]
  BY <1>10, Zenon
<1> QED
  BY <1>9, <1>11, Zenon DEF X

-----------------------------------------------------------------------------
(* The run of jpegtran. *)
\* What is known after each call.
Adjusted(job) == jtransform_adjust_parameters(job.info, job.transform, job.trim, job.gray)
WorkOf(job) == jtransform_request_workspace(job.info, job.transform, job.gray)
ArraysOf(job) == [c \in DOMAIN job.info.comps |-> SourceArray(job.info, c, job.fill)]
Grayable(job) == job.gray => CanBeGray(job.info)
StageOf(job) ==
  \/ tran = [phase |-> "header", job |-> job, src |-> job.info]
  \/ tran = [phase |-> "read", job |-> job, src |-> job.info, workspace |-> WorkOf(job)]
  \/ tran = [phase |-> "copy", job |-> job, src |-> job.info, workspace |-> WorkOf(job), arrays |-> ArraysOf(job)]
  \/ tran = [phase |-> "adjust", job |-> job, src |-> job.info, workspace |-> WorkOf(job), arrays |-> ArraysOf(job), dst |-> job.info]
  \/ /\ Grayable(job)
     /\ tran = [phase |-> "execute", job |-> job, src |-> job.info, workspace |-> WorkOf(job), arrays |-> ArraysOf(job), dst |-> Adjusted(job)]
  \/ /\ Grayable(job)
     /\ tran = [phase |-> "done", job |-> job, src |-> job.info, dst |-> Adjusted(job), arrays |-> ArraysOf(job),
                result |-> jtransform_execute_transformation(job.transform, Adjusted(job), ArraysOf(job), WorkOf(job))]
TransformInv == tran.phase = "refused" \/ \E job \in TransformJobs : StageOf(job)

LEMMA TransformStarts == TransformInit => TransformInv
BY DEF TransformInit, TransformInv, StageOf

LEMMA TransformStep == TransformInv /\ [TransformNext]_tran => TransformInv'
<1> SUFFICES ASSUME TransformInv, [TransformNext]_tran PROVE TransformInv'
  OBVIOUS
<1>1. CASE UNCHANGED tran
  BY <1>1, Zenon DEF TransformInv, StageOf
<1>2. CASE tran.phase = "refused" /\ TransformNext
  <2>1. UNCHANGED tran
    BY <1>2 DEF TransformNext, RequestWorkspace, ReadCoefficients, CopyParameters, AdjustParameters, ExecuteTransformation, TransformDone
  <2> QED
    BY <1>1, <2>1
<1>3. ASSUME NEW job \in TransformJobs, StageOf(job), TransformNext PROVE TransformInv'
  <2> DEFINE s == job.info
             w == WorkOf(job)
             a == ArraysOf(job)
             d == Adjusted(job)
             R == jtransform_execute_transformation(job.transform, Adjusted(job), ArraysOf(job), WorkOf(job))
  <2> SUFFICES tran.phase = "refused" \/ tran'.phase = "refused" \/ (StageOf(job))'
    BY <1>1, <1>2, <1>3 DEF TransformInv
  <2>1. CASE tran = [phase |-> "header", job |-> job, src |-> s]
    <3>1. tran.phase = "header" /\ tran.job = job /\ tran.src = s
      BY <2>1
    <3>2. RequestWorkspace
      BY <1>3, <3>1 DEF TransformNext, RequestWorkspace, ReadCoefficients, CopyParameters, AdjustParameters, ExecuteTransformation, TransformDone
    <3>3. tran' = [phase |-> "read", job |-> job, src |-> s, workspace |-> w]
      BY <3>1, <3>2, Zenon DEF RequestWorkspace, WorkOf
    <3> QED
      BY <3>3, Zenon DEF StageOf
  <2>2. CASE tran = [phase |-> "read", job |-> job, src |-> s, workspace |-> w]
    <3> HIDE DEF w
    <3>1. tran.phase = "read" /\ tran.job = job /\ tran.src = s /\ tran.workspace = w
      BY <2>2
    <3>2. ReadCoefficients
      BY <1>3, <3>1 DEF TransformNext, RequestWorkspace, ReadCoefficients, CopyParameters, AdjustParameters, ExecuteTransformation, TransformDone
    <3>3. tran' = [phase |-> "copy", job |-> job, src |-> s, workspace |-> w, arrays |-> a]
      BY <3>1, <3>2, Zenon DEF ReadCoefficients, ArraysOf
    <3> QED
      BY <3>3, Zenon DEF StageOf, w
  <2>3. CASE tran = [phase |-> "copy", job |-> job, src |-> s, workspace |-> w, arrays |-> a]
    <3> HIDE DEF w, a
    <3>1. tran.phase = "copy" /\ tran.job = job /\ tran.src = s /\ tran.workspace = w /\ tran.arrays = a
      BY <2>3
    <3>2. CopyParameters
      BY <1>3, <3>1 DEF TransformNext, RequestWorkspace, ReadCoefficients, CopyParameters, AdjustParameters, ExecuteTransformation, TransformDone
    <3>3. CASE Mismatched(s)
      BY <2>3, <3>1, <3>2, <3>3 DEF CopyParameters
    <3>4. CASE ~Mismatched(s)
      <4>1. tran' = [phase |-> "adjust", job |-> job, src |-> s, workspace |-> w, arrays |-> a, dst |-> s]
        BY <3>1, <3>2, <3>4, Zenon DEF CopyParameters
      <4> QED
        BY <4>1, Zenon DEF StageOf, w, a
    <3> QED
      BY <3>3, <3>4
  <2>4. CASE tran = [phase |-> "adjust", job |-> job, src |-> s, workspace |-> w, arrays |-> a, dst |-> s]
    <3> HIDE DEF w, a
    <3>1. tran.phase = "adjust" /\ tran.job = job /\ tran.dst = s
      BY <2>4
    <3>2. AdjustParameters
      BY <1>3, <3>1 DEF TransformNext, RequestWorkspace, ReadCoefficients, CopyParameters, AdjustParameters, ExecuteTransformation, TransformDone
    <3>3. CASE job.gray /\ ~CanBeGray(s)
      BY <2>4, <3>1, <3>2, <3>3 DEF AdjustParameters
    <3>4. CASE ~(job.gray /\ ~CanBeGray(s))
      <4>1. tran' = [tran EXCEPT !.phase = "execute", !.dst = d]
        BY <3>1, <3>2, <3>4, Zenon DEF AdjustParameters, Adjusted
      <4> HIDE DEF d
      <4>2. tran' = [phase |-> "execute", job |-> job, src |-> s, workspace |-> w, arrays |-> a, dst |-> d]
        BY <2>4, <4>1
      <4>3. Grayable(job)
        BY <3>4 DEF Grayable
      <4> QED
        BY <4>2, <4>3, Zenon DEF StageOf, w, a, d, Grayable
    <3> QED
      BY <3>3, <3>4
  <2>5. CASE Grayable(job) /\ tran = [phase |-> "execute", job |-> job, src |-> s, workspace |-> w, arrays |-> a, dst |-> d]
    <3> HIDE DEF w, a, d
    <3>1. tran.phase = "execute" /\ tran.job = job /\ tran.src = s /\ tran.workspace = w /\ tran.arrays = a /\ tran.dst = d
      BY <2>5
    <3>2. ExecuteTransformation
      BY <1>3, <3>1 DEF TransformNext, RequestWorkspace, ReadCoefficients, CopyParameters, AdjustParameters, ExecuteTransformation, TransformDone
    <3>3. tran' = [phase |-> "done", job |-> job, src |-> s, dst |-> d, arrays |-> a, result |-> R]
      BY <3>1, <3>2, Zenon DEF ExecuteTransformation, w, a, d
    <3> QED
      BY <2>5, <3>3, Zenon DEF StageOf, a, d, Grayable
  <2>6. CASE Grayable(job) /\ tran = [phase |-> "done", job |-> job, src |-> s, dst |-> d, arrays |-> a, result |-> R]
    <3> HIDE DEF d, a, R
    <3>1. tran.phase = "done"
      BY <2>6
    <3>2. TransformDone
      BY <1>3, <3>1 DEF TransformNext, RequestWorkspace, ReadCoefficients, CopyParameters, AdjustParameters, ExecuteTransformation, TransformDone
    <3>3. UNCHANGED tran
      BY <3>2 DEF TransformDone
    <3> QED
      BY <1>3, <3>3, Zenon DEF StageOf
  <2> QED
    BY <1>3, <2>1, <2>2, <2>3, <2>4, <2>5, <2>6, Zenon DEF StageOf
<1> QED
  BY <1>1, <1>2, <1>3 DEF TransformInv

\* What jpegtran has written.
Shows(job, src, dst, arrays, result) ==
  /\ SizeRight(job, src, dst)
  /\ \A c \in DOMAIN dst.comps : \A y \in 0 .. dst.height - 1, x \in 0 .. dst.width - 1 :
       LET o == Origin(job.transform, y, x, FullHeight(dst), FullWidth(dst))
       IN  PixelOf(dst, c, result[c], y, x) = PixelOf(src, c, arrays[c], o[1], o[2])
LEMMA ShownIs == PictureTurned <=> (tran.phase = "done" => Shows(tran.job, tran.src, tran.dst, tran.arrays, tran.result))
BY Zenon DEF PictureTurned, Shows

LEMMA PictureRight == TransformAssumption /\ SamplingInOrder /\ TransformInv => PictureTurned
<1> SUFFICES ASSUME TransformAssumption, SamplingInOrder, TransformInv, tran.phase = "done" PROVE PictureTurned
  BY DEF PictureTurned
<1>1. PICK job \in TransformJobs : StageOf(job)
  BY DEF TransformInv
<1> DEFINE i == job.info
           t == job.transform
           d == Adjusted(job)
           a == ArraysOf(job)
           w == WorkOf(job)
           R == jtransform_execute_transformation(t, d, a, w)
<1>2. Grayable(job) /\ tran = [phase |-> "done", job |-> job, src |-> i, dst |-> d, arrays |-> a, result |-> R]
  <2> HIDE DEF d, a, w, R
  <2> QED
    BY <1>1 DEF StageOf, d, a, w, R
<1>3. tran.job = job /\ tran.src = i /\ tran.dst = d /\ tran.arrays = a /\ tran.result = R
  <2> HIDE DEF d, a, R
  <2> QED
    BY <1>2
<1>4. i \in FileRecord /\ t \in Transforms /\ \A c \in DOMAIN i.comps : i.comps[c].tbl \in DOMAIN i.quant
  BY Zenon DEF TransformAssumption
<1>5. /\ LayoutRight(d) /\ DOMAIN d.comps \subseteq DOMAIN i.comps /\ SizeRight(job, i, d)
      /\ DOMAIN d.comps \subseteq 1 .. Components1(i, job.gray)
      /\ \A c \in DOMAIN d.comps : /\ SizesTurned(t, i, d, c)
                                   /\ d.quant[d.comps[c].tbl] = TurnedTable(t, i.quant[i.comps[c].tbl])
  BY <1>2, AdjustedRight, Zenon DEF Adjusted, Grayable
<1>6. LayoutRight(i)
  BY <1>4, FileRight DEF SamplingInOrder
<1>7. ASSUME NEW c \in DOMAIN d.comps, NEW y \in 0 .. d.height - 1, NEW x \in 0 .. d.width - 1
      PROVE  LET o == Origin(t, y, x, FullHeight(d), FullWidth(d))
             IN  PixelOf(d, c, R[c], y, x) = PixelOf(i, c, a[c], o[1], o[2])
  <2> DEFINE wc == IF NeedsWorkspace(t) THEN w[c] ELSE << >>
             ac == a[c]
  <2>1. c \in DOMAIN i.comps /\ c \in 1 .. Components1(i, job.gray)
    BY <1>5
  <2>2. R[c] = Transformed(t, d, c, ac, wc)
    BY Zenon DEF jtransform_execute_transformation
  <2>3. NeedsWorkspace(t) => wc = WorkspaceArray(i, c, t)
    <3>1. NeedsWorkspace(t) => w = [k \in 1 .. Components1(i, job.gray) |-> WorkspaceArray(i, k, t)]
      BY DEF WorkOf, jtransform_request_workspace
    <3> HIDE DEF w
    <3> QED
      BY <2>1, <3>1
  <2>4. ac \in [PaddedPlaces(i, c) -> Block]
    <3>1. ac = SourceArray(i, c, job.fill)
      BY <2>1 DEF ArraysOf
    <3> QED
      BY <2>1, <3>1, ArraysRead
  <2>5. i.quant[i.comps[c].tbl] \in Block
    <3>1. i.quant \in Seq(Block) /\ i.comps[c].tbl \in DOMAIN i.quant
      BY <1>4, <2>1, FileRight
    <3> HIDE DEF i
    <3> QED
      BY <3>1
  <2>6. SizesTurned(t, i, d, c) /\ d.quant[d.comps[c].tbl] = TurnedTable(t, i.quant[i.comps[c].tbl])
    BY <1>5
  <2>7. PixelReady(t, i, d, c, ac, wc)
    <3> HIDE DEF i, t, d, a, w, ac, wc
    <3> QED
      BY <1>4, <1>5, <1>6, <2>1, <2>3, <2>4, <2>5, <2>6, Zenon DEF PixelReady
  <2> HIDE DEF i, t, d, a, w, R, ac, wc
  <2>8. PixelShown(t, i, d, c, ac, Transformed(t, d, c, ac, wc), y, x)
    BY <2>7, PixelTurned
  <2> QED
    BY <2>2, <2>8, Zenon DEF ac, PixelShown
<1>8. Shows(job, i, d, a, R)
  <2> HIDE DEF i, d, a, w, R
  <2> QED
    BY <1>5, <1>7, Zenon DEF Shows, t
<1> HIDE DEF i, d, a, w, R
<1> QED
  BY <1>3, <1>8, ShownIs, Zenon

\* PictureTurned for every picture with whole sampling factors, whatever its size, its components,
\* its tables and its coefficients: a lossless transformation turns the blocks, their signs, the
\* tables, the sizes and the factors together (transupp.c).
THEOREM PictureAlwaysTurned == ASSUME SamplingInOrder PROVE TransformSpec => []PictureTurned
<1>1. TransformInv => PictureTurned
  BY TransformAssumption, PictureRight
<1> QED
  BY <1>1, TransformStarts, TransformStep, PTL DEF TransformSpec

=============================================================================
