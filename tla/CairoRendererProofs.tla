------------------------ MODULE CairoRendererProofs ------------------------
(***************************************************************************)
(* Proofs about the buffers of ShmBuffers and about CairoRenderer.         *)
(***************************************************************************)
EXTENDS CairoRenderer, FiniteSetTheorems, TLAPS

(* A bufferman is right in two ways.  It fits: its current buffers lie where *)
(* the present number of slots puts them, in a pool with room for all.  And  *)
(* it is owned: its flags agree with what the compositor holds.              *)

Fits(b) ==
  /\ \A i \in Current(b) :
       LET f == b.bufs[i]
       IN  f.kept /\ f.mapped /\ f.geom = b.geom /\ f.off = Offset(b, i)
  /\ Current(b) # {} => b.open
  /\ IF b.geom = NoGeometry
     THEN b.size = 0 /\ \A i \in Slots : ~b.bufs[i].made
     ELSE Bytes[b.geom] * b.slots <= b.size

\* What the compositor has of the current file is in current buffers.
Owned(b) ==
  /\ \A i \in Slots :
       LET f == b.bufs[i]
       IN  /\ f.acquired = f.held
           /\ f.held => f.made
           /\ f.held /\ f.kept => i \in Current(b)
  /\ b.orphans = {}

\* What resizing needs for its result to be owned: flags that agree with the
\* compositor, and a pool if the compositor has any buffer
Resizable(b) ==
  /\ \A i \in Slots :
       /\ b.bufs[i].acquired = b.bufs[i].held
       /\ b.bufs[i].held => b.bufs[i].made
  /\ InUse(b) => b.open
  /\ b.orphans = {}

\* Why a resize leaves no pool: the compositor has a buffer, so that the file is
\* closed, and the pool that was closed has just the size of the new one
SameSize(b, geom, slots) == InUse(b) /\ b.size = Bytes[geom] * slots + Spare[geom]

-----------------------------------------------------------------------------
(* Arithmetic. *)

LEMMA MultMono ==
  ASSUME NEW a \in Nat, NEW b \in Nat, a <= b, NEW c \in Nat
  PROVE  a * c <= b * c
OBVIOUS

LEMMA Division ==
  ASSUME NEW n \in Nat, NEW k \in Nat \ {0}
  PROVE  n \div k \in Nat /\ (n \div k) * k <= n /\ n < (n \div k) * k + k
OBVIOUS

LEMMA Quotient ==
  ASSUME NEW n \in Nat, NEW k \in Nat \ {0}, NEW m \in Nat, m * k <= n
  PROVE  m <= n \div k
<1> DEFINE q == n \div k
<1>1. q \in Nat /\ n < (q + 1) * k BY Division
<1> HIDE DEF q
<1>2. SUFFICES ASSUME q + 1 <= m PROVE FALSE BY <1>1 DEF q
<1>3. (q + 1) * k <= m * k BY <1>1, <1>2, MultMono
<1> QED BY <1>1, <1>3

LEMMA SideBySide ==
  ASSUME NEW q \in Nat, NEW i \in Nat, NEW j \in Nat, i < j
  PROVE  q * i + q <= q * j
<1>1. (i + 1) * q <= j * q BY MultMono
<1> QED BY <1>1

\* A set of naturals that is not empty has a least element: of its initial
\* segments up to s, which are finite, one is contained in no other.
LEMMA LeastNumber ==
  ASSUME NEW S \in SUBSET Nat, S # {}
  PROVE  \E m \in S : \A n \in S : m <= n
<1>1. PICK s \in S : TRUE OBVIOUS
<1> DEFINE T == {0..n : n \in S \cap 0..s}
<1>2. T \subseteq FiniteSubsetsOf(0..s) /\ T # {}
  <2>1. ASSUME NEW n \in S \cap 0..s PROVE 0..n \in FiniteSubsetsOf(0..s)
    BY FS_Interval DEF FiniteSubsetsOf
  <2>2. s \in S \cap 0..s BY <1>1
  <2> QED BY <2>1, <2>2
<1>3. IsWellFoundedOn(StrictSubsetOrdering(0..s), FiniteSubsetsOf(0..s))
  BY FS_StrictSubsetOrderingWellFounded
<1>4. PICK X \in T : \A Y \in T : <<Y, X>> \notin StrictSubsetOrdering(0..s)
  <2> HIDE DEF T
  <2> QED BY <1>2, <1>3, WFMin
<1>5. PICK m \in S \cap 0..s : X = 0..m BY <1>4
<1>6. ASSUME NEW n \in S, n < m PROVE FALSE
  <2>1. n \in S \cap 0..s /\ n \in Nat /\ m \in Nat /\ s \in Nat BY <1>5, <1>6
  <2>2. 0..n \subseteq 0..m /\ 0..n # 0..m
    <3>1. m \in 0..m /\ m \notin 0..n BY <1>6, <2>1
    <3> QED BY <1>6, <2>1, <3>1
  <2>3. 0..m \subseteq 0..s BY <1>5, <2>1
  <2>4. <<0..n, 0..m>> \in StrictSubsetOrdering(0..s)
    BY <2>2, <2>3 DEF StrictSubsetOrdering
  <2> QED BY <1>4, <1>5, <2>1, <2>4
<1> QED BY <1>5, <1>6

-----------------------------------------------------------------------------
(* The operations of the bufferman. *)

LEMMA SlotsOf ==
  ASSUME NEW b \in Bufferman
  PROVE  /\ b.slots \in Nat \ {0} /\ b.slots <= MaxBuffers
         /\ 0 \in 0..(b.slots - 1) /\ 0..(b.slots - 1) \subseteq Slots
         /\ Slots \subseteq Nat /\ NoBuffer \notin Slots
         /\ b.bufs \in [Slots -> Buffers]
BY LimitAssumption DEF Bufferman, Slots, NoBuffer

\* The slot that is handed out: none when all are busy, else one that is not
LEMMA NextSlotFree ==
  ASSUME NEW b \in Bufferman
  PROVE  /\ NextSlot(b) = NoBuffer <=> \A i \in 0..(b.slots - 1) : Busy(b, i)
         /\ NextSlot(b) # NoBuffer =>
              NextSlot(b) \in 0..(b.slots - 1) /\ ~Busy(b, NextSlot(b))
<1>1. b.slots \in Nat /\ NoBuffer \notin 0..(b.slots - 1) BY SlotsOf
<1> DEFINE Free == {i \in 0..(b.slots - 1) : ~Busy(b, i)}
<1>2. CASE Free = {} BY <1>2 DEF NextSlot
<1>3. CASE Free # {}
  <2>1. Free \in SUBSET Nat BY <1>1
  <2>2. PICK m \in Free : \A n \in Free : m <= n
    <3> HIDE DEF Free
    <3> QED BY <1>3, <2>1, LeastNumber
  <2>3. \A j \in 0..(m - 1) : Busy(b, j) BY <1>1, <2>2
  <2>4. \E i \in 0..(b.slots - 1) : ~Busy(b, i) /\ \A j \in 0..(i - 1) : Busy(b, j)
    BY <2>2, <2>3
  <2>5. ~\A i \in 0..(b.slots - 1) : Busy(b, i) BY <2>2
  <2> HIDE DEF Free
  <2> QED BY <1>1, <2>4, <2>5 DEF NextSlot
<1> QED BY <1>2, <1>3

\* A buffer of the right size starts at a natural number, ends inside the pool
\* and does not reach into the next one.
LEMMA SlotsApart ==
  ASSUME NEW b \in Bufferman, b.geom \in Geometries, Bytes[b.geom] * b.slots <= b.size,
         NEW i \in 0..(b.slots - 1), NEW j \in 0..(b.slots - 1), i # j
  PROVE  ~Overlap(Offset(b, i), b.geom, Offset(b, j), b.geom)
<1> DEFINE q == b.size \div b.slots
           m == Bytes[b.geom]
<1>1. b.size \in Nat /\ b.slots \in Nat \ {0} /\ m \in Nat \ {0}
  BY SlotsOf, GeometryAssumption DEF Bufferman
<1>2. q \in Nat /\ m <= q BY <1>1, Division, Quotient
<1>3. q * i \in Nat /\ q * j \in Nat BY <1>1, <1>2
<1> HIDE DEF q, m
<1>4. CASE i < j
  <2>1. q * i + q <= q * j BY <1>1, <1>2, <1>4, SideBySide
  <2>2. ~(q * j < q * i + m) BY <1>1, <1>2, <1>3, <2>1
  <2> QED BY <2>2 DEF Overlap, Offset, q, m
<1>5. CASE j < i
  <2>1. q * j + q <= q * i BY <1>1, <1>2, <1>5, SideBySide
  <2>2. ~(q * i < q * j + m) BY <1>1, <1>2, <1>3, <2>1
  <2> QED BY <2>2 DEF Overlap, Offset, q, m
<1> QED BY <1>1, <1>4, <1>5

LEMMA SlotInPool ==
  ASSUME NEW b \in Bufferman, b.geom \in Geometries, Bytes[b.geom] * b.slots <= b.size,
         NEW i \in 0..(b.slots - 1)
  PROVE  Offset(b, i) + Bytes[b.geom] <= b.size
<1> DEFINE q == b.size \div b.slots
           m == Bytes[b.geom]
<1>1. b.size \in Nat /\ b.slots \in Nat \ {0} /\ m \in Nat \ {0}
  BY SlotsOf, GeometryAssumption DEF Bufferman
<1>2. q \in Nat /\ m <= q /\ q * b.slots <= b.size BY <1>1, Division, Quotient
<1> HIDE DEF q, m
<1>3. q * i + q <= q * b.slots BY <1>1, <1>2, SideBySide
<1> QED BY <1>1, <1>2, <1>3 DEF Offset, q, m

LEMMA OffsetIsNat ==
  ASSUME NEW b \in Bufferman, NEW i \in Slots
  PROVE  Offset(b, i) \in Nat
<1>1. b.size \div b.slots \in Nat BY SlotsOf, Division DEF Bufferman
<1>2. i \in Nat BY SlotsOf
<1> QED BY <1>1, <1>2 DEF Offset

\* bufs and the flags of bufs after an operation that changes only others: the
\* buffers stay made, acquired and held as they were, and none is kept anew
SameUse(old, new) ==
  \A i \in Slots :
    /\ new[i].made = old[i].made /\ new[i].acquired = old[i].acquired
    /\ new[i].held = old[i].held /\ new[i].doomed = old[i].doomed
    /\ new[i].kept => old[i].kept

LEMMA MarkedShape ==
  ASSUME NEW b \in Bufferman
  PROVE  LET r == [b EXCEPT !.bufs = Marked(b)]
         IN  /\ r \in Bufferman
             /\ r.open = b.open /\ r.size = b.size /\ r.slots = b.slots
             /\ r.orphans = b.orphans
             /\ \A i \in Slots :
                  /\ r.bufs[i].made = b.bufs[i].made
                  /\ r.bufs[i].acquired = b.bufs[i].acquired
                  /\ r.bufs[i].held = b.bufs[i].held
                  /\ r.bufs[i].kept = b.bufs[i].kept
                  /\ r.bufs[i].doomed
<1>1. \A i \in Slots : [b.bufs[i] EXCEPT !.doomed = TRUE] \in Buffers
  BY DEF Bufferman, Buffers
<1>2. Marked(b) \in [Slots -> Buffers] BY <1>1 DEF Marked
<1>3. \A i \in Slots : Marked(b)[i] = [b.bufs[i] EXCEPT !.doomed = TRUE] BY DEF Marked
<1>4. \A i \in Slots : b.bufs[i] \in Buffers BY DEF Bufferman
<1>5. \A i \in Slots :
        /\ Marked(b)[i].made = b.bufs[i].made
        /\ Marked(b)[i].acquired = b.bufs[i].acquired
        /\ Marked(b)[i].held = b.bufs[i].held
        /\ Marked(b)[i].kept = b.bufs[i].kept
        /\ Marked(b)[i].doomed
  BY <1>3, <1>4 DEF Buffers
<1> HIDE DEF Marked
<1> QED BY <1>2, <1>5 DEF Bufferman

LEMMA PoolFinishShape ==
  ASSUME NEW b \in Bufferman
  PROVE  LET r == PoolFinish(b)
         IN  /\ r \in Bufferman
             /\ ~r.open /\ r.size = b.size /\ r.slots = b.slots
             /\ r.orphans \subseteq b.orphans
             /\ SameUse(b.bufs, r.bufs)
             /\ b.open => \A i \in Slots : ~r.bufs[i].kept
<1>1. CASE ~b.open BY <1>1 DEF PoolFinish, SameUse
<1>2. CASE b.open
  <2> DEFINE f == [i \in Slots |-> [b.bufs[i] EXCEPT !.mapped = FALSE, !.kept = FALSE]]
  <2>1. \A i \in Slots : b.bufs[i] \in Buffers BY DEF Bufferman
  <2>2. f \in [Slots -> Buffers] BY <2>1 DEF Buffers
  <2>3. SameUse(b.bufs, f) /\ \A i \in Slots : ~f[i].kept BY <2>1 DEF Buffers, SameUse
  <2>4. PoolFinish(b) = [b EXCEPT !.open = FALSE, !.orphans = {}, !.bufs = f]
    BY <1>2 DEF PoolFinish
  <2> HIDE DEF f
  <2> QED BY <2>2, <2>3, <2>4 DEF Bufferman
<1> QED BY <1>1, <1>2 DEF Bufferman

LEMMA PoolSetSizeShape ==
  ASSUME NEW b \in Bufferman, NEW n \in Nat
  PROVE  LET r == PoolSetSize(b, n)
         IN  /\ r \in Bufferman
             /\ r.size = n /\ r.slots = b.slots /\ r.orphans = b.orphans
             /\ r.open = (b.open \/ b.size # n)
             /\ SameUse(b.bufs, r.bufs)
<1>1. CASE b.size = n BY <1>1 DEF PoolSetSize, SameUse, Bufferman
<1>2. CASE b.size # n
  <2> DEFINE f == [i \in Slots |-> [b.bufs[i] EXCEPT !.mapped = FALSE]]
  <2>1. \A i \in Slots : b.bufs[i] \in Buffers BY DEF Bufferman
  <2>2. f \in [Slots -> Buffers] BY <2>1 DEF Buffers
  <2>3. SameUse(b.bufs, f) BY <2>1 DEF Buffers, SameUse
  <2>4. PoolSetSize(b, n) = [b EXCEPT !.open = TRUE, !.size = n, !.bufs = f]
    BY <1>2 DEF PoolSetSize
  <2> HIDE DEF f
  <2> QED BY <1>2, <2>2, <2>3, <2>4 DEF Bufferman
<1> QED BY <1>1, <1>2

LEMMA BusyIsCurrent ==
  ASSUME NEW b, NEW i \in 0..(b.slots - 1), Busy(b, i) \/ Reusable(b, i)
  PROVE  i \in Current(b)
BY DEF Busy, Reusable, Current

LEMMA CurrentIsSlot ==
  ASSUME NEW b \in Bufferman
  PROVE  Current(b) \subseteq Slots /\ Current(b) \subseteq 0..(b.slots - 1)
BY SlotsOf DEF Current

\* A resize has room for every slot at the new geometry, and leaves no buffer that
\* could be handed out as it is.  With flags that agree with the compositor it
\* leaves the compositor nothing of the current file, and a pool with one exception.
LEMMA ResizeShape ==
  ASSUME NEW b \in Bufferman, NEW g \in Geometries
  PROVE  LET r == Resize(b, g)
         IN  /\ r \in Bufferman
             /\ r.geom = g /\ r.slots = b.slots
             /\ Fits(r) /\ Current(r) = {}
             /\ Resizable(b) => Owned(r)
             /\ b.open \/ b.size = 0 => r.open \/ SameSize(b, g, b.slots)
<1> DEFINE need == Bytes[g] * b.slots
           marked == [b EXCEPT !.bufs = Marked(b)]
           cleared == IF InUse(b) THEN PoolFinish(marked) ELSE marked
           fitted == IF Refits(b, need) THEN PoolSetSize(cleared, need + Spare[g]) ELSE marked
           r == Resize(b, g)
<1>1. /\ Bytes[g] \in Nat \ {0} /\ Spare[g] \in Nat /\ b.slots \in Nat \ {0}
      /\ g # NoGeometry /\ b.size \in Nat
  BY GeometryAssumption, SlotsOf DEF Bufferman
<1>2. need \in Nat /\ need # 0 BY <1>1
<1>3. /\ marked \in Bufferman
      /\ marked.open = b.open /\ marked.size = b.size /\ marked.slots = b.slots
      /\ marked.orphans = b.orphans
      /\ \A i \in Slots : /\ marked.bufs[i].acquired = b.bufs[i].acquired
                          /\ marked.bufs[i].held = b.bufs[i].held
                          /\ marked.bufs[i].made = b.bufs[i].made
                          /\ marked.bufs[i].doomed
  BY MarkedShape
<1> HIDE DEF marked
<1>4. /\ cleared \in Bufferman
      /\ cleared.size = b.size /\ cleared.slots = b.slots
      /\ cleared.orphans \subseteq b.orphans
      /\ ~InUse(b) => cleared.open = b.open
      /\ InUse(b) => ~cleared.open
      /\ SameUse(marked.bufs, cleared.bufs)
      /\ InUse(b) /\ b.open => \A i \in Slots : ~cleared.bufs[i].kept
  <2>1. CASE InUse(b)
    <3>1. cleared = PoolFinish(marked) BY <2>1
    <3> HIDE DEF cleared
    <3> QED BY <1>3, <2>1, <3>1, PoolFinishShape
  <2>2. CASE ~InUse(b) BY <1>3, <2>2 DEF SameUse
  <2> QED BY <2>1, <2>2
<1> HIDE DEF cleared
<1>5. /\ fitted \in Bufferman
      /\ fitted.slots = b.slots /\ fitted.orphans \subseteq b.orphans
      /\ need <= fitted.size
      /\ b.open \/ b.size = 0 => fitted.open \/ (InUse(b) /\ b.size = need + Spare[g])
      /\ SameUse(marked.bufs, fitted.bufs)
      /\ InUse(b) /\ b.open => \A i \in Slots : ~fitted.bufs[i].kept
  <2>1. CASE Refits(b, need)
    <3>1. fitted = PoolSetSize(cleared, need + Spare[g]) BY <2>1
    <3> DEFINE n == need + Spare[g]
    <3>2. n \in Nat /\ need <= n /\ n # 0 BY <1>1, <1>2
    <3> HIDE DEF fitted, n, need
    <3>3. /\ fitted \in Bufferman
          /\ fitted.size = n /\ fitted.slots = b.slots /\ fitted.orphans = cleared.orphans
          /\ fitted.open = (cleared.open \/ cleared.size # n)
          /\ SameUse(cleared.bufs, fitted.bufs)
      BY <1>4, <3>1, <3>2, PoolSetSizeShape DEF n
    <3>4. SameUse(marked.bufs, fitted.bufs) BY <1>4, <3>3 DEF SameUse
    <3>5. InUse(b) /\ b.open => \A i \in Slots : ~fitted.bufs[i].kept
      BY <1>4, <3>3 DEF SameUse
    <3>6. b.open \/ b.size = 0 => fitted.open \/ (InUse(b) /\ b.size = n)
      <4>1. CASE b.size = n /\ ~InUse(b) BY <1>4, <3>2, <3>3, <4>1
      <4>2. CASE b.size # n BY <1>4, <3>3, <4>2
      <4> QED BY <4>1, <4>2
    <3> QED BY <1>4, <3>2, <3>3, <3>4, <3>5, <3>6 DEF n
  <2>2. CASE ~Refits(b, need)
    <3>1. fitted = marked BY <2>2
    <3>2. ~InUse(b) /\ need <= b.size BY <1>1, <1>2, <2>2 DEF Refits
    <3>3. b.size # 0 BY <1>1, <1>2, <3>2
    <3> HIDE DEF fitted, need
    <3> QED BY <1>3, <3>1, <3>2, <3>3 DEF SameUse
  <2> QED BY <2>1, <2>2
<1>6. r = [fitted EXCEPT !.geom = g] BY DEF Resize, fitted, cleared, marked, need
<1> HIDE DEF fitted, r
<1>7. /\ r \in Bufferman /\ r.geom = g
      /\ r.open = fitted.open /\ r.size = fitted.size /\ r.slots = fitted.slots
      /\ r.orphans = fitted.orphans /\ r.bufs = fitted.bufs
  BY <1>5, <1>6 DEF Bufferman
<1>8. \A i \in Slots : /\ r.bufs[i].acquired = b.bufs[i].acquired
                       /\ r.bufs[i].held = b.bufs[i].held
                       /\ r.bufs[i].made = b.bufs[i].made
                       /\ r.bufs[i].doomed
  BY <1>3, <1>5, <1>7 DEF SameUse
<1>9. Current(r) = {} BY <1>7, <1>8, SlotsOf DEF Current
<1>10. Fits(r) BY <1>1, <1>5, <1>7, <1>9 DEF Fits
<1>11. Resizable(b) => Owned(r)
  <2> SUFFICES ASSUME Resizable(b) PROVE Owned(r) OBVIOUS
  <2>1. \A i \in Slots : b.bufs[i].held => ~r.bufs[i].kept
    BY <1>5, <1>7 DEF Resizable, InUse
  <2>2. r.orphans = {} BY <1>5, <1>7 DEF Resizable
  <2> QED BY <1>8, <2>1, <2>2 DEF Owned, Resizable
<1> QED BY <1>5, <1>7, <1>9, <1>10, <1>11 DEF r, SameSize, need

LEMMA OwnedResizes ==
  ASSUME NEW b \in Bufferman, Owned(b), b.open \/ ~InUse(b)
  PROVE  Resizable(b)
BY DEF Owned, Resizable

\* A new number of slots is as good as the old one.
LEMMA SetSlotsShape ==
  ASSUME NEW b \in Bufferman, NEW n \in 1..MaxBuffers, Fits(b)
  PROVE  LET r == SetSlots(b, n)
         IN  /\ r \in Bufferman /\ Fits(r) /\ r.geom = b.geom
             /\ b.geom = NoGeometry /\ Owned(b) => Owned(r)
<1>1. n \in Nat /\ ~(n < 1) /\ ~(n > MaxBuffers) BY LimitAssumption
<1>2. CASE n = b.slots BY <1>1, <1>2 DEF SetSlots
<1>3. CASE n # b.slots
  <2> DEFINE c == [b EXCEPT !.slots = n]
             r == SetSlots(b, n)
  <2>1. c \in Bufferman BY <1>1 DEF Bufferman
  <2>2. /\ c.geom = b.geom /\ c.bufs = b.bufs /\ c.open = b.open
        /\ c.size = b.size /\ c.orphans = b.orphans
    BY DEF Bufferman
  <2>3. CASE b.geom = NoGeometry
    <3>1. r = c BY <1>1, <1>3, <2>3 DEF SetSlots
    <3> HIDE DEF c, r
    <3>2. \A i \in Slots : ~b.bufs[i].made BY <2>3 DEF Fits
    <3>3. Current(c) = {} /\ Current(b) = {} BY <2>1, <2>2, <3>2, SlotsOf DEF Current
    <3>4. Fits(c) BY <2>2, <2>3, <3>2, <3>3 DEF Fits
    <3>5. Owned(b) => Owned(c) BY <2>2, <3>2, <3>3 DEF Owned
    <3> QED BY <2>1, <2>2, <3>1, <3>4, <3>5 DEF r
  <2>4. CASE b.geom # NoGeometry
    <3>1. r = Resize(c, b.geom) BY <1>1, <1>3, <2>4 DEF SetSlots
    <3>2. b.geom \in Geometries BY <2>4 DEF Bufferman
    <3> HIDE DEF c, r
    <3> QED BY <2>1, <2>4, <3>1, <3>2, ResizeShape DEF r
  <2> QED BY <2>3, <2>4
<1> QED BY <1>2, <1>3

\* When every slot is busy there is one more of them, and none of them is, unless
\* there can be no more.
LEMMA GrownShape ==
  ASSUME NEW b \in Bufferman, b.geom \in Geometries, Fits(b)
  PROVE  LET r == Grown(b)
         IN  /\ r \in Bufferman /\ Fits(r) /\ r.geom = b.geom
             /\ NextSlot(b) # NoBuffer => r = b
             /\ NextSlot(r) = NoBuffer =>
                  r = b /\ b.open /\ \A i \in Slots : b.bufs[i].acquired
             /\ Owned(b) => Owned(r)
             /\ r = b \/ (Current(b) # {} /\ (r.open \/ SameSize(b, b.geom, r.slots)))
<1>1. CASE NextSlot(b) # NoBuffer BY <1>1 DEF Grown
<1>2. CASE NextSlot(b) = NoBuffer
  <2>1. \A i \in 0..(b.slots - 1) : Busy(b, i) BY <1>2, NextSlotFree
  <2>2. b.slots \in 1..MaxBuffers /\ MaxBuffers \in Nat /\ b.geom # NoGeometry
    BY LimitAssumption, GeometryAssumption DEF Bufferman
  <2>3. Current(b) # {} /\ b.open BY <2>1, SlotsOf, BusyIsCurrent DEF Fits
  <2>4. CASE b.slots = MaxBuffers
    <3>1. Grown(b) = b BY <1>2, <2>2, <2>4 DEF Grown, SetSlots
    <3>2. \A i \in Slots : Busy(b, i) BY <2>1, <2>4 DEF Slots
    <3>3. \A i \in Slots : b.bufs[i].acquired BY <3>2 DEF Busy
    <3> QED BY <2>3, <3>1, <3>3
  <2>5. CASE b.slots # MaxBuffers
    <3> DEFINE c == [b EXCEPT !.slots = b.slots + 1]
               r == Grown(b)
    <3>1. r = Resize(c, b.geom) BY <1>2, <2>2, <2>5 DEF Grown, SetSlots
    <3>2. c \in Bufferman BY <2>2, <2>5 DEF Bufferman
    <3>3. /\ c.bufs = b.bufs /\ c.open = b.open /\ c.orphans = b.orphans
          /\ c.size = b.size
      BY DEF Bufferman
    <3> HIDE DEF c, r
    <3>4. InUse(c) <=> InUse(b) BY <3>3 DEF InUse
    <3>5. Owned(b) => Resizable(c)
      BY <2>3, <3>3, <3>4, OwnedResizes DEF Resizable
    <3>6. /\ r \in Bufferman /\ r.geom = b.geom /\ Fits(r) /\ Current(r) = {}
          /\ Resizable(c) => Owned(r)
          /\ r.slots = c.slots
          /\ c.open => r.open \/ SameSize(c, b.geom, c.slots)
      BY <3>1, <3>2, ResizeShape
    <3>7. ~Busy(r, 0) BY <3>6, SlotsOf, BusyIsCurrent
    <3>8. NextSlot(r) # NoBuffer BY <3>6, <3>7, SlotsOf, NextSlotFree
    <3>9. r.open \/ SameSize(b, b.geom, r.slots)
      BY <2>3, <3>3, <3>4, <3>6 DEF SameSize
    <3> QED BY <1>2, <2>3, <3>5, <3>6, <3>8, <3>9 DEF r
  <2> QED BY <2>4, <2>5
<1> QED BY <1>1, <1>2

\* The slot that is handed out is current, no other changes, and the compositor
\* does not have it.
LEMMA TakeShape ==
  ASSUME NEW b \in Bufferman, b.geom \in Geometries, Fits(b),
         NEW i \in 0..(b.slots - 1), ~Busy(b, i)
  PROVE  LET t == Take(b, i)
         IN  /\ t \in Bufferman /\ t.geom = b.geom /\ t.slots = b.slots
             /\ \A j \in Slots \ {i} : t.bufs[j] = b.bufs[j]
             /\ Current(t) = Current(b) \cup {i}
             /\ Reusable(b, i) \/ b.open => Fits(t) /\ t.open
             /\ Owned(b) => Owned(t) /\ ~t.bufs[i].held
<1>1. i \in Slots BY SlotsOf
<1>2. b.geom # NoGeometry BY GeometryAssumption
<1>3. CASE Reusable(b, i)
  <2>1. Take(b, i) = b BY <1>3 DEF Take
  <2>2. i \in Current(b) BY <1>3, BusyIsCurrent
  <2>3. Owned(b) => ~b.bufs[i].held BY <1>1, <1>3 DEF Reusable, Owned
  <2>4. b.open BY <2>2 DEF Fits
  <2> QED BY <2>1, <2>2, <2>3, <2>4
<1>4. CASE ~Reusable(b, i)
  <2> DEFINE new == [made |-> TRUE, acquired |-> FALSE, doomed |-> FALSE, held |-> FALSE,
                     mapped |-> b.open, kept |-> b.open,
                     off |-> Offset(b, i), geom |-> b.geom]
             old == {r \in {[off |-> b.bufs[i].off, geom |-> b.bufs[i].geom]} :
                       b.bufs[i].held /\ b.bufs[i].kept}
             t == Take(b, i)
  <2>1. b.bufs[i] \in Buffers BY <1>1 DEF Bufferman
  <2>2. i \notin Current(b) BY <1>4, <2>1 DEF Busy, Reusable, Current, Buffers
  <2>3. old \subseteq Regions BY <2>1 DEF Buffers, Regions
  \* what the compositor has of the file is current, so that nothing is orphaned
  <2>4. Owned(b) => old = {} BY <1>1, <2>2 DEF Owned
  <2>5. t = [b EXCEPT !.orphans = b.orphans \cup old, !.bufs[i] = new] BY <1>4 DEF Take
  <2>6. new \in Buffers BY OffsetIsNat, <1>1 DEF Buffers, Bufferman
  <2>7. /\ new.made = TRUE /\ new.acquired = FALSE
        /\ new.doomed = FALSE /\ new.held = FALSE
        /\ new.mapped = b.open /\ new.kept = b.open
        /\ new.off = Offset(b, i) /\ new.geom = b.geom
    OBVIOUS
  <2> HIDE DEF new, old, t
  <2>8. /\ t \in Bufferman /\ t.geom = b.geom /\ t.open = b.open /\ t.size = b.size
        /\ t.slots = b.slots /\ t.orphans = b.orphans \cup old
        /\ t.bufs = [b.bufs EXCEPT ![i] = new]
    BY <1>1, <2>3, <2>5, <2>6 DEF Bufferman
  <2>9. t.bufs[i] = new /\ \A j \in Slots \ {i} : t.bufs[j] = b.bufs[j]
    BY <1>1, <2>8 DEF Bufferman
  <2>10. Current(t) = Current(b) \cup {i}
    BY <1>1, <2>7, <2>8, <2>9, SlotsOf DEF Current
  <2>11. ASSUME Owned(b) PROVE Owned(t)
    <3>1. \A j \in Slots :
            /\ t.bufs[j].acquired = t.bufs[j].held
            /\ t.bufs[j].held => t.bufs[j].made
            /\ t.bufs[j].held /\ t.bufs[j].kept => j \in Current(t)
      <4> TAKE j \in Slots
      <4>1. CASE j = i BY <2>7, <2>9, <2>10, <4>1
      <4>2. CASE j # i BY <2>9, <2>10, <2>11, <4>2 DEF Owned
      <4> QED BY <4>1, <4>2
    <3>2. t.orphans = {} BY <2>4, <2>8, <2>11 DEF Owned
    <3> QED BY <3>1, <3>2 DEF Owned
  <2>12. ASSUME b.open PROVE Fits(t)
    <3>1. \A j \in 0..(t.slots - 1) : Offset(t, j) = Offset(b, j) BY <2>8 DEF Offset
    <3>2. \A j \in Current(t) :
            /\ t.bufs[j].kept /\ t.bufs[j].mapped
            /\ t.bufs[j].geom = t.geom /\ t.bufs[j].off = Offset(t, j)
      <4> TAKE j \in Current(t)
      <4>1. j \in Slots /\ j \in 0..(t.slots - 1) BY <2>8, CurrentIsSlot
      <4>2. CASE j = i BY <2>7, <2>8, <2>9, <2>12, <3>1, <4>1, <4>2
      <4>3. CASE j # i BY <2>8, <2>9, <2>10, <3>1, <4>1, <4>3 DEF Fits
      <4> QED BY <4>2, <4>3
    <3>3. Bytes[t.geom] * t.slots <= t.size BY <1>2, <2>8 DEF Fits
    <3> QED BY <1>2, <2>8, <2>12, <3>2, <3>3 DEF Fits
  <2> QED BY <1>4, <2>7, <2>8, <2>9, <2>10, <2>11, <2>12 DEF t
<1> QED BY <1>3, <1>4

\* Handing a buffer to the compositor, or back, touches two flags of its slot only.
LEMMA HoldShape ==
  ASSUME NEW b \in Bufferman, NEW i \in Slots, NEW h \in BOOLEAN
  PROVE  LET r == [b EXCEPT !.bufs[i].acquired = h, !.bufs[i].held = h]
         IN  /\ r \in Bufferman /\ r.geom = b.geom /\ r.open = b.open
             /\ Current(r) = Current(b)
             /\ \A j \in Slots \ {i} : r.bufs[j] = b.bufs[j]
             /\ Fits(b) => Fits(r)
             /\ b.bufs[i].made /\ (h => i \in Current(b)) /\ Owned(b) => Owned(r)
<1> DEFINE new == [b.bufs[i] EXCEPT !.acquired = h, !.held = h]
           r == [b EXCEPT !.bufs[i].acquired = h, !.bufs[i].held = h]
<1>1. \A j \in Slots : b.bufs[j] \in Buffers BY DEF Bufferman
<1>2. r = [b EXCEPT !.bufs[i] = new] BY <1>1 DEF Bufferman, Buffers
<1>3. /\ new \in Buffers /\ new.acquired = h /\ new.held = h
      /\ new.made = b.bufs[i].made /\ new.doomed = b.bufs[i].doomed
      /\ new.kept = b.bufs[i].kept /\ new.mapped = b.bufs[i].mapped
      /\ new.off = b.bufs[i].off /\ new.geom = b.bufs[i].geom
  BY <1>1 DEF Buffers
<1> HIDE DEF new, r
<1>4. /\ r \in Bufferman /\ r.geom = b.geom /\ r.open = b.open /\ r.size = b.size
      /\ r.slots = b.slots /\ r.orphans = b.orphans /\ r.bufs = [b.bufs EXCEPT ![i] = new]
  BY <1>2, <1>3 DEF Bufferman
<1>5. r.bufs[i] = new /\ \A j \in Slots \ {i} : r.bufs[j] = b.bufs[j]
  BY <1>4 DEF Bufferman
<1>6. \A j \in Slots :
        /\ r.bufs[j].made = b.bufs[j].made /\ r.bufs[j].doomed = b.bufs[j].doomed
        /\ r.bufs[j].kept = b.bufs[j].kept /\ r.bufs[j].mapped = b.bufs[j].mapped
        /\ r.bufs[j].off = b.bufs[j].off /\ r.bufs[j].geom = b.bufs[j].geom
  BY <1>3, <1>5
<1>7. Current(r) = Current(b) BY <1>4, <1>6, SlotsOf DEF Current
<1>8. ASSUME b.bufs[i].made, h => i \in Current(b), Owned(b) PROVE Owned(r)
  <2>1. \A j \in Slots :
          /\ r.bufs[j].acquired = r.bufs[j].held
          /\ r.bufs[j].held => r.bufs[j].made
          /\ r.bufs[j].held /\ r.bufs[j].kept => j \in Current(r)
    <3> TAKE j \in Slots
    <3>1. CASE j = i BY <1>3, <1>5, <1>7, <1>8, <3>1
    <3>2. CASE j # i BY <1>5, <1>7, <1>8, <3>2 DEF Owned
    <3> QED BY <3>1, <3>2
  <2> QED BY <1>4, <1>8, <2>1 DEF Owned
<1>9. ASSUME Fits(b) PROVE Fits(r)
  <2>1. \A j \in Current(r) :
          /\ r.bufs[j].kept /\ r.bufs[j].mapped
          /\ r.bufs[j].geom = r.geom /\ r.bufs[j].off = Offset(r, j)
    <3> TAKE j \in Current(r)
    <3>1. j \in Slots BY <1>4, CurrentIsSlot
    <3>2. Offset(r, j) = Offset(b, j) BY <1>4 DEF Offset
    <3> QED BY <1>4, <1>6, <1>7, <1>9, <3>1, <3>2 DEF Fits
  <2> QED BY <1>4, <1>6, <1>7, <1>9, <2>1 DEF Fits
<1> QED BY <1>4, <1>5, <1>7, <1>8, <1>9 DEF r

\* A fresh bufferman is right in both ways.
LEMMA FreshShape ==
  /\ FreshBufferman \in Bufferman /\ FreshBufferman.geom = NoGeometry
  /\ Fits(FreshBufferman) /\ Owned(FreshBufferman)
<1>1. FreshBufferman \in Bufferman
  BY LimitAssumption DEF FreshBufferman, Bufferman, Buffers, NoShmBuffer
<1>2. \A i \in Slots : FreshBufferman.bufs[i] = NoShmBuffer BY DEF FreshBufferman
<1>3. Current(FreshBufferman) = {}
  BY <1>1, <1>2, SlotsOf DEF Current, NoShmBuffer
<1> QED BY <1>1, <1>2, <1>3 DEF Fits, Owned, NoShmBuffer, FreshBufferman

-----------------------------------------------------------------------------
(* The renderer: what holds whatever the application does. *)

Layout == TypeOK /\ (~crashed => Fits(bm))

\* What get_surface works on once it has applied the size
LEMMA AppliedShape ==
  ASSUME Layout, NEW c \in BOOLEAN, GetSurface(c), ~Unsized
  PROVE  /\ Applied \in Bufferman /\ Fits(Applied) /\ Applied.geom \in Geometries
         /\ needsApply => /\ Applied.geom = Geometry /\ Applied.slots = bm.slots
                          /\ Current(Applied) = {}
                          /\ Resizable(bm) => Owned(Applied)
                          /\ bm.open \/ bm.geom = NoGeometry =>
                               Applied.open \/ SameSize(bm, Geometry, bm.slots)
         /\ ~needsApply => Applied = bm
<1>1. bm \in Bufferman /\ Fits(bm) BY DEF Layout, TypeOK, GetSurface
<1>2. CASE needsApply
  <2>1. Geometry \in Geometries
    BY <1>2, SizeAssumption DEF Layout, TypeOK, Unsized, Geometry
  <2>2. bm.geom = NoGeometry => bm.size = 0 BY <1>1 DEF Fits
  <2> QED BY <1>1, <1>2, <2>1, <2>2, ResizeShape DEF Applied
<1>3. CASE ~needsApply
  <2>1. bm.geom # NoGeometry /\ Applied = bm BY <1>3 DEF Unsized, Applied
  <2> QED BY <1>1, <1>3, <2>1 DEF Bufferman
<1> QED BY <1>2, <1>3

LEMMA TakenLayout ==
  ASSUME Layout, NEW c \in BOOLEAN, GetSurface(c), ~Unsized, Kept(next) = NoBuffer
  PROVE  Layout' /\ bm'.geom = Applied.geom
<1> DEFINE b == Applied
           grown == Grown(b)
           i == NextSlot(grown)
           p == PrevAfter(b)
           taken == Take(grown, i)
<1>1. b \in Bufferman /\ Fits(b) /\ b.geom \in Geometries BY AppliedShape
<1>2. TypeOK /\ ~crashed BY DEF Layout, GetSurface
<1>3. TakeNext(b, c) BY DEF GetSurface
<1>4. /\ width' = width /\ scale' = scale /\ preferred' = preferred /\ needsApply' = FALSE
  BY DEF GetSurface
<1> HIDE DEF b
<1>5. grown \in Bufferman /\ Fits(grown) /\ grown.geom = b.geom BY <1>1, GrownShape
<1>6. p \in Slots \cup {NoBuffer} BY <1>2 DEF PrevAfter, Kept, TypeOK
<1> HIDE DEF grown, p
<1>7. CASE i = NoBuffer
  <2>1. /\ bm' = grown /\ next' = NoBuffer /\ prev' = p
        /\ rerender' = rerender /\ shows' = shows /\ crashed' = crashed
    BY <1>3, <1>7 DEF TakeNext, grown, p
  <2>2. TypeOK' BY <1>2, <1>4, <1>5, <1>6, <2>1 DEF TypeOK
  <2> QED BY <1>5, <2>1, <2>2 DEF Layout, b
<1>8. CASE i # NoBuffer
  <2> DEFINE fresh == IF Reusable(grown, i) THEN shows[i] ELSE "junk"
  <2>1. i \in 0..(grown.slots - 1) /\ i \in Slots /\ ~Busy(grown, i)
    BY <1>5, <1>8, NextSlotFree, SlotsOf
  <2> HIDE DEF i
  <2>2. /\ bm' = taken /\ next' = i /\ prev' = p
        /\ crashed' = (~Reusable(grown, i) /\ ~grown.open)
        /\ rerender' = IF c /\ p # NoBuffer THEN rerender ELSE rerender \cup {i}
        /\ shows' = [shows EXCEPT ![i] =
             IF c /\ p \notin {NoBuffer, i} THEN Blit(i, p, taken) ELSE fresh]
    BY <1>3, <1>8 DEF TakeNext, grown, p, i
  <2>3. /\ taken \in Bufferman /\ taken.geom = grown.geom
        /\ Reusable(grown, i) \/ grown.open => Fits(taken)
    BY <1>1, <1>5, <2>1, TakeShape
  <2> HIDE DEF taken
  <2>4. /\ shows \in [Slots -> {"last", "older", "junk"}] /\ fresh \in {"last", "older", "junk"}
        /\ p # NoBuffer => Blit(i, p, taken) \in {"last", "older", "junk"}
    BY <1>2, <1>6, <2>1 DEF TypeOK, Blit
  <2>5. shows' \in [Slots -> {"last", "older", "junk"}] BY <2>1, <2>2, <2>4
  <2>6. TypeOK'
    <3>1. rerender' \subseteq Slots BY <1>2, <2>1, <2>2 DEF TypeOK
    <3>2. crashed' \in BOOLEAN BY <2>2
    <3> QED BY <1>2, <1>4, <1>6, <2>1, <2>2, <2>3, <2>5, <3>1, <3>2 DEF TypeOK
  <2> QED BY <1>5, <2>2, <2>3, <2>6 DEF Layout, b
<1> QED BY <1>7, <1>8

\* A call that already has a buffer to return changes nothing.
LEMMA NextStays ==
  ASSUME TypeOK, NEW c \in BOOLEAN, GetSurface(c), ~Unsized, Kept(next) # NoBuffer
  PROVE  UNCHANGED vars
<1>1. needsApply = FALSE BY DEF Kept, TypeOK
<1> QED BY <1>1 DEF GetSurface, vars, surfaceVars

\* A call without a size ends it all.
LEMMA UnsizedFails ==
  ASSUME TypeOK, NEW c \in BOOLEAN, GetSurface(c), Unsized
  PROVE  TypeOK' /\ crashed' = TRUE /\ bm' = bm /\ next' = next
BY DEF GetSurface, TypeOK

\* The surface's own steps
SurfaceNext ==
  \/ \E w \in Sizes \cup {0} : Configure(w) \/ SetSize(w)
  \/ \E s \in Scales :
       PreferredScale(s) \/ \E ofParent \in BOOLEAN : OutputsChanged(s, ofParent)
  \/ RoleUnset

LEMMA SurfaceStep ==
  ASSUME TypeOK, SurfaceNext
  PROVE  TypeOK' /\ UNCHANGED drawVars
<1>1. UNCHANGED drawVars
  BY DEF SurfaceNext, Configure, SetSize, PreferredScale, OutputsChanged, RoleUnset
<1>2. TypeOK'
  BY <1>1, SizeAssumption DEF TypeOK, drawVars, SurfaceNext, Configure, SetSize,
     PreferredScale, OutputsChanged, Rescale, RoleUnset
<1> QED BY <1>1, <1>2

\* What a step may be
LEMMA StepCases ==
  ASSUME TypeOK, [Next]_vars, NEW P,
         SurfaceNext => P,
         \A c \in BOOLEAN : GetSurface(c) /\ Unsized => P,
         \A c \in BOOLEAN : GetSurface(c) /\ ~Unsized /\ Kept(next) = NoBuffer => P,
         Submit => P,
         \A n \in 1..MaxBuffers : ChooseSlots(n) => P,
         \A i \in Slots : BufferRelease(i) => P,
         FinishRenderer => P,
         UNCHANGED vars => P
  PROVE  P
<1>1. ASSUME NEW c \in BOOLEAN, GetSurface(c) PROVE P BY <1>1, NextStays
<1> QED BY <1>1 DEF Next, SurfaceNext, Crashed

LEMMA LayoutInvariance == Spec => []Layout
<1>1. Init => Layout
  BY FreshShape, SizeAssumption DEF Init, Layout, TypeOK
<1>2. Layout /\ [Next]_vars => Layout'
  <2> SUFFICES ASSUME Layout, [Next]_vars PROVE Layout' OBVIOUS
  <2>1. TypeOK BY DEF Layout
  <2>2. ASSUME SurfaceNext PROVE Layout'
    BY <2>1, <2>2, SurfaceStep DEF Layout, drawVars
  <2>3. ASSUME NEW c \in BOOLEAN, GetSurface(c), ~Unsized, Kept(next) = NoBuffer PROVE Layout'
    BY <2>3, TakenLayout
  <2>4. ASSUME Submit PROVE Layout'
    <3>1. next \in Slots /\ bm \in Bufferman /\ Fits(bm)
      BY <2>1, <2>4 DEF Submit, TypeOK, Layout
    <3>2. bm' \in Bufferman /\ Fits(bm') BY <2>4, <3>1, HoldShape DEF Submit, Acquire
    <3>3. shows' \in [Slots -> {"last", "older", "junk"}]
      BY <2>1, <2>4 DEF Submit, TypeOK
    <3> QED BY <2>1, <2>4, <3>1, <3>2, <3>3 DEF Submit, TypeOK, surfaceVars, Layout
  <2>5. ASSUME NEW n \in 1..MaxBuffers, ChooseSlots(n) PROVE Layout'
    <3>1. bm' \in Bufferman /\ Fits(bm')
      BY <2>1, <2>5, SetSlotsShape DEF ChooseSlots, TypeOK, Layout
    <3> QED BY <2>1, <2>5, <3>1 DEF ChooseSlots, TypeOK, surfaceVars, Layout
  <2>6. ASSUME NEW i \in Slots, BufferRelease(i) PROVE Layout'
    <3>1. bm \in Bufferman /\ Fits(bm) BY <2>1, <2>6 DEF BufferRelease, TypeOK, Layout
    <3>2. bm' \in Bufferman /\ Fits(bm')
      BY <2>6, <3>1, HoldShape DEF BufferRelease, Release
    <3> QED BY <2>1, <2>6, <3>2 DEF BufferRelease, TypeOK, surfaceVars, Layout
  <2>7. ASSUME FinishRenderer PROVE Layout'
    <3>1. bm' \in Bufferman /\ Fits(bm') BY <2>7, FreshShape DEF FinishRenderer
    <3> QED BY <2>1, <2>7, <3>1 DEF FinishRenderer, TypeOK, surfaceVars, Layout
  <2>8. ASSUME UNCHANGED vars PROVE Layout'
    BY <2>1, <2>8 DEF vars, surfaceVars, drawVars, Layout, TypeOK
  <2>9. ASSUME NEW c \in BOOLEAN, GetSurface(c), Unsized PROVE Layout'
    BY <2>1, <2>9, UnsizedFails DEF Layout
  <2> QED BY <2>1, <2>2, <2>3, <2>4, <2>5, <2>6, <2>7, <2>8, <2>9, StepCases
<1> QED BY <1>1, <1>2, PTL DEF Spec

\* The state of the renderer keeps its type, also after a crash.
THEOREM RendererTypes == Spec => []TypeOK
<1>1. Layout => TypeOK BY DEF Layout
<1> QED BY <1>1, LayoutInvariance, PTL

\* However often the pool is resized, for new sizes, for one slot more or because
\* the application chose another number, the buffers that may be handed out again
\* lie side by side in the present file, for every table of geometries and any
\* number of slots.
THEOREM BuffersFitPool == Spec => []SlotsFitPool
<1>1. Layout => SlotsFitPool
  <2> SUFFICES ASSUME Layout, ~crashed, NEW i \in Current(bm)
               PROVE  LET f == bm.bufs[i]
                      IN  /\ f.kept /\ f.mapped /\ f.geom = bm.geom
                          /\ f.off + Bytes[f.geom] <= bm.size
                          /\ \A j \in Current(bm) \ {i} :
                               ~Overlap(f.off, f.geom, bm.bufs[j].off, bm.bufs[j].geom)
    BY DEF SlotsFitPool
  <2>1. bm \in Bufferman /\ Fits(bm) BY DEF Layout, TypeOK
  <2>2. \A j \in Current(bm) :
          /\ bm.bufs[j].kept /\ bm.bufs[j].mapped
          /\ bm.bufs[j].geom = bm.geom /\ bm.bufs[j].off = Offset(bm, j)
          /\ j \in 0..(bm.slots - 1)
    BY <2>1, CurrentIsSlot DEF Fits
  <2>3. bm.bufs[i].made /\ i \in Slots BY <2>1, CurrentIsSlot DEF Current
  <2>4. bm.geom # NoGeometry /\ Bytes[bm.geom] * bm.slots <= bm.size
    BY <2>1, <2>3 DEF Fits
  <2>5. bm.geom \in Geometries BY <2>1, <2>4 DEF Bufferman
  <2>6. Offset(bm, i) + Bytes[bm.geom] <= bm.size
    BY <2>1, <2>2, <2>4, <2>5, SlotInPool
  <2>7. ASSUME NEW j \in Current(bm) \ {i}
        PROVE  ~Overlap(Offset(bm, i), bm.geom, Offset(bm, j), bm.geom)
    BY <2>1, <2>2, <2>4, <2>5, SlotsApart
  <2> QED BY <2>2, <2>6, <2>7
<1> QED BY <1>1, LayoutInvariance, PTL

-----------------------------------------------------------------------------
(* Changes of size and scale. *)

\* A change of the scale by the outputs, and every change of the size, stays flagged
\* until get_surface gives it to the renderer, if a surface that was drawn keeps its
\* role.
THEOREM ChangesAreApplied == ASSUME ~RoleReuse PROVE Spec => []OutputChangesApplied
<1>1. Init => OutputChangesApplied
  BY FreshShape DEF Init, OutputChangesApplied
<1>2. Layout /\ OutputChangesApplied /\ [Next]_vars => OutputChangesApplied'
  <2> SUFFICES ASSUME Layout, OutputChangesApplied, [Next]_vars PROVE OutputChangesApplied'
    OBVIOUS
  <2>1. TypeOK BY DEF Layout
  <2>2. ASSUME SurfaceNext PROVE OutputChangesApplied'
    <3>1. bm' = bm BY <2>1, <2>2, SurfaceStep DEF drawVars
    <3>2. CASE RoleUnset
      BY <3>1, <3>2 DEF RoleUnset, OutputChangesApplied, Geometry
    <3>3. CASE ~RoleUnset
      BY <2>1, <2>2, <3>1, <3>3, SizeAssumption
      DEF SurfaceNext, Configure, SetSize, PreferredScale, OutputsChanged, Rescale, TypeOK,
          OutputChangesApplied, Geometry
    <3> QED BY <3>2, <3>3
  <2>3. ASSUME NEW c \in BOOLEAN, GetSurface(c), ~Unsized, Kept(next) = NoBuffer
        PROVE  OutputChangesApplied'
    <3>1. bm'.geom = IF needsApply THEN Geometry ELSE bm.geom
      BY <2>3, TakenLayout, AppliedShape
    <3> QED
      BY <2>3, <3>1 DEF GetSurface, OutputChangesApplied, Geometry
  <2>4. ASSUME Submit PROVE OutputChangesApplied'
    <3>1. bm'.geom = bm.geom
      BY <2>1, <2>4, HoldShape DEF Submit, Acquire, TypeOK
    <3> QED
      BY <2>4, <3>1 DEF Submit, surfaceVars, OutputChangesApplied, Geometry
  <2>5. ASSUME NEW n \in 1..MaxBuffers, ChooseSlots(n) PROVE OutputChangesApplied'
    <3>1. bm'.geom = bm.geom
      BY <2>1, <2>5, SetSlotsShape DEF ChooseSlots, TypeOK, Layout
    <3> QED
      BY <2>5, <3>1 DEF ChooseSlots, surfaceVars, OutputChangesApplied, Geometry
  <2>6. ASSUME NEW i \in Slots, BufferRelease(i) PROVE OutputChangesApplied'
    <3>1. bm'.geom = bm.geom
      BY <2>1, <2>6, HoldShape DEF BufferRelease, Release, TypeOK
    <3> QED
      BY <2>6, <3>1 DEF BufferRelease, surfaceVars, OutputChangesApplied, Geometry
  <2>7. ASSUME FinishRenderer PROVE OutputChangesApplied'
    <3>1. bm'.geom = NoGeometry BY <2>7, FreshShape DEF FinishRenderer
    <3> QED BY <3>1 DEF OutputChangesApplied
  <2>8. ASSUME UNCHANGED vars PROVE OutputChangesApplied'
    BY <2>8 DEF vars, surfaceVars, drawVars, OutputChangesApplied, Geometry
  <2>9. ASSUME NEW c \in BOOLEAN, GetSurface(c), Unsized PROVE OutputChangesApplied'
    BY <2>1, <2>9, UnsizedFails DEF OutputChangesApplied
  <2> QED BY <2>1, <2>2, <2>3, <2>4, <2>5, <2>6, <2>7, <2>8, <2>9, StepCases
<1> QED BY <1>1, <1>2, LayoutInvariance, PTL DEF Spec

-----------------------------------------------------------------------------
(* Whose the memory is. *)

\* The application chooses the number of slots before its first frame.
Contract == ~SlotsAnyTime

\* The bufferman agrees with the compositor, and has a pool once it has a geometry.
BuffersOwned == ~crashed => Owned(bm) /\ (bm.geom # NoGeometry => bm.open)

\* The buffer the application draws into is current and the compositor does not
\* have it.
NextIsFree == ~crashed /\ next # NoBuffer => next \in Current(bm) /\ ~bm.bufs[next].held

\* The buffer that was submitted last is current and shows that frame.
PrevIsLast == ~crashed /\ prev # NoBuffer => prev \in Current(bm) /\ shows[prev] = "last"

IInv == BuffersOwned /\ NextIsFree /\ PrevIsLast /\ ShowsLastFrame

\* What has no geometry has no buffers.
LEMMA NothingMade ==
  ASSUME NEW b \in Bufferman, Fits(b), b.geom = NoGeometry
  PROVE  Current(b) = {} /\ (Owned(b) => ~InUse(b))
<1>1. \A i \in Slots : ~b.bufs[i].made BY DEF Fits
<1>2. Current(b) = {} BY <1>1, CurrentIsSlot DEF Current
<1> QED BY <1>1, <1>2 DEF Owned, InUse

LEMMA AppliedOwned ==
  ASSUME Layout, IInv, NEW c \in BOOLEAN, GetSurface(c), ~Unsized
  PROVE  Owned(Applied)
<1>1. bm \in Bufferman /\ Fits(bm) /\ Owned(bm) /\ (bm.geom # NoGeometry => bm.open)
  BY DEF Layout, TypeOK, GetSurface, IInv, BuffersOwned
<1>2. Resizable(bm) BY <1>1, NothingMade, OwnedResizes
<1> QED BY <1>1, <1>2, AppliedShape

\* What get_surface leaves behind when it looks for a buffer: the one it returns,
\* if any, and the one whose frame it copied or may copy the next time; and why it
\* returns none, or fails
LEMMA TakenShape ==
  ASSUME Layout, IInv, NEW c \in BOOLEAN, GetSurface(c), ~Unsized, Kept(next) = NoBuffer
  PROVE  /\ IInv'
         /\ next' = NoBuffer => \A j \in Slots : bm'.bufs[j].held
         /\ crashed' => SameSize(bm, bm'.geom, bm'.slots)
<1> DEFINE b == Applied
           grown == Grown(b)
           i == NextSlot(grown)
           p == PrevAfter(b)
           taken == Take(grown, i)
<1>1. /\ b \in Bufferman /\ Fits(b) /\ Owned(b) /\ b.geom \in Geometries
      /\ ~needsApply => b = bm
  BY AppliedShape, AppliedOwned
<1>2. /\ TypeOK /\ NextIsFree /\ PrevIsLast /\ ~crashed
      /\ bm.geom # NoGeometry => bm.open
  BY DEF Layout, IInv, BuffersOwned, GetSurface
<1>3. TakeNext(b, c) BY DEF GetSurface
\* why there may be no pool
<1>4. \/ b.open \/ SameSize(bm, b.geom, b.slots)
  <2>1. CASE needsApply BY <1>2, <2>1, AppliedShape
  <2>2. CASE ~needsApply BY <1>1, <1>2, <2>2, GeometryAssumption
  <2> QED BY <2>1, <2>2
<1>5. Current(b) # {} => b = bm BY <1>1, AppliedShape
<1> HIDE DEF b
<1>6. /\ grown \in Bufferman /\ Fits(grown) /\ Owned(grown) /\ grown.geom = b.geom
      /\ NextSlot(b) # NoBuffer => grown = b
      /\ NextSlot(grown) = NoBuffer =>
           grown = b /\ b.open /\ \A j \in Slots : b.bufs[j].acquired
      /\ grown = b \/ (Current(b) # {} /\ (grown.open \/ SameSize(b, b.geom, grown.slots)))
  BY <1>1, GrownShape
<1>7. grown.open \/ SameSize(bm, grown.geom, grown.slots) BY <1>4, <1>5, <1>6
\* the buffer submitted last, when the bufferman did not change since
<1>8. /\ p \in Slots \cup {NoBuffer}
      /\ p # NoBuffer => p \in Current(grown) /\ shows[p] = "last"
  <2>1. CASE NextSlot(b) = NoBuffer BY <2>1 DEF PrevAfter
  <2>2. CASE NextSlot(b) # NoBuffer
    <3>1. p = Kept(prev) /\ grown = b BY <1>6, <2>2 DEF PrevAfter
    <3>2. CASE needsApply BY <3>1, <3>2 DEF Kept
    <3>3. CASE ~needsApply BY <1>1, <1>2, <3>1, <3>3 DEF Kept, TypeOK, PrevIsLast
    <3> QED BY <3>2, <3>3
  <2> QED BY <2>1, <2>2
<1> HIDE DEF grown, p
<1>9. CASE i = NoBuffer
  <2>1. /\ bm' = grown /\ next' = NoBuffer /\ prev' = p
        /\ rerender' = rerender /\ shows' = shows /\ crashed' = crashed
    BY <1>3, <1>9 DEF TakeNext, grown, p
  <2>2. \A j \in Slots : bm'.bufs[j].held BY <1>6, <1>9, <2>1 DEF Owned
  <2>3. BuffersOwned' BY <1>6, <1>9, <2>1 DEF BuffersOwned
  <2>4. PrevIsLast' BY <1>8, <2>1 DEF PrevIsLast
  <2>5. NextIsFree' /\ ShowsLastFrame' BY <2>1 DEF NextIsFree, ShowsLastFrame
  <2> QED BY <1>2, <2>1, <2>2, <2>3, <2>4, <2>5 DEF IInv
<1>10. CASE i # NoBuffer
  <2> DEFINE fresh == IF Reusable(grown, i) THEN shows[i] ELSE "junk"
  <2>1. i \in 0..(grown.slots - 1) /\ i \in Slots /\ ~Busy(grown, i)
    BY <1>6, <1>10, NextSlotFree, SlotsOf
  <2> HIDE DEF i
  <2>2. /\ bm' = taken /\ next' = i /\ prev' = p
        /\ crashed' = (~Reusable(grown, i) /\ ~grown.open)
        /\ rerender' = IF c /\ p # NoBuffer THEN rerender ELSE rerender \cup {i}
        /\ shows' = [shows EXCEPT ![i] =
             IF c /\ p \notin {NoBuffer, i} THEN Blit(i, p, taken) ELSE fresh]
    BY <1>3, <1>10 DEF TakeNext, grown, p, i
  <2>3. /\ taken.geom = grown.geom /\ taken.slots = grown.slots
        /\ \A j \in Slots \ {i} : taken.bufs[j] = grown.bufs[j]
        /\ Current(taken) = Current(grown) \cup {i}
        /\ Reusable(grown, i) \/ grown.open => taken.open
        /\ Owned(taken) /\ ~taken.bufs[i].held
    BY <1>1, <1>6, <2>1, TakeShape
  <2> HIDE DEF taken
  <2>4. shows \in [Slots -> {"last", "older", "junk"}] BY <1>2 DEF TypeOK
  <2>5. BuffersOwned' BY <2>2, <2>3 DEF BuffersOwned
  <2>6. NextIsFree' BY <2>2, <2>3 DEF NextIsFree
  \* what was submitted last is copied from memory that is mapped
  <2>7. p # NoBuffer /\ p # i => Blit(i, p, taken) = "last"
    <3>1. SUFFICES ASSUME p # NoBuffer, p # i PROVE taken.bufs[p].mapped
      BY <1>8 DEF Blit
    <3>2. p \in Slots /\ taken.bufs[p] = grown.bufs[p] BY <1>8, <2>3, <3>1
    <3> QED BY <1>6, <1>8, <3>1, <3>2 DEF Fits
  \* the slot that was submitted last is handed out again as it is
  <2>8. p = i => fresh = "last"
    <3>1. SUFFICES ASSUME p = i PROVE Reusable(grown, i) BY <1>8, <1>10
    <3>2. i \in Current(grown) BY <1>8, <1>10, <3>1
    <3> QED BY <2>1, <3>2 DEF Busy, Reusable, Current
  <2>9. PrevIsLast'
    <3>1. p # NoBuffer => shows'[p] = "last"
      BY <1>8, <2>1, <2>2, <2>4, <2>7, <2>8
    <3> QED BY <1>8, <2>2, <2>3, <3>1 DEF PrevIsLast
  <2>10. ShowsLastFrame'
    <3>1. c /\ p # NoBuffer => shows'[i] = "last"
      BY <2>1, <2>2, <2>4, <2>7, <2>8
    <3> QED BY <2>2, <3>1 DEF ShowsLastFrame
  <2>11. crashed' => SameSize(bm, bm'.geom, bm'.slots) BY <1>7, <2>2, <2>3
  <2> QED BY <1>10, <2>2, <2>5, <2>6, <2>9, <2>10, <2>11 DEF IInv
<1> QED BY <1>9, <1>10

LEMMA SubmitStep ==
  ASSUME Layout, IInv, Submit
  PROVE  IInv'
<1>1. /\ TypeOK /\ ~crashed /\ next \in Slots /\ bm \in Bufferman
      /\ Owned(bm) /\ (bm.geom # NoGeometry => bm.open) /\ next \in Current(bm)
  BY DEF Layout, IInv, TypeOK, BuffersOwned, NextIsFree, Submit
<1>2. bm' = [bm EXCEPT !.bufs[next].acquired = TRUE, !.bufs[next].held = TRUE]
  BY DEF Submit, Acquire
<1>3. bm.bufs[next].made BY <1>1 DEF Current
<1>4. /\ Owned(bm') /\ bm'.geom = bm.geom /\ bm'.open = bm.open
      /\ Current(bm') = Current(bm)
  BY <1>1, <1>2, <1>3, HoldShape
<1>5. prev' = next /\ next' = NoBuffer /\ shows'[next] = "last"
  BY <1>1 DEF Submit, TypeOK
<1> QED
  BY <1>1, <1>4, <1>5 DEF IInv, BuffersOwned, NextIsFree, PrevIsLast, ShowsLastFrame

LEMMA BufferReleaseStep ==
  ASSUME Layout, IInv, NEW i \in Slots, BufferRelease(i)
  PROVE  IInv'
<1>1. /\ TypeOK /\ ~crashed /\ bm \in Bufferman /\ bm.bufs[i].held
      /\ Owned(bm) /\ (bm.geom # NoGeometry => bm.open)
  BY DEF Layout, IInv, TypeOK, BuffersOwned, BufferRelease
<1>2. bm' = [bm EXCEPT !.bufs[i].acquired = FALSE, !.bufs[i].held = FALSE]
  BY DEF BufferRelease, Release
<1>3. bm.bufs[i].made BY <1>1 DEF Owned
<1>4. /\ Owned(bm') /\ bm'.geom = bm.geom /\ bm'.open = bm.open
      /\ Current(bm') = Current(bm)
      /\ \A j \in Slots \ {i} : bm'.bufs[j] = bm.bufs[j]
  BY <1>1, <1>2, <1>3, HoldShape
<1>5. UNCHANGED <<next, prev, rerender, shows, crashed>> BY DEF BufferRelease
<1>6. NextIsFree'
  <2>1. SUFFICES ASSUME next # NoBuffer
                 PROVE  next \in Current(bm') /\ ~bm'.bufs[next].held
    BY <1>5 DEF NextIsFree
  <2>2. next \in Slots /\ next \in Current(bm) /\ ~bm.bufs[next].held
    BY <1>1, <2>1 DEF IInv, TypeOK, NextIsFree
  <2> QED BY <1>1, <1>4, <2>2
<1> QED
  BY <1>1, <1>4, <1>5, <1>6 DEF IInv, BuffersOwned, PrevIsLast, ShowsLastFrame

LEMMA ChooseSlotsStep ==
  ASSUME Contract, Layout, IInv, NEW n \in 1..MaxBuffers, ChooseSlots(n)
  PROVE  IInv'
<1>1. ~crashed /\ bm \in Bufferman /\ Fits(bm) /\ Owned(bm) /\ bm.geom = NoGeometry
  BY DEF Layout, IInv, TypeOK, BuffersOwned, ChooseSlots, Contract
<1>2. Owned(bm') /\ bm'.geom = NoGeometry BY <1>1, SetSlotsShape DEF ChooseSlots
<1>3. UNCHANGED <<next, prev, rerender, shows, crashed>> BY DEF ChooseSlots
<1>4. next = NoBuffer /\ prev = NoBuffer
  BY <1>1, NothingMade DEF IInv, NextIsFree, PrevIsLast
<1> QED
  BY <1>2, <1>3, <1>4 DEF IInv, BuffersOwned, NextIsFree, PrevIsLast, ShowsLastFrame

LEMMA FinishRendererStep ==
  ASSUME FinishRenderer
  PROVE  IInv'
BY FreshShape DEF FinishRenderer, IInv, BuffersOwned, NextIsFree, PrevIsLast, ShowsLastFrame

LEMMA Invariance == ASSUME Contract PROVE Spec => []IInv
<1>1. Init => IInv
  BY FreshShape DEF Init, IInv, BuffersOwned, NextIsFree, PrevIsLast, ShowsLastFrame
<1>2. Layout /\ IInv /\ [Next]_vars => IInv'
  <2> SUFFICES ASSUME Layout, IInv, [Next]_vars PROVE IInv' OBVIOUS
  <2>1. TypeOK BY DEF Layout
  <2>2. ASSUME SurfaceNext PROVE IInv'
    BY <2>1, <2>2, SurfaceStep DEF drawVars, IInv, BuffersOwned, NextIsFree, PrevIsLast,
       ShowsLastFrame
  <2>3. ASSUME NEW c \in BOOLEAN, GetSurface(c), ~Unsized, Kept(next) = NoBuffer PROVE IInv'
    BY <2>3, TakenShape
  <2>5. ASSUME NEW c \in BOOLEAN, GetSurface(c), Unsized PROVE IInv'
    BY <2>1, <2>5, UnsizedFails
       DEF IInv, BuffersOwned, NextIsFree, PrevIsLast, ShowsLastFrame
  <2>4. ASSUME UNCHANGED vars PROVE IInv'
    BY <2>4 DEF vars, drawVars, IInv, BuffersOwned, NextIsFree, PrevIsLast, ShowsLastFrame
  <2> QED
    BY <2>1, <2>2, <2>3, <2>4, <2>5, SubmitStep, ChooseSlotsStep, BufferReleaseStep,
       FinishRendererStep, StepCases
<1> QED BY <1>1, <1>2, LayoutInvariance, PTL DEF Spec

\* The memory the application is given to draw into is mapped, has the renderer's
\* geometry and shares no byte with what the compositor may still read.
THEOREM MemoryIsFree == ASSUME Contract PROVE Spec => []DrawsIntoFreeMemory
<1>1. Layout /\ SlotsFitPool /\ IInv => DrawsIntoFreeMemory
  <2> SUFFICES ASSUME Layout, SlotsFitPool, IInv, next # NoBuffer, ~crashed
               PROVE  LET f == bm.bufs[next]
                      IN  /\ f.made /\ f.mapped /\ ~f.held /\ f.geom = bm.geom
                          /\ \A r \in ReadByCompositor(bm) :
                               ~Overlap(f.off, f.geom, r.off, r.geom)
    BY DEF DrawsIntoFreeMemory
  <2>1. /\ bm \in Bufferman /\ Fits(bm) /\ Owned(bm)
        /\ next \in Current(bm) /\ ~bm.bufs[next].held
    BY DEF Layout, TypeOK, IInv, BuffersOwned, NextIsFree
  <2>2. bm.bufs[next].made /\ bm.bufs[next].mapped /\ bm.bufs[next].geom = bm.geom
    BY <2>1 DEF Fits, Current
  <2>3. ASSUME NEW r \in ReadByCompositor(bm)
        PROVE  ~Overlap(bm.bufs[next].off, bm.bufs[next].geom, r.off, r.geom)
    <3>1. PICK j \in Slots : /\ bm.bufs[j].held /\ bm.bufs[j].kept
                             /\ r = [off |-> bm.bufs[j].off, geom |-> bm.bufs[j].geom]
      BY <2>1 DEF ReadByCompositor, Owned
    <3>2. j \in Current(bm) \ {next} BY <2>1, <3>1 DEF Owned
    <3>3. r.off = bm.bufs[j].off /\ r.geom = bm.bufs[j].geom BY <3>1
    <3> QED BY <2>1, <3>2, <3>3 DEF SlotsFitPool
  <2> QED BY <2>1, <2>2, <2>3
<1> QED BY <1>1, LayoutInvariance, BuffersFitPool, Invariance, PTL

\* A buffer that is not to be drawn anew shows the frame submitted last.
THEOREM LastFrameIsShown == ASSUME Contract PROVE Spec => []ShowsLastFrame
<1>1. IInv => ShowsLastFrame BY DEF IInv
<1> QED BY <1>1, Invariance, PTL

\* get_surface returns NULL only when the compositor holds all the buffers there
\* can be.
THEOREM NullMeansFull == ASSUME Contract PROVE Spec => NullOnlyWhenFull
<1> DEFINE A == \A c \in BOOLEAN : GetSurface(c) /\ next' = NoBuffer /\ ~crashed'
                  => \A i \in Slots : bm'.bufs[i].held
<1>1. Layout /\ IInv => [A]_vars
  <2> SUFFICES ASSUME Layout, IInv, NEW c \in BOOLEAN, GetSurface(c), next' = NoBuffer,
                      ~crashed', ~(UNCHANGED vars)
               PROVE  \A i \in Slots : bm'.bufs[i].held
    OBVIOUS
  <2>1. ~Unsized BY UnsizedFails DEF Layout
  <2>2. Kept(next) = NoBuffer BY <2>1, NextStays DEF Layout
  <2> QED BY <2>1, <2>2, TakenShape
<1> HIDE DEF A
<1>2. Spec => [][A]_vars BY <1>1, LayoutInvariance, Invariance, PTL DEF Spec
<1> QED BY <1>2 DEF A, NullOnlyWhenFull

\* The renderer fails for want of a size, its own or one that was applied, or where a
\* resize finds that the compositor has a buffer, closes the pool, and needs one of
\* just the size the closed one had.
KnownFailures ==
  [][crashed' /\ ~crashed =>
       \/ needsApply /\ width = 0
       \/ ~needsApply /\ bm.geom = NoGeometry
       \/ SameSize(bm, bm'.geom, bm'.slots)]_vars

\* A surface with a size that was applied finds the pool missing in no other case than
\* the one run renderer_pool finds.
THEOREM FailuresAreKnown == ASSUME Contract PROVE Spec => KnownFailures
<1> DEFINE Cause == \/ needsApply /\ width = 0
                    \/ ~needsApply /\ bm.geom = NoGeometry
                    \/ SameSize(bm, bm'.geom, bm'.slots)
           A == crashed' /\ ~crashed => Cause
<1>1. Layout /\ IInv /\ [Next]_vars => [A]_vars
  <2> SUFFICES ASSUME Layout, IInv, [Next]_vars, crashed', ~crashed PROVE Cause
    OBVIOUS
  <2>1. TypeOK BY DEF Layout
  <2>2. ASSUME NEW c \in BOOLEAN, GetSurface(c), ~Unsized, Kept(next) = NoBuffer
        PROVE  Cause
    BY <2>2, TakenShape
  <2>3. ASSUME NEW c \in BOOLEAN, GetSurface(c), Unsized PROVE Cause
    BY <2>1, <2>3 DEF Unsized, TypeOK
  <2>4. ~SurfaceNext BY <2>1, SurfaceStep DEF drawVars
  <2>5. ~Submit /\ ~FinishRenderer /\ ~(UNCHANGED vars)
    BY DEF Submit, FinishRenderer, vars, drawVars
  <2>6. \A n \in 1..MaxBuffers : ~ChooseSlots(n) BY DEF ChooseSlots
  <2>7. \A i \in Slots : ~BufferRelease(i) BY DEF BufferRelease
  <2> HIDE DEF Cause
  <2> QED BY <2>1, <2>2, <2>3, <2>4, <2>5, <2>6, <2>7, StepCases
<1> HIDE DEF A
<1>2. Spec => [][A]_vars BY <1>1, LayoutInvariance, Invariance, PTL DEF Spec
<1> QED BY <1>2 DEF A, KnownFailures
=============================================================================
