----------------------------- MODULE ResumeProofs -----------------------------
(***************************************************************************)
(* Proofs about Resume and the map of Storage it is built on: that a piece *)
(* held is stored, and that a piece saved is found again, for any layout   *)
(* of files, any piece length and any tasks and saves.                     *)
(***************************************************************************)
EXTENDS Resume, DataProofs

(* The offset map *)

LEMMA MaxOfTwo == ASSUME NEW a \in Int, NEW b \in Int PROVE Max({a, b}) = IF a >= b THEN a ELSE b
  <1>1. \E x \in {a, b} : \A y \in {a, b} : x >= y
    OBVIOUS
  <1>2. Max({a, b}) \in {a, b} /\ \A y \in {a, b} : Max({a, b}) >= y
    BY <1>1 DEF Max
  <1> QED
    BY <1>2

LEMMA MinOfTwo == ASSUME NEW a \in Int, NEW b \in Int PROVE Min({a, b}) = IF a <= b THEN a ELSE b
  <1>1. \E x \in {a, b} : \A y \in {a, b} : x <= y
    OBVIOUS
  <1>2. Min({a, b}) \in {a, b} /\ \A y \in {a, b} : Min({a, b}) <= y
    BY <1>1 DEF Min
  <1> QED
    BY <1>2

LEMMA LayoutType ==
    ASSUME NEW lay \in Layouts
    PROVE  /\ Len(lay) \in Nat /\ DOMAIN lay = 1 .. Len(lay)
           /\ \A f \in 1 .. Len(lay) : lay[f] \in Nat
  <1>1. lay \in Seq(Nat)
    BY StorageAssumption
  <1> QED
    BY <1>1

\* The turn of Offsets' recursion for file f, and the functions that take it.
At(lay, at, f) == IF f = 1 THEN 0 ELSE at[f - 1] + lay[f - 1]
Sums(lay, n) == {at \in [1 .. n + 1 -> Nat] : \A f \in 1 .. n + 1 : at[f] = At(lay, at, f)}

LEMMA SumsExist ==
    ASSUME NEW lay \in Layouts
    PROVE  Sums(lay, Len(lay)) # {}
  <1>1. Len(lay) \in Nat /\ \A f \in 1 .. Len(lay) : lay[f] \in Nat
    BY LayoutType
  <1> DEFINE T == {n \in Nat : Sums(lay, n) # {}}
  <1>2. 0 \in T
    <2> DEFINE at == [f \in 1 .. 1 |-> 0]
    <2>1. at \in Sums(lay, 0)
      BY DEF Sums, At
    <2> QED
      BY <2>1
  <1>3. ASSUME NEW n \in 0 .. Len(lay) - 1, n \in T PROVE n + 1 \in T
    <2>1. PICK at \in [1 .. n + 1 -> Nat] : \A f \in 1 .. n + 1 : at[f] = At(lay, at, f)
      BY <1>3 DEF Sums
    <2>2. n \in Nat /\ n + 1 \in 1 .. Len(lay) /\ lay[n + 1] \in Nat /\ at[n + 1] \in Nat
      BY <1>1
    <2> DEFINE g == [f \in 1 .. n + 2 |-> IF f = n + 2 THEN at[n + 1] + lay[n + 1] ELSE at[f]]
    <2>3. /\ g \in [1 .. (n + 1) + 1 -> Nat] /\ g[n + 2] = at[n + 1] + lay[n + 1]
          /\ \A f \in 1 .. n + 1 : g[f] = at[f]
      BY <2>1, <2>2
    <2> HIDE DEF g
    <2>4. ASSUME NEW f \in 1 .. n + 1 PROVE g[f] = At(lay, g, f)
      <3>1. f # 1 => f - 1 \in 1 .. n + 1
        BY <2>2
      <3> QED
        BY <2>1, <2>3, <3>1 DEF At
    <2>5. g[n + 2] = At(lay, g, n + 2)
      <3>1. n + 2 # 1 /\ (n + 2) - 1 = n + 1 /\ n + 1 \in 1 .. n + 1
        BY <2>2
      <3> QED
        BY <2>3, <3>1 DEF At
    <2>6. \A f \in 1 .. (n + 1) + 1 : f \in 1 .. n + 1 \/ f = n + 2
      BY <2>2
    <2>7. g \in Sums(lay, n + 1)
      BY <2>3, <2>4, <2>5, <2>6 DEF Sums
    <2> QED
      BY <2>2, <2>7
  <1> HIDE DEF T
  <1>4. \A n \in 0 .. Len(lay) : n \in T
    BY <1>1, <1>2, <1>3, InductionTo
  <1> QED
    BY <1>1, <1>4 DEF T

\* Each file begins where the one before it ends.
LEMMA OffsetFacts ==
    ASSUME NEW lay \in Layouts
    PROVE  /\ TorrentOffset(lay, 1) = 0
           /\ \A f \in 1 .. Len(lay) + 1 : TorrentOffset(lay, f) \in Nat
           /\ \A f \in 1 .. Len(lay) :
                 TorrentOffset(lay, f + 1) = TorrentOffset(lay, f) + lay[f]
  <1>1. PICK n \in Nat : n = Len(lay)
    BY LayoutType
  <1> DEFINE K(at) == at = [f \in 1 .. n + 1 |-> At(lay, at, f)]
             at == CHOOSE at : K(at)
  <1>2. Offsets(lay) = at
    BY <1>1 DEF Offsets, At
  <1>3. PICK g \in [1 .. n + 1 -> Nat] : \A f \in 1 .. n + 1 : g[f] = At(lay, g, f)
    BY <1>1, SumsExist DEF Sums
  <1>4. K(at)
    <2>1. g = [f \in 1 .. n + 1 |-> At(lay, g, f)]
      BY <1>3
    <2> QED
      BY <2>1
  <1> HIDE DEF at
  <1>5. \A f \in 1 .. n + 1 : at[f] = At(lay, at, f)
    BY <1>4
  <1> HIDE DEF K
  <1>6. \A f \in 1 .. n : lay[f] \in Nat
    BY <1>1, LayoutType
  <1>7. at[1] = 0
    BY <1>1, <1>5 DEF At
  <1>8. \A f \in 1 .. n : at[f + 1] = at[f] + lay[f]
    <2> SUFFICES ASSUME NEW f \in 1 .. n PROVE at[f + 1] = at[f] + lay[f]
      OBVIOUS
    <2>1. f + 1 \in 1 .. n + 1 /\ f + 1 # 1 /\ (f + 1) - 1 = f
      BY <1>1
    <2> QED
      BY <1>5, <2>1 DEF At
  <1>9. \A f \in 1 .. n + 1 : at[f] \in Nat
    <2> DEFINE T == {k \in Nat : at[k + 1] \in Nat}
    <2>1. 0 \in T
      BY <1>7
    <2>2. ASSUME NEW k \in 0 .. n - 1, k \in T PROVE k + 1 \in T
      <3>1. k + 1 \in 1 .. n /\ at[k + 1] \in Nat
        BY <1>1, <2>2
      <3>2. at[(k + 1) + 1] = at[k + 1] + lay[k + 1] /\ lay[k + 1] \in Nat
        BY <1>6, <1>8, <3>1
      <3> QED
        BY <3>1, <3>2
    <2> HIDE DEF T
    <2>3. \A k \in 0 .. n : k \in T
      BY <2>1, <2>2, InductionTo
    <2> SUFFICES ASSUME NEW f \in 1 .. n + 1 PROVE at[f] \in Nat
      OBVIOUS
    <2>4. f - 1 \in 0 .. n /\ (f - 1) + 1 = f
      OBVIOUS
    <2> QED
      BY <2>3, <2>4 DEF T
  <1> QED
    BY <1>1, <1>2, <1>7, <1>8, <1>9 DEF TorrentOffset

\* The files do not overlap.
LEMMA OffsetsOrdered ==
    ASSUME NEW lay \in Layouts, NEW f \in 1 .. Len(lay), NEW g \in f + 1 .. Len(lay) + 1
    PROVE  TorrentOffset(lay, f) + lay[f] <= TorrentOffset(lay, g)
  <1>1. PICK n \in Nat : n = Len(lay)
    BY LayoutType
  <1> DEFINE to(k) == TorrentOffset(lay, k)
             T == {d \in Nat : to(f + 1) <= to((f + 1) + d)}
  <1>2. \A k \in 1 .. n + 1 : to(k) \in Nat
    BY <1>1, OffsetFacts
  <1>3. \A k \in 1 .. n : to(k + 1) = to(k) + lay[k] /\ lay[k] \in Nat
    BY <1>1, OffsetFacts, LayoutType
  <1> HIDE DEF to
  <1>4. PICK m \in Nat : m = g - (f + 1)
    BY <1>1
  <1>5. 0 \in T
    BY <1>1, <1>2
  <1>6. ASSUME NEW d \in 0 .. m - 1, d \in T PROVE d + 1 \in T
    <2>1. (f + 1) + d \in 1 .. n /\ ((f + 1) + d) + 1 = (f + 1) + (d + 1)
      BY <1>1, <1>4
    <2>2. to((f + 1) + (d + 1)) = to((f + 1) + d) + lay[(f + 1) + d] /\ lay[(f + 1) + d] \in Nat
      BY <1>3, <2>1
    <2>3. to((f + 1) + d) \in Nat /\ to(f + 1) \in Nat /\ to(f + 1) <= to((f + 1) + d)
      BY <1>1, <1>2, <1>6, <2>1
    <2> QED
      BY <2>2, <2>3
  <1> HIDE DEF T
  <1>7. m \in T
    <2>1. m \in 0 .. m
      BY <1>4
    <2> QED
      BY <1>4, <1>5, <1>6, <2>1, InductionTo
  <1>8. to(f + 1) <= to(g)
    <2>1. (f + 1) + m = g
      BY <1>1, <1>4
    <2> QED
      BY <1>7, <2>1 DEF T
  <1> QED
    BY <1>1, <1>3, <1>8 DEF to

LEMMA TotalFacts ==
    ASSUME NEW lay \in Layouts
    PROVE  /\ TotalLength(lay) \in Nat
           /\ \A f \in 1 .. Len(lay) : TorrentOffset(lay, f) + lay[f] <= TotalLength(lay)
  <1>1. Len(lay) \in Nat
    BY LayoutType
  <1>2. Len(lay) + 1 \in 1 .. Len(lay) + 1 /\ \A f \in 1 .. Len(lay) : Len(lay) + 1 \in f + 1 .. Len(lay) + 1
    BY <1>1
  <1> QED
    BY <1>2, OffsetFacts, OffsetsOrdered DEF TotalLength

\* A piece lies within the torrent and is not empty.
End(lay, p) == PieceOffset(p) + PieceSize(lay, p)

LEMMA PieceFacts ==
    ASSUME NEW lay \in Layouts, NEW p \in Pieces(lay)
    PROVE  /\ PieceOffset(p) \in Nat /\ PieceSize(lay, p) \in Nat \ {0}
           /\ PieceOffset(p) < TotalLength(lay) /\ End(lay, p) <= TotalLength(lay)
           /\ PieceSize(lay, p) <= PieceLength
  <1>1. TotalLength(lay) \in Nat /\ PieceLength \in Nat \ {0}
    BY TotalFacts, StorageAssumption
  <1>2. p \in Nat /\ PieceOffset(p) < TotalLength(lay)
    BY <1>1 DEF Pieces, PieceOffset
  <1>3. PieceOffset(p) \in Nat
    BY <1>1, <1>2 DEF PieceOffset
  <1>4. PieceSize(lay, p) = IF PieceLength <= TotalLength(lay) - PieceOffset(p)
                            THEN PieceLength ELSE TotalLength(lay) - PieceOffset(p)
    BY <1>1, <1>3, MinOfTwo DEF PieceSize
  <1> QED
    BY <1>1, <1>2, <1>3, <1>4 DEF End

\* What the cells of a piece are, by file and place.
Position(lay, c) == TorrentOffset(lay, c[1]) + c[2]

LEMMA CellFacts ==
    ASSUME NEW lay \in Layouts, NEW c \in Cells(lay)
    PROVE  /\ c[1] \in 1 .. Len(lay) /\ c[2] \in Nat /\ c[2] < lay[c[1]] /\ c = <<c[1], c[2]>>
           /\ Position(lay, c) \in Nat
  <1>1. PICK f \in DOMAIN lay : lay[f] > 0 /\ c \in {f} \X (0 .. lay[f] - 1)
    BY DEF Cells
  <1>2. f \in 1 .. Len(lay) /\ lay[f] \in Nat /\ Len(lay) \in Nat
    BY LayoutType
  <1>3. c[1] = f /\ c[2] \in 0 .. lay[f] - 1 /\ c = <<c[1], c[2]>>
    BY <1>1
  <1>4. TorrentOffset(lay, f) \in Nat
    BY <1>2, OffsetFacts
  <1> QED
    BY <1>2, <1>3, <1>4 DEF Position

-----------------------------------------------------------------------------
(* Writing a piece, file by file *)

\* How far the write of piece p has come: the cells before offset are stored,
\* and the files from the one offset lies in to the end of the piece are left.
Progress(lay, p, offset, remaining, slices, st) ==
    /\ p \in Pieces(lay) /\ offset \in Nat /\ remaining \in Nat \ {0}
    /\ offset + remaining = End(lay, p)
    /\ \E h \in 1 .. Len(lay) :
          /\ slices = {g \in 1 .. Len(lay) : g >= h /\ TorrentOffset(lay, g) < End(lay, p)}
          /\ TorrentOffset(lay, h) <= offset /\ offset <= TorrentOffset(lay, h) + lay[h]
    /\ \A c \in PieceCells(lay, p) : Position(lay, c) < offset => c \in st

\* The first file is the one the piece begins in.
LEMMA WriteBegins ==
    ASSUME NEW lay \in Layouts, NEW p \in Pieces(lay), NEW st
    PROVE  Progress(lay, p, PieceOffset(p), PieceSize(lay, p),
                    SlicesFor(lay, PieceOffset(p), PieceSize(lay, p)), st)
  <1> DEFINE to(f) == TorrentOffset(lay, f)
             off == PieceOffset(p)
             end == End(lay, p)
             I == {f \in 1 .. Len(lay) : to(f) + lay[f] > off}
  <1>1. PICK n \in Nat : n = Len(lay)
    BY LayoutType
  <1>2. /\ to(1) = 0 /\ \A f \in 1 .. n + 1 : to(f) \in Nat
        /\ \A f \in 1 .. n : to(f + 1) = to(f) + lay[f] /\ lay[f] \in Nat
        /\ \A f \in 1 .. n : \A g \in f + 1 .. n + 1 : to(f) + lay[f] <= to(g)
    BY <1>1, OffsetFacts, OffsetsOrdered, LayoutType
  <1>3. /\ off \in Nat /\ PieceSize(lay, p) \in Nat \ {0} /\ end = off + PieceSize(lay, p)
        /\ off < to(n + 1)
    BY <1>1, PieceFacts DEF End, TotalLength
  <1>4. DOMAIN lay = 1 .. n
    BY <1>1, LayoutType
  <1> HIDE DEF to, off, end
  <1>5. n \in I
    <2>1. n # 0
      BY <1>1, <1>2, <1>3
    <2> QED
      BY <1>1, <1>2, <1>3, <2>1
  <1>6. PICK h \in I : \A f \in I : h <= f
    <2>1. I \in SUBSET Nat
      BY <1>1
    <2> HIDE DEF I
    <2> QED
      BY <1>5, <2>1, LeastNumber
  <1>7. to(h) <= off
    <2>1. CASE h = 1
      BY <1>2, <1>3, <2>1
    <2>2. CASE h # 1
      <3>1. h - 1 \in 1 .. n /\ (h - 1) + 1 = h /\ ~(h - 1 \in I)
        BY <1>1, <1>6, <2>2
      <3>2. to(h - 1) + lay[h - 1] = to(h) /\ to(h) \in Nat
        BY <1>2, <3>1
      <3> QED
        BY <1>1, <1>3, <3>1, <3>2
    <2> QED
      BY <2>1, <2>2
  <1>8. h \in 1 .. n /\ to(h) + lay[h] > off /\ to(h) \in Nat /\ lay[h] \in Nat
    BY <1>1, <1>2
  <1>9. ASSUME NEW g \in 1 .. n PROVE to(g) + lay[g] > off <=> g >= h
    <2>1. CASE g > h
      <3>1. g \in h + 1 .. n + 1
        BY <1>1, <1>8, <2>1
      <3>2. to(h) + lay[h] <= to(g) /\ to(g) \in Nat /\ lay[g] \in Nat
        BY <1>1, <1>2, <1>8, <3>1
      <3> QED
        BY <1>3, <1>8, <2>1, <3>2
    <2>2. CASE g = h
      BY <1>8, <2>2
    <2>3. CASE g < h
      BY <1>1, <1>6, <1>8, <2>3
    <2> QED
      BY <1>8, <2>1, <2>2, <2>3
  <1>10. SlicesFor(lay, off, PieceSize(lay, p)) = {g \in 1 .. n : g >= h /\ to(g) < end}
    <2>1. SlicesFor(lay, off, PieceSize(lay, p))
            = {g \in 1 .. n : to(g) < end /\ to(g) + lay[g] > off}
      BY <1>3, <1>4 DEF SlicesFor, to
    <2> QED
      BY <1>9, <2>1
  <1>11. \A c \in PieceCells(lay, p) : ~(Position(lay, c) < off)
    <2> SUFFICES ASSUME NEW c \in PieceCells(lay, p) PROVE ~(Position(lay, c) < off)
      OBVIOUS
    <2>1. c \in Cells(lay) /\ Position(lay, c) >= off
      BY <1>3 DEF PieceCells, Position, off
    <2>2. Position(lay, c) \in Nat
      BY <2>1, CellFacts
    <2> QED
      BY <1>3, <2>1, <2>2
  <1> QED
    BY <1>1, <1>3, <1>7, <1>8, <1>10, <1>11 DEF Progress, off, end, to

\* A turn of the loop: if it is the last the whole piece is stored, else the
\* write has come further.
LEMMA WriteGoesOn ==
    ASSUME NEW lay \in Layouts, NEW p, NEW offset, NEW remaining, NEW slices, NEW st,
           Progress(lay, p, offset, remaining, slices, st),
           NEW h, h = Min(slices),
           NEW n, n = ChunkLength(lay, h, offset, remaining),
           NEW C, C = Chunk(lay, h, offset, remaining)
    PROVE  /\ C \subseteq Cells(lay)
           /\ slices = {h} \/ remaining <= n => PieceCells(lay, p) \subseteq st \cup C
           /\ ~(slices = {h} \/ remaining <= n) =>
                 Progress(lay, p, offset + n, remaining - n, slices \ {h}, st \cup C)
  <1> DEFINE to(f) == TorrentOffset(lay, f)
             end == End(lay, p)
             len == Len(lay)
  <1>1. /\ len \in Nat /\ DOMAIN lay = 1 .. len
        /\ \A f \in 1 .. len + 1 : to(f) \in Nat
        /\ \A f \in 1 .. len : to(f + 1) = to(f) + lay[f] /\ lay[f] \in Nat
        /\ \A f \in 1 .. len : \A g \in f + 1 .. len + 1 : to(f) + lay[f] <= to(g)
    BY OffsetFacts, OffsetsOrdered, LayoutType
  <1>2. /\ p \in Pieces(lay) /\ offset \in Nat /\ remaining \in Nat \ {0}
        /\ offset + remaining = end
        /\ \A c \in PieceCells(lay, p) : Position(lay, c) < offset => c \in st
    BY DEF Progress
  <1>3. PICK k \in 1 .. len :
           /\ slices = {g \in 1 .. len : g >= k /\ to(g) < end}
           /\ to(k) <= offset /\ offset <= to(k) + lay[k]
    BY DEF Progress
  <1>4. end \in Nat /\ end <= to(len + 1)
    BY <1>2, PieceFacts DEF TotalLength, End
  <1> HIDE DEF to, end, len
  <1>5. k = h
    <2>1. k \in slices
      BY <1>1, <1>2, <1>3, <1>4
    <2>2. slices \in SUBSET Nat
      BY <1>1, <1>3
    <2>3. h \in slices /\ h <= k
      BY <2>1, <2>2, MinFacts
    <2> QED
      BY <1>1, <1>3, <2>3
  <1>6. h \in 1 .. len /\ to(h) \in Nat /\ lay[h] \in Nat /\ to(h) <= offset /\ offset <= to(h) + lay[h]
    <2>1. k \in 1 .. len /\ k \in 1 .. len + 1
      BY <1>1
    <2>2. to(k) \in Nat /\ lay[k] \in Nat
      BY <1>1, <2>1
    <2> QED
      BY <1>3, <1>5, <2>1, <2>2
  <1>7. PICK into \in Nat : into = offset - to(h) /\ into = IntoSlice(lay, h, offset)
    <2>1. IntoSlice(lay, h, offset) = offset - to(h)
      BY <1>2, <1>6, MaxOfTwo DEF IntoSlice, to
    <2> QED
      BY <1>2, <1>6, <2>1
  <1>8. n = IF remaining <= lay[h] - into THEN remaining ELSE lay[h] - into
    BY <1>2, <1>6, <1>7, MinOfTwo DEF ChunkLength
  <1>9. n \in Nat /\ into + n <= lay[h]
    BY <1>2, <1>6, <1>7, <1>8
  <1>10. C = {h} \X (into .. into + n - 1)
    BY <1>7 DEF Chunk
  <1>11. C \subseteq Cells(lay)
    <2> SUFFICES ASSUME NEW x \in into .. into + n - 1 PROVE <<h, x>> \in Cells(lay)
      BY <1>10
    <2>1. lay[h] > 0 /\ x \in 0 .. lay[h] - 1
      BY <1>6, <1>7, <1>9
    <2>2. h \in {g \in DOMAIN lay : lay[g] > 0} /\ <<h, x>> \in {h} \X (0 .. lay[h] - 1)
      BY <1>1, <1>6, <2>1
    <2> QED
      BY <2>2 DEF Cells
  <1>12. ASSUME NEW c \in PieceCells(lay, p), Position(lay, c) < offset + n
         PROVE  c \in st \cup C
    <2>1. c \in Cells(lay)
      BY DEF PieceCells
    <2>2. PICK f \in 1 .. len, x \in Nat :
             c = <<f, x>> /\ x < lay[f] /\ Position(lay, c) = to(f) + x
      BY <2>1, CellFacts DEF Position, len, to
    <2>3. CASE to(f) + x < offset
      BY <1>2, <2>2, <2>3
    <2>4. CASE ~(to(f) + x < offset)
      <3>1. to(f) \in Nat /\ lay[f] \in Nat
        BY <1>1, <2>2
      <3>2. ~(f < h)
        <4> SUFFICES ASSUME f < h PROVE FALSE
          OBVIOUS
        <4>0. len \in Nat /\ h \in 1 .. len
          BY <1>1, <1>6
        <4>1. h \in f + 1 .. len + 1
          BY <4>0
        <4>2. to(f) + lay[f] <= to(h)
          BY <1>1, <4>1
        <4> QED
          BY <1>2, <1>6, <2>2, <2>4, <3>1, <4>2
      <3>3. ~(f > h)
        <4> SUFFICES ASSUME f > h PROVE FALSE
          OBVIOUS
        <4>1. f \in h + 1 .. len + 1
          BY <1>1, <1>6
        <4>2. to(h) + lay[h] <= to(f)
          BY <1>1, <1>6, <4>1
        <4>3. offset + n <= to(h) + lay[h]
          BY <1>2, <1>6, <1>7, <1>9
        <4> QED
          BY <1>2, <1>6, <1>9, <1>12, <2>2, <3>1, <4>2, <4>3
      <3>4. f = h
        BY <1>1, <1>6, <2>2, <3>2, <3>3
      <3>5. x \in into .. into + n - 1
        BY <1>2, <1>6, <1>7, <1>9, <1>12, <2>2, <2>4, <3>4
      <3> QED
        BY <1>10, <2>2, <3>4, <3>5
    <2> QED
      BY <2>3, <2>4
  \* A file that is left out, or left over, begins where this one ends.
  <1>13. n < remaining => /\ offset + n = to(h + 1) /\ h + 1 \in 1 .. len
                          /\ h + 1 \in slices
    <2> SUFFICES ASSUME n < remaining PROVE offset + n = to(h + 1) /\ h + 1 \in 1 .. len /\ h + 1 \in slices
      OBVIOUS
    <2>1. to(h + 1) = to(h) + lay[h] /\ offset + n = to(h + 1)
      BY <1>1, <1>2, <1>6, <1>7, <1>8
    <2>2. to(h + 1) < end
      BY <1>2, <1>9, <2>1
    <2>3. h # len
      BY <1>1, <1>2, <1>4, <1>9, <2>1, <2>2
    <2>4. h + 1 \in 1 .. len
      <3>1. len \in Nat /\ h \in 1 .. len
        BY <1>1, <1>6
      <3> QED
        BY <2>3, <3>1
    <2> QED
      BY <1>3, <1>5, <2>1, <2>2, <2>4
  <1>14. ASSUME slices = {h} \/ remaining <= n PROVE PieceCells(lay, p) \subseteq st \cup C
    <2>1. n = remaining
      <3>1. ~(n < remaining)
        BY <1>2, <1>6, <1>9, <1>13, <1>14
      <3> QED
        BY <1>2, <1>6, <1>7, <1>8, <1>9, <3>1
    <2> SUFFICES ASSUME NEW c \in PieceCells(lay, p) PROVE Position(lay, c) < offset + n
      BY <1>12
    <2>2. Position(lay, c) \in PieceOffset(p) .. end - 1
      <3>1. Position(lay, c) \in PieceOffset(p) .. PieceOffset(p) + PieceSize(lay, p) - 1
        BY DEF PieceCells, Position
      <3>2. PieceOffset(p) \in Nat /\ PieceSize(lay, p) \in Nat
        BY <1>2, PieceFacts
      <3>3. end = PieceOffset(p) + PieceSize(lay, p)
        BY DEF end, End
      <3> QED
        BY <3>1, <3>2, <3>3
    <2>3. PieceOffset(p) \in Nat
      BY <1>2, PieceFacts
    <2> QED
      BY <1>2, <1>4, <2>1, <2>2, <2>3
  <1>15. ASSUME ~(slices = {h} \/ remaining <= n)
         PROVE  Progress(lay, p, offset + n, remaining - n, slices \ {h}, st \cup C)
    <2>1. n < remaining
      BY <1>2, <1>9, <1>15
    <2>2. /\ h + 1 \in 1 .. len /\ to(h + 1) = offset + n /\ to(h + 1) \in Nat
          /\ lay[h + 1] \in Nat
      BY <1>1, <1>13, <2>1
    <2>3. slices \ {h} = {g \in 1 .. len : g >= h + 1 /\ to(g) < end}
      <3>1. len \in Nat /\ h \in 1 .. len
        BY <1>1, <1>6
      <3>2. \A g \in 1 .. len : g >= h /\ g # h <=> g >= h + 1
        BY <3>1
      <3>3. slices = {g \in 1 .. len : g >= h /\ to(g) < end}
        BY <1>3, <1>5
      <3> QED
        BY <3>2, <3>3
    <2>4. to(h + 1) <= offset + n /\ offset + n <= to(h + 1) + lay[h + 1]
      BY <2>2
    <2>5. /\ offset + n \in Nat /\ remaining - n \in Nat \ {0}
          /\ (offset + n) + (remaining - n) = end
      BY <1>2, <1>9, <2>1
    <2> QED
      BY <1>2, <1>12, <2>2, <2>3, <2>4, <2>5 DEF Progress, to, end, len
  <1> QED
    BY <1>11, <1>14, <1>15

\* What is stored only grows while a piece is written.
LEMMA ProgressStays ==
    ASSUME NEW lay, NEW p, NEW offset, NEW remaining, NEW slices, NEW st,
           NEW more, st \subseteq more,
           Progress(lay, p, offset, remaining, slices, st)
    PROVE  Progress(lay, p, offset, remaining, slices, more)
  BY DEF Progress

-----------------------------------------------------------------------------
(* The inductive invariant: writes *)

\* The pieces being written are on their way, each thread has the chunk its task
\* waits for, and the task that waits for a save is the one it will wake.
Writing ==
    /\ \A t \in Tasks : task[t].pc \in {"wait", "job"} =>
          Progress(layout, task[t].piece, task[t].offset, task[t].remaining, task[t].slices, stored)
    /\ \A j \in jobs : j.by \in Tasks =>
          j.cells = Chunk(layout, FileOf(j.by), task[j.by].offset, task[j.by].remaining)
    /\ \A i \in Saves : save[i].by \in Tasks => task[save[i].by].pc = "save"
    /\ \A i, k \in Saves : save[i].by \in Tasks /\ save[k].by = save[i].by => k = i

\* Nothing of a process that has died goes on.
Down ==
    phase = "down" => /\ have = {} /\ jobs = {}
                      /\ \A t \in Tasks : task[t] = Idle
                      /\ \A i \in Saves : save[i] = NoSave

WInv == TypeOK /\ Writing /\ Down /\ HeldIsStored

(* The inductive invariant: saves *)

\* A save names pieces that are held; one that has been alone all the time has
\* the .tmp file for itself; and a save that was not ends what was promised.
Saving ==
    /\ \A i \in Saves : save[i].names \subseteq have
    /\ \A i \in Saves : save[i].alone =>
          /\ \A k \in Saves : k # i => save[k] = NoSave
          /\ save[i].step = "opened"  => save[i].file = "tmp" /\ tmp = Torn
          /\ save[i].step = "written" => tmp = Whole(save[i].names)
    /\ \A i \in Saves : save[i] = NoSave \/ save[i].alone \/ promised = {}

\* What is promised is on the disk, and the resume file leads to it: it names
\* it, or names nothing, so that all is checked.
Promised ==
    /\ promised \subseteq Stored
    /\ Named = {} \/ promised \subseteq Named
    /\ phase = "checking" => promised \subseteq have \cup toCheck
    /\ SavedIsFound

IInv == WInv /\ Saving /\ Promised

-----------------------------------------------------------------------------
(* Writes preserve their invariant *)

LEMMA StoredGrows ==
    ASSUME layout' = layout, stored \subseteq stored'
    PROVE  Stored \subseteq Stored'
  BY DEF Stored

\* The thread of a task is the only one, and has the chunk it waits for.
LEMMA JobFacts ==
    ASSUME WInv, NEW j \in jobs, j.by \in Tasks
    PROVE  /\ lock = j.by /\ task[j.by].pc = "job"
           /\ j.cells = Chunk(layout, FileOf(j.by), task[j.by].offset, task[j.by].remaining)
           /\ \A k \in jobs : k.by \in Tasks => k = j
  <1>1. \A k \in jobs : k.by \in Tasks => lock = k.by
    BY DEF WInv, TypeOK
  <1>2. lock = j.by /\ task[j.by].pc = "job"
    BY DEF WInv, TypeOK
  <1>3. \A k \in jobs : k.by \in Tasks =>
           k.cells = Chunk(layout, FileOf(k.by), task[k.by].offset, task[k.by].remaining)
    BY DEF WInv, Writing
  <1>4. \A k \in jobs : k.by \in Tasks => k.by = j.by /\ k.cells = j.cells
    BY <1>1, <1>3
  <1>5. \A k \in jobs : k = [by |-> k.by, cells |-> k.cells]
    BY DEF WInv, TypeOK
  <1> QED
    BY <1>2, <1>3, <1>4, <1>5

\* What a turn of the loop comes to.
LEMMA TurnFacts ==
    ASSUME WInv, NEW t \in Tasks, task[t].pc \in {"wait", "job"},
           NEW C, C = Chunk(layout, FileOf(t), task[t].offset, task[t].remaining)
    PROVE  /\ task[t].piece \in Pieces(layout) /\ C \subseteq Cells(layout)
           /\ LastSlice(t) => PieceCells(layout, task[t].piece) \subseteq stored \cup C
           /\ ~ LastSlice(t) =>
                 Progress(layout, task[t].piece, task[t].offset + ChunkOf(t),
                          task[t].remaining - ChunkOf(t), task[t].slices \ {FileOf(t)},
                          stored \cup C)
  <1>1. /\ layout \in Layouts
        /\ Progress(layout, task[t].piece, task[t].offset, task[t].remaining, task[t].slices, stored)
    BY DEF WInv, TypeOK, Writing
  <1>2. task[t].piece \in Pieces(layout)
    BY <1>1 DEF Progress
  <1> DEFINE w == task[t]
             h == FileOf(t)
             n == ChunkOf(t)
  <1>3. /\ h = Min(w.slices) /\ n = ChunkLength(layout, h, w.offset, w.remaining)
        /\ LastSlice(t) <=> w.slices = {h} \/ w.remaining <= n
    BY DEF FileOf, ChunkOf, LastSlice
  <1> HIDE DEF h, n
  <1>4. /\ C \subseteq Cells(layout)
        /\ w.slices = {h} \/ w.remaining <= n => PieceCells(layout, w.piece) \subseteq stored \cup C
        /\ ~(w.slices = {h} \/ w.remaining <= n) =>
              Progress(layout, w.piece, w.offset + n, w.remaining - n, w.slices \ {h}, stored \cup C)
    <2>1. C = Chunk(layout, h, w.offset, w.remaining)
      BY DEF h
    <2> HIDE DEF w
    <2>2. Progress(layout, w.piece, w.offset, w.remaining, w.slices, stored)
      BY <1>1 DEF w
    <2> QED
      BY <1>1, <1>3, <2>1, <2>2, WriteGoesOn
  <1> QED
    BY <1>2, <1>3, <1>4 DEF h, n

LEMMA ClientWrites ==
    ASSUME WInv, Register \/ CheckResume \/ CheckPiece \/ Checked
    PROVE  WInv'
  <1> USE DEF WInv
  <1>1. /\ UNCHANGED <<layout, stored, jobs, task, lock, save, tmp, final, promised>>
        /\ phase' \in {"up", "checking", "checked"}
    BY DEF Register, CheckResume, CheckPiece, Checked, disk, files, TypeOK
  <1>2. Stored' = Stored
    BY <1>1 DEF Stored
  <1>3. have' \subseteq Pieces(layout) /\ toCheck' \subseteq Pieces(layout) /\ have' \subseteq Stored
    <2>1. CASE Register \/ CheckResume \/ Checked
      BY <2>1 DEF Register, CheckResume, Checked, TypeOK, HeldIsStored, ToCheck, Named,
                  Whole, Torn, NoFile
    <2>2. CASE CheckPiece
      <3>1. have \subseteq Stored /\ Stored \subseteq Pieces(layout)
        BY DEF HeldIsStored, Stored
      <3>2. have' \subseteq have \cup Stored /\ toCheck' \subseteq toCheck
        BY <2>2 DEF CheckPiece
      <3> QED
        BY <3>1, <3>2 DEF TypeOK
    <2> QED
      BY <2>1, <2>2
  <1>4. TypeOK'
    BY <1>1, <1>3 DEF TypeOK, TaskType, SaveType
  <1>5. Writing'
    BY <1>1 DEF Writing, FileOf
  <1>6. Down' /\ HeldIsStored'
    BY <1>1, <1>2, <1>3 DEF Down, HeldIsStored
  <1> QED
    BY <1>4, <1>5, <1>6

LEMMA WritePieceWrites ==
    ASSUME WInv, NEW t \in Tasks, NEW p \in Pieces(layout), WritePiece(t, p)
    PROVE  WInv'
  <1> USE DEF WInv
  <1> DEFINE off == PieceOffset(p)
             size == PieceSize(layout, p)
             sl == SlicesFor(layout, off, size)
             w == [pc |-> "wait", piece |-> p, offset |-> off, remaining |-> size, slices |-> sl]
  <1>1. /\ phase # "down" /\ task[t] = Idle /\ task' = [task EXCEPT ![t] = w]
        /\ UNCHANGED <<layout, phase, have, toCheck, lock, stored, jobs, save, tmp, final, promised>>
    BY DEF WritePiece, disk, files
  <1>2. layout \in Layouts /\ p \in Nat /\ off \in Nat /\ size \in Nat
    BY PieceFacts DEF TypeOK, Pieces
  <1>3. sl \in SUBSET Nat
    BY <1>2, LayoutType DEF SlicesFor
  <1>4. Progress(layout, p, off, size, sl, stored)
    BY <1>2, WriteBegins
  <1> HIDE DEF off, size, sl
  <1>5. /\ task' \in TaskType
        /\ task'[t] = w /\ \A u \in Tasks : u # t => task'[u] = task[u]
    BY <1>1, <1>2, <1>3 DEF TypeOK, TaskType
  <1>6. lock # t /\ task[t].pc = "idle"
    BY <1>1 DEF TypeOK, Idle
  <1>7. TypeOK'
    BY <1>1, <1>5, <1>6 DEF TypeOK, TaskType, SaveType
  <1>8. \A j \in jobs : j.by # t
    BY <1>6 DEF TypeOK, TaskType, SaveType
  <1>9. \A i \in Saves : save[i].by # t
    BY <1>6 DEF Writing
  <1>10. Writing'
    <2>1. ASSUME NEW u \in Tasks, task'[u].pc \in {"wait", "job"}
          PROVE  Progress(layout, task'[u].piece, task'[u].offset, task'[u].remaining,
                          task'[u].slices, stored)
      BY <1>4, <1>5, <2>1 DEF Writing
    <2>2. ASSUME NEW j \in jobs, j.by \in Tasks
          PROVE  j.cells = Chunk(layout, Min(task'[j.by].slices), task'[j.by].offset,
                                 task'[j.by].remaining)
      BY <1>5, <1>8, <2>2 DEF Writing, FileOf
    <2>3. ASSUME NEW i \in Saves, save[i].by \in Tasks
          PROVE  task'[save[i].by].pc = "save"
      BY <1>5, <1>9, <2>3 DEF Writing
    <2> QED
      BY <1>1, <2>1, <2>2, <2>3 DEF Writing, FileOf
  <1> QED
    BY <1>1, <1>7, <1>10 DEF Down, HeldIsStored, Stored

LEMMA AcquireWrites ==
    ASSUME WInv, NEW t \in Tasks, AcquireLock(t)
    PROVE  WInv'
  <1> USE DEF WInv
  <1> DEFINE C == Chunk(layout, FileOf(t), task[t].offset, task[t].remaining)
             job == [by |-> t, cells |-> C]
  <1>1. /\ task[t].pc = "wait" /\ lock = NoTask /\ lock' = t
        /\ task' = [task EXCEPT ![t].pc = "job"] /\ jobs' = jobs \cup {job}
        /\ UNCHANGED <<layout, stored, phase, have, toCheck, save, tmp, final, promised>>
    BY DEF AcquireLock, files
  <1>2. C \subseteq Cells(layout)
    BY <1>1, TurnFacts
  <1> HIDE DEF C
  <1>3. /\ task' \in TaskType
        /\ task'[t].pc = "job"
        /\ \A u \in Tasks : u # t => task'[u] = task[u]
    BY <1>1 DEF TypeOK, TaskType
  <1>4. \A u \in Tasks : /\ task'[u].piece = task[u].piece /\ task'[u].offset = task[u].offset
                         /\ task'[u].remaining = task[u].remaining
                         /\ task'[u].slices = task[u].slices
    BY <1>1 DEF TypeOK
  <1>5. \A u \in Tasks : task[u].pc # "job"
    BY <1>1, ResumeAssumption DEF TypeOK
  <1>6. \A j \in jobs : j.by \notin Tasks
    BY <1>1, ResumeAssumption DEF TypeOK
  <1>7. job \in [by : Tasks \cup {NoTask}, cells : SUBSET Cells(layout)] /\ job.by = t
    BY <1>2
  <1>8. TypeOK'
    <2>1. \A u \in Tasks : lock' = u <=> task'[u].pc = "job"
      BY <1>1, <1>3, <1>5
    <2>2. \A u \in Tasks : lock' = u <=> \E j \in jobs' : j.by = u
      BY <1>1, <1>6, <1>7
    <2> QED
      BY <1>1, <1>3, <1>7, <2>1, <2>2 DEF TypeOK, TaskType, SaveType
  <1>9. Writing'
    <2>1. ASSUME NEW u \in Tasks, task'[u].pc \in {"wait", "job"}
          PROVE  Progress(layout, task'[u].piece, task'[u].offset, task'[u].remaining,
                          task'[u].slices, stored)
      <3>1. task[u].pc \in {"wait", "job"}
        BY <1>1, <1>3, <2>1
      <3> QED
        BY <1>4, <3>1 DEF Writing
    <2>2. ASSUME NEW j \in jobs', j.by \in Tasks
          PROVE  j.cells = Chunk(layout, Min(task'[j.by].slices), task'[j.by].offset,
                                 task'[j.by].remaining)
      <3>1. j = job
        BY <1>1, <1>6, <2>2
      <3> QED
        BY <1>4, <3>1 DEF C, FileOf
    <2>3. ASSUME NEW i \in Saves, save[i].by \in Tasks
          PROVE  task'[save[i].by].pc = "save"
      BY <1>1, <1>3, <2>3 DEF Writing
    <2> QED
      BY <1>1, <2>1, <2>2, <2>3 DEF Writing, FileOf
  <1>10. Down'
    BY <1>1 DEF Down, Idle
  <1> QED
    BY <1>1, <1>8, <1>9, <1>10 DEF HeldIsStored, Stored

\* A thread ends whose task was cancelled, having written some of its chunk.
LEMMA OrphanWrites ==
    ASSUME WInv, NEW j \in jobs, j.by = NoTask, NEW S \in SUBSET j.cells,
           jobs' = jobs \ {j}, stored' = stored \cup S,
           UNCHANGED <<layout, phase, have, toCheck, task, lock, save, files, promised>>
    PROVE  WInv'
  <1> USE DEF WInv
  <1>1. /\ UNCHANGED <<layout, phase, have, toCheck, task, lock, save, tmp, final, promised>>
        /\ S \subseteq Cells(layout) /\ stored \subseteq stored'
    BY DEF files, TypeOK
  <1>2. \A u \in Tasks : (\E k \in jobs : k.by = u) <=> (\E k \in jobs' : k.by = u)
    BY ResumeAssumption
  <1>3. TypeOK'
    BY <1>1, <1>2 DEF TypeOK, TaskType, SaveType
  <1>4. Writing'
    <2>1. ASSUME NEW u \in Tasks, task[u].pc \in {"wait", "job"}
          PROVE  Progress(layout, task[u].piece, task[u].offset, task[u].remaining,
                          task[u].slices, stored')
      <3>1. Progress(layout, task[u].piece, task[u].offset, task[u].remaining,
                     task[u].slices, stored)
        BY <2>1 DEF Writing
      <3> QED
        BY <1>1, <3>1, ProgressStays
    <2> QED
      BY <1>1, <2>1 DEF Writing, FileOf
  <1>5. HeldIsStored'
    BY <1>1, StoredGrows DEF HeldIsStored
  <1> QED
    BY <1>1, <1>3, <1>4, <1>5 DEF Down

\* The job of a task ends, having written some of its chunk, and the lock is
\* free again: the task goes on, is done, or has failed.
LEMMA JobEnds ==
    ASSUME WInv, NEW t \in Tasks, NEW j \in jobs, j.by = t, NEW S \in SUBSET j.cells,
           jobs' = jobs \ {j}, stored' = stored \cup S, lock' = NoTask,
           UNCHANGED <<layout, phase, toCheck>>,
           task' \in TaskType,
           \A u \in Tasks : u # t => task'[u] = task[u],
           task'[t].pc # "job",
           task'[t].pc = "wait" =>
              Progress(layout, task'[t].piece, task'[t].offset, task'[t].remaining,
                       task'[t].slices, stored'),
           have' \subseteq Stored',
           save' \in SaveType',
           \A i \in Saves : \/ save'[i].by = save[i].by
                            \/ save'[i].by = t /\ task'[t].pc = "save",
           \A i, k \in Saves : save'[i].by = t /\ save'[k].by = t => k = i,
           UNCHANGED files, promised' \subseteq Pieces(layout)
    PROVE  WInv'
  <1> USE DEF WInv
  <1>1. /\ lock = t /\ task[t].pc = "job" /\ \A k \in jobs : k.by \in Tasks => k = j
        /\ phase # "down"
    BY JobFacts DEF Down
  <1>2. S \subseteq Cells(layout) /\ stored \subseteq stored' /\ tmp' = tmp /\ final' = final
    BY DEF files, TypeOK
  <1>3. \A k \in jobs' : k.by \notin Tasks
    BY <1>1
  <1>4. \A u \in Tasks : task'[u].pc # "job"
    BY <1>1 DEF TypeOK
  <1>5. have' \subseteq Pieces(layout)
    BY DEF Stored
  <1>6. TypeOK'
    <2>1. \A u \in Tasks : lock' = u <=> task'[u].pc = "job"
      BY <1>4, ResumeAssumption
    <2>2. \A u \in Tasks : lock' = u <=> \E k \in jobs' : k.by = u
      BY <1>3, ResumeAssumption
    <2>3. jobs' \subseteq [by : Tasks \cup {NoTask}, cells : SUBSET Cells(layout)]
      BY DEF TypeOK
    <2> QED
      BY <1>2, <1>5, <2>1, <2>2, <2>3 DEF TypeOK
  <1>7. \A i \in Saves : save[i].by # t
    BY <1>1 DEF Writing
  <1>8. Writing'
    <2>1. ASSUME NEW u \in Tasks, task'[u].pc \in {"wait", "job"}
          PROVE  Progress(layout, task'[u].piece, task'[u].offset, task'[u].remaining,
                          task'[u].slices, stored')
      <3>1. CASE u = t
        BY <2>1, <3>1
      <3>2. CASE u # t
        <4>1. /\ task'[u] = task[u]
              /\ Progress(layout, task[u].piece, task[u].offset, task[u].remaining,
                          task[u].slices, stored)
          BY <2>1, <3>2 DEF Writing
        <4>2. Progress(layout, task[u].piece, task[u].offset, task[u].remaining,
                       task[u].slices, stored')
          BY <1>2, <4>1, ProgressStays
        <4> QED
          BY <4>1, <4>2
      <3> QED
        BY <3>1, <3>2
    <2>2. ASSUME NEW i \in Saves, save'[i].by \in Tasks
          PROVE  task'[save'[i].by].pc = "save"
      BY <1>7, <2>2 DEF Writing
    <2>3. \A i, k \in Saves : save'[i].by \in Tasks /\ save'[k].by = save'[i].by => k = i
      BY <1>7 DEF Writing
    <2> QED
      BY <1>3, <2>1, <2>2, <2>3 DEF Writing
  <1> QED
    BY <1>1, <1>6, <1>8 DEF Down, HeldIsStored

LEMMA JobFailsWrites ==
    ASSUME WInv, NEW j \in jobs, JobFails(j)
    PROVE  WInv'
  <1>1. PICK S \in SUBSET j.cells : stored' = stored \cup S
    BY DEF JobFails
  <1>2. /\ jobs' = jobs \ {j}
        /\ UNCHANGED <<layout, phase, have, toCheck, save, files, promised>>
    BY DEF JobFails
  <1>3. CASE j.by = NoTask
    <2>1. UNCHANGED <<layout, phase, have, toCheck, task, lock, save, files, promised>>
      BY <1>2, <1>3 DEF JobFails
    <2> QED
      BY <1>1, <1>2, <1>3, <2>1, OrphanWrites
  <1>4. CASE j.by # NoTask
    <2>1. /\ j.by \in Tasks /\ lock' = NoTask
          /\ task' = [task EXCEPT ![j.by] = Idle]
      BY <1>4 DEF JobFails, WInv, TypeOK
    <2>2. /\ task' \in TaskType
          /\ \A u \in Tasks : u # j.by => task'[u] = task[u]
          /\ task'[j.by].pc = "idle"
      BY <2>1 DEF WInv, TypeOK, TaskType, Idle
    <2>3. /\ save' \in SaveType'
          /\ \A i \in Saves : save'[i].by = save[i].by
          /\ promised' \subseteq Pieces(layout)
      BY <1>2 DEF WInv, TypeOK, SaveType
    <2>4. have' \subseteq Stored'
      BY <1>1, <1>2, StoredGrows DEF WInv, HeldIsStored
    <2>5. \A i \in Saves : save'[i].by # j.by
      BY <2>1, <2>3, JobFacts DEF WInv, Writing
    <2> QED
      BY <1>1, <1>2, <2>1, <2>2, <2>3, <2>4, <2>5, JobEnds
  <1> QED
    BY <1>3, <1>4

LEMMA NextSliceWrites ==
    ASSUME WInv, NEW t \in Tasks, NEW j \in jobs, NextSlice(t, j)
    PROVE  WInv'
  <1>1. /\ j.by = t /\ jobs' = jobs \ {j} /\ stored' = stored \cup j.cells /\ lock' = NoTask
        /\ ~ LastSlice(t)
        /\ UNCHANGED <<layout, phase, have, toCheck, save, files, promised>>
    BY DEF NextSlice, Written
  <1>2. /\ task[t].pc = "job"
        /\ j.cells = Chunk(layout, FileOf(t), task[t].offset, task[t].remaining)
    BY <1>1, JobFacts
  <1> DEFINE off == task[t].offset + ChunkOf(t)
             rem == task[t].remaining - ChunkOf(t)
             sl  == task[t].slices \ {FileOf(t)}
  <1>3. Progress(layout, task[t].piece, off, rem, sl, stored')
    BY <1>1, <1>2, TurnFacts
  <1>4. off \in Nat /\ rem \in Nat
    BY <1>3 DEF Progress
  <1> HIDE DEF off, rem
  <1>5. task[t].piece \in Nat /\ sl \in SUBSET Nat
    BY DEF WInv, TypeOK, TaskType
  <1>6. task' = [task EXCEPT ![t] = [pc |-> "wait", piece |-> task[t].piece, offset |-> off,
                                     remaining |-> rem, slices |-> sl]]
    BY DEF NextSlice, off, rem
  <1> HIDE DEF sl
  <1>7. /\ task' \in TaskType /\ \A u \in Tasks : u # t => task'[u] = task[u]
        /\ task'[t].pc = "wait" /\ task'[t].piece = task[t].piece /\ task'[t].offset = off
        /\ task'[t].remaining = rem /\ task'[t].slices = sl
    BY <1>4, <1>5, <1>6 DEF WInv, TypeOK, TaskType
  <1>8. /\ task'[t].pc # "job"
        /\ Progress(layout, task'[t].piece, task'[t].offset, task'[t].remaining,
                    task'[t].slices, stored')
    BY <1>3, <1>7
  <1>9. /\ save' \in SaveType'
        /\ \A i \in Saves : save'[i].by = save[i].by
        /\ promised' \subseteq Pieces(layout)
    BY <1>1 DEF WInv, TypeOK, SaveType
  <1>10. have' \subseteq Stored'
    BY <1>1, StoredGrows DEF WInv, HeldIsStored
  <1>11. j.cells \in SUBSET j.cells /\ UNCHANGED files
    BY <1>1
  <1>12. \A i \in Saves : save'[i].by # t
    BY <1>2, <1>9 DEF WInv, Writing
  <1> QED
    BY <1>1, <1>7, <1>8, <1>9, <1>10, <1>11, <1>12, JobEnds

\* What PieceWritten does to the saves.
LEMMA SaveBegins ==
    ASSUME WInv, NEW t \in Tasks, NEW j \in jobs, PieceWritten(t, j)
    PROVE  \E i \in Saves : \E alone \in BOOLEAN :
              /\ alone = (\A k \in Saves : save[k] = NoSave)
              /\ save[i] = NoSave
              /\ save' = [k \in Saves |->
                    IF k = i THEN [step |-> "queued", by |-> t, file |-> "none",
                                   names |-> have', alone |-> alone]
                    ELSE [save[k] EXCEPT !.alone = FALSE]]
              /\ promised' = IF alone THEN promised \cap have' ELSE {}
  BY DEF PieceWritten

LEMMA PieceWrittenWrites ==
    ASSUME WInv, NEW t \in Tasks, NEW j \in jobs, PieceWritten(t, j)
    PROVE  WInv' /\ stored \subseteq stored'
  <1>1. /\ j.by = t /\ jobs' = jobs \ {j} /\ stored' = stored \cup j.cells /\ lock' = NoTask
        /\ LastSlice(t)
        /\ have' = have \cup {task[t].piece}
        /\ task' = [task EXCEPT ![t] = [Idle EXCEPT !.pc = "save"]]
        /\ UNCHANGED <<layout, phase, toCheck, files>>
    BY DEF PieceWritten, Written
  <1>2. /\ task[t].pc = "job"
        /\ j.cells = Chunk(layout, FileOf(t), task[t].offset, task[t].remaining)
    BY <1>1, JobFacts
  <1>3. /\ task[t].piece \in Pieces(layout)
        /\ PieceCells(layout, task[t].piece) \subseteq stored'
    BY <1>1, <1>2, TurnFacts
  <1>4. have' \subseteq Stored' /\ have' \subseteq Pieces(layout)
    <2>1. have \subseteq Stored'
      BY <1>1, StoredGrows DEF WInv, HeldIsStored
    <2>2. task[t].piece \in Stored'
      BY <1>1, <1>3 DEF Stored
    <2> QED
      BY <1>1, <2>1, <2>2 DEF Stored
  <1>5. /\ task' \in TaskType
        /\ \A u \in Tasks : u # t => task'[u] = task[u]
        /\ task'[t].pc = "save"
    BY <1>1 DEF WInv, TypeOK, TaskType, Idle
  <1>6. PICK i \in Saves, alone \in BOOLEAN :
           /\ save' = [k \in Saves |->
                 IF k = i THEN [step |-> "queued", by |-> t, file |-> "none",
                                names |-> have', alone |-> alone]
                 ELSE [save[k] EXCEPT !.alone = FALSE]]
           /\ promised' = IF alone THEN promised \cap have' ELSE {}
    BY SaveBegins
  <1>7. save' \in SaveType'
    <2>1. /\ layout' = layout /\ save \in SaveType
          /\ [step |-> "queued", by |-> t, file |-> "none", names |-> have', alone |-> alone]
                \in [step : {"none", "queued", "opened", "written"},
                     by : Tasks \cup {NoTask}, file : {"none", "tmp", "final", "lost"},
                     names : SUBSET Pieces(layout), alone : BOOLEAN]
      BY <1>1, <1>4 DEF WInv, TypeOK
    <2> QED
      BY <1>6, <2>1 DEF SaveType
  <1>8. /\ \A k \in Saves : \/ save'[k].by = save[k].by
                            \/ save'[k].by = t /\ task'[t].pc = "save"
        /\ \A k, l \in Saves : save'[k].by = t /\ save'[l].by = t => l = k
    <2>1. \A k \in Saves : save[k].by # t
      BY <1>2 DEF WInv, Writing
    <2> QED
      BY <1>5, <1>6, <2>1 DEF WInv, TypeOK, SaveType
  <1>9. promised' \subseteq Pieces(layout)
    BY <1>6 DEF WInv, TypeOK, SaveType
  <1>10. WInv'
    BY <1>1, <1>4, <1>5, <1>7, <1>8, <1>9, JobEnds
  <1> QED
    BY <1>1, <1>10

\* The steps that only move saves, and wake the tasks that waited for them.
LEMMA SavesMove ==
    ASSUME WInv, phase # "down",
           UNCHANGED <<layout, phase, have, toCheck, lock, disk>>,
           task' \in TaskType,
           \A t \in Tasks : task'[t] = task[t] \/ (task[t].pc = "save" /\ task'[t] = Idle),
           save' \in SaveType,
           \A k \in Saves : save'[k].by \in Tasks =>
              save'[k].by = save[k].by /\ task'[save[k].by] = task[save[k].by],
           {tmp', final'} \subseteq {NoFile, Torn} \cup {Whole(S) : S \in SUBSET Pieces(layout)},
           promised' \subseteq Pieces(layout)
    PROVE  WInv'
  <1>1. UNCHANGED <<layout, phase, have, toCheck, lock, stored, jobs>>
    BY DEF disk
  <1>2. \A t \in Tasks : task'[t] = task[t] \/ (task[t].pc = "save" /\ task'[t].pc = "idle")
    BY DEF Idle
  <1>3. TypeOK'
    <2>1. \A t \in Tasks : lock' = t <=> task'[t].pc = "job"
      BY <1>1, <1>2 DEF WInv, TypeOK
    <2>2. save' \in SaveType'
      BY <1>1 DEF SaveType
    <2> QED
      BY <1>1, <2>1, <2>2 DEF WInv, TypeOK, TaskType
  <1>4. Writing'
    <2>1. ASSUME NEW t \in Tasks, task'[t].pc \in {"wait", "job"}
          PROVE  Progress(layout, task'[t].piece, task'[t].offset, task'[t].remaining,
                          task'[t].slices, stored)
      BY <1>2, <2>1 DEF WInv, Writing
    <2>2. ASSUME NEW j \in jobs, j.by \in Tasks
          PROVE  j.cells = Chunk(layout, Min(task'[j.by].slices), task'[j.by].offset,
                                 task'[j.by].remaining)
      <3>1. task'[j.by] = task[j.by]
        BY <1>2, <2>2, JobFacts
      <3> QED
        BY <2>2, <3>1 DEF WInv, Writing, FileOf
    <2>3. ASSUME NEW k \in Saves, save'[k].by \in Tasks
          PROVE  task'[save'[k].by].pc = "save"
      BY <2>3 DEF WInv, Writing
    <2>4. \A i, k \in Saves : save'[i].by \in Tasks /\ save'[k].by = save'[i].by => k = i
      BY DEF WInv, Writing
    <2> QED
      BY <1>1, <2>1, <2>2, <2>3, <2>4 DEF Writing, FileOf
  <1> QED
    BY <1>1, <1>3, <1>4 DEF WInv, Down, HeldIsStored, Stored

\* A save under way, and what its step has to do with the tasks.
LEMMA SaveFacts ==
    ASSUME WInv, NEW i \in Saves, save[i].step # "none"
    PROVE  /\ phase # "down" /\ layout \in Layouts /\ task \in TaskType /\ save \in SaveType
           /\ save[i].by \in Tasks \cup {NoTask} /\ save[i].names \in SUBSET Pieces(layout)
           /\ \A k \in Saves : k # i /\ save[k].by \in Tasks => save[k].by # save[i].by
           /\ {tmp, final} \subseteq {NoFile, Torn} \cup {Whole(S) : S \in SUBSET Pieces(layout)}
           /\ promised \subseteq Pieces(layout)
  BY DEF WInv, TypeOK, Writing, Down, NoSave, SaveType

\* The save ends, and its task, if it still waits, goes on.
LEMMA SaveEnds ==
    ASSUME WInv, NEW i \in Saves, save[i].step # "none", TaskGoesOn(i),
           UNCHANGED <<layout, phase, have, toCheck, lock, disk>>,
           save' \in SaveType, save'[i] = NoSave,
           \A k \in Saves : k # i => save'[k].by = save[k].by,
           {tmp', final'} \subseteq {NoFile, Torn} \cup {Whole(S) : S \in SUBSET Pieces(layout)},
           promised' \subseteq Pieces(layout)
    PROVE  WInv'
  <1>1. /\ phase # "down" /\ task \in TaskType
        /\ save[i].by \in Tasks \cup {NoTask}
        /\ \A k \in Saves : k # i /\ save[k].by \in Tasks => save[k].by # save[i].by
        /\ save[i].by \in Tasks => task[save[i].by].pc = "save"
    BY SaveFacts DEF WInv, Writing
  <1>2. /\ task' \in TaskType
        /\ \A t \in Tasks : task'[t] = IF t = save[i].by THEN Idle ELSE task[t]
    <2>1. CASE save[i].by = NoTask
      BY <1>1, <2>1, ResumeAssumption DEF TaskGoesOn
    <2>2. CASE save[i].by # NoTask
      BY <1>1, <2>2 DEF TaskGoesOn, TaskType, Idle
    <2> QED
      BY <2>1, <2>2
  <1>3. \A t \in Tasks : task'[t] = task[t] \/ (task[t].pc = "save" /\ task'[t] = Idle)
    BY <1>1, <1>2
  <1>4. \A k \in Saves : save'[k].by \in Tasks =>
           save'[k].by = save[k].by /\ task'[save[k].by] = task[save[k].by]
    BY <1>1, <1>2, ResumeAssumption DEF NoSave
  <1> QED
    BY <1>1, <1>2, <1>3, <1>4, SavesMove

LEMMA SaveOpensWrites ==
    ASSUME WInv, NEW i \in Saves, SaveOpens(i)
    PROVE  WInv'
  <1>1. save[i].step # "none"
    BY DEF SaveOpens
  <1>2. /\ tmp' = Torn /\ save' = [save EXCEPT ![i].step = "opened", ![i].file = "tmp"]
        /\ UNCHANGED <<layout, phase, have, toCheck, task, lock, disk, final, promised>>
    BY DEF SaveOpens
  <1>3. /\ save' \in SaveType
        /\ \A k \in Saves : save'[k].by = save[k].by
    BY <1>1, <1>2, SaveFacts DEF SaveType
  <1> QED
    BY <1>1, <1>2, <1>3, SaveFacts, SavesMove

LEMMA SaveWritesWrites ==
    ASSUME WInv, NEW i \in Saves, SaveWrites(i)
    PROVE  WInv'
  <1>1. save[i].step # "none"
    BY DEF SaveWrites
  <1>2. /\ save' = [save EXCEPT ![i].step = "written"]
        /\ {tmp', final'} \subseteq {tmp, final, Torn, Whole(save[i].names)}
        /\ UNCHANGED <<layout, phase, have, toCheck, task, lock, disk, promised>>
    BY DEF SaveWrites, Over
  <1>3. /\ save' \in SaveType
        /\ \A k \in Saves : save'[k].by = save[k].by
    BY <1>1, <1>2, SaveFacts DEF SaveType
  <1>4. {tmp', final'} \subseteq {NoFile, Torn} \cup {Whole(S) : S \in SUBSET Pieces(layout)}
    BY <1>1, <1>2, SaveFacts
  <1> QED
    BY <1>1, <1>2, <1>3, <1>4, SaveFacts, SavesMove

LEMMA SaveReplacesWrites ==
    ASSUME WInv, NEW i \in Saves, SaveReplaces(i)
    PROVE  WInv'
  <1>1. save[i].step # "none" /\ TaskGoesOn(i)
        /\ UNCHANGED <<layout, phase, have, toCheck, lock, disk>>
    BY DEF SaveReplaces
  <1>2. /\ save' \in SaveType /\ save'[i] = NoSave
        /\ \A k \in Saves : k # i => save'[k].by = save[k].by
    <2>1. CASE save' = [save EXCEPT ![i] = NoSave]
      BY <1>1, <2>1, SaveFacts DEF SaveType, NoSave
    <2>2. CASE save' = [k \in Saves |-> IF k = i THEN NoSave
                                       ELSE [save[k] EXCEPT !.file = Renamed(@)]]
      <3>1. \A k \in Saves : Renamed(save[k].file) \in {"none", "tmp", "final", "lost"}
        BY <1>1, SaveFacts DEF SaveType, Renamed
      <3> QED
        BY <1>1, <2>2, <3>1, SaveFacts DEF SaveType, NoSave
    <2> QED
      BY <2>1, <2>2 DEF SaveReplaces
  <1>3. /\ {tmp', final'} \subseteq {NoFile, Torn} \cup {Whole(S) : S \in SUBSET Pieces(layout)}
        /\ promised' \subseteq Pieces(layout)
    BY <1>1, SaveFacts DEF SaveReplaces, files
  <1> QED
    BY <1>1, <1>2, <1>3, SaveEnds

LEMMA SaveFailsWrites ==
    ASSUME WInv, NEW i \in Saves, SaveFails(i)
    PROVE  WInv'
  <1>1. /\ save[i].step # "none" /\ TaskGoesOn(i) /\ save' = [save EXCEPT ![i] = NoSave]
        /\ UNCHANGED <<layout, phase, have, toCheck, lock, disk, tmp, final, promised>>
    BY DEF SaveFails, files
  <1>2. /\ save' \in SaveType /\ save'[i] = NoSave
        /\ \A k \in Saves : k # i => save'[k].by = save[k].by
    BY <1>1, SaveFacts DEF SaveType, NoSave
  <1>3. /\ {tmp', final'} \subseteq {NoFile, Torn} \cup {Whole(S) : S \in SUBSET Pieces(layout)}
        /\ promised' \subseteq Pieces(layout)
    BY <1>1, SaveFacts
  <1> QED
    BY <1>1, <1>2, <1>3, SaveEnds

LEMMA OrphanRunsWrites ==
    ASSUME WInv, NEW j \in jobs, OrphanRuns(j)
    PROVE  WInv'
  <1>1. /\ j.by = NoTask /\ jobs' = jobs \ {j} /\ stored' = stored \cup j.cells
        /\ UNCHANGED <<layout, phase, have, toCheck, task, lock, save, files, promised>>
    BY DEF OrphanRuns
  <1>2. j.cells \in SUBSET j.cells
    OBVIOUS
  <1> QED
    BY <1>1, <1>2, OrphanWrites

\* A cancelled task leaves its thread and its save to themselves.
LEMMA CancelWrites ==
    ASSUME WInv, NEW t \in Tasks, Cancel(t)
    PROVE  WInv'
  <1> DEFINE mine == {j \in jobs : j.by = t}
  <1>1. /\ task[t] # Idle /\ task' = [task EXCEPT ![t] = Idle]
        /\ lock' = IF lock = t THEN NoTask ELSE lock
        /\ UNCHANGED <<layout, stored, phase, have, toCheck, tmp, final, promised>>
    BY DEF Cancel, files
  <1>2. PICK orphans \in {{}, {[j EXCEPT !.by = NoTask] : j \in mine}} :
           jobs' = (jobs \ mine) \cup orphans
    BY DEF Cancel
  <1>3. \/ save' = [i \in Saves |-> IF save[i].by = t THEN [save[i] EXCEPT !.by = NoTask] ELSE save[i]]
        \/ save' = [i \in Saves |-> IF save[i].by = t THEN NoSave ELSE save[i]]
    BY DEF Cancel
  <1>4. /\ task' \in TaskType /\ task'[t].pc = "idle"
        /\ \A u \in Tasks : u # t => task'[u] = task[u]
    BY <1>1 DEF WInv, TypeOK, TaskType, Idle
  <1>5. /\ save' \in SaveType
        /\ \A i \in Saves : save'[i].by \in Tasks => save'[i].by = save[i].by /\ save[i].by # t
    <2>1. save \in SaveType
      BY DEF WInv, TypeOK
    <2>2. CASE save' = [i \in Saves |->
                           IF save[i].by = t THEN [save[i] EXCEPT !.by = NoTask] ELSE save[i]]
      BY <2>1, <2>2, ResumeAssumption DEF SaveType
    <2>3. CASE save' = [i \in Saves |-> IF save[i].by = t THEN NoSave ELSE save[i]]
      BY <2>1, <2>3, ResumeAssumption DEF SaveType, NoSave
    <2> QED
      BY <1>3, <2>2, <2>3
  <1>6. /\ orphans \subseteq [by : {NoTask}, cells : SUBSET Cells(layout)]
        /\ \A j \in orphans : j.by = NoTask
    <2>1. ASSUME NEW j \in mine
          PROVE  [j EXCEPT !.by = NoTask] \in [by : {NoTask}, cells : SUBSET Cells(layout)]
      <3>1. j \in [by : Tasks \cup {NoTask}, cells : SUBSET Cells(layout)]
        BY DEF WInv, TypeOK
      <3> QED
        BY <3>1
    <2> HIDE DEF mine
    <2>2. orphans \subseteq [by : {NoTask}, cells : SUBSET Cells(layout)]
      BY <1>2, <2>1
    <2> QED
      BY <2>2
  <1>7. /\ jobs' \subseteq [by : Tasks \cup {NoTask}, cells : SUBSET Cells(layout)]
        /\ \A j \in jobs' : j.by \in Tasks => j \in jobs /\ j.by # t
        /\ \A j \in jobs : j.by # t => j \in jobs'
    BY <1>2, <1>6, ResumeAssumption DEF WInv, TypeOK
  <1> HIDE DEF mine
  <1>8. TypeOK'
    <2>1. /\ lock' \in Tasks \cup {NoTask}
          /\ \A u \in Tasks : lock' = u <=> task'[u].pc = "job"
      BY <1>1, <1>4, ResumeAssumption DEF WInv, TypeOK
    <2>2. \A u \in Tasks : lock' = u <=> \E j \in jobs' : j.by = u
      <3> SUFFICES ASSUME NEW u \in Tasks PROVE lock' = u <=> \E j \in jobs' : j.by = u
        OBVIOUS
      <3>1. lock = u <=> \E j \in jobs : j.by = u
        BY DEF WInv, TypeOK
      <3> QED
        BY <1>1, <1>7, <3>1, ResumeAssumption
    <2>3. save' \in SaveType'
      BY <1>1, <1>5 DEF SaveType
    <2> QED
      BY <1>1, <1>4, <1>7, <2>1, <2>2, <2>3 DEF WInv, TypeOK, TaskType
  <1>9. Writing'
    <2>1. ASSUME NEW u \in Tasks, task'[u].pc \in {"wait", "job"}
          PROVE  Progress(layout, task'[u].piece, task'[u].offset, task'[u].remaining,
                          task'[u].slices, stored)
      BY <1>4, <2>1 DEF WInv, Writing
    <2>2. ASSUME NEW j \in jobs', j.by \in Tasks
          PROVE  j.cells = Chunk(layout, Min(task'[j.by].slices), task'[j.by].offset,
                                 task'[j.by].remaining)
      BY <1>4, <1>7, <2>2 DEF WInv, Writing, FileOf
    <2>3. ASSUME NEW i \in Saves, save'[i].by \in Tasks
          PROVE  task'[save'[i].by].pc = "save"
      BY <1>4, <1>5, <2>3 DEF WInv, Writing
    <2>4. \A i, k \in Saves : save'[i].by \in Tasks /\ save'[k].by = save'[i].by => k = i
      BY <1>5 DEF WInv, Writing
    <2> QED
      BY <1>1, <2>1, <2>2, <2>3, <2>4 DEF Writing, FileOf
  <1> QED
    BY <1>1, <1>8, <1>9 DEF WInv, Down, HeldIsStored, Stored

\* A process that is down: nothing goes on, nothing is held.
LEMMA DownWrites ==
    ASSUME layout' \in Layouts, stored' \subseteq Cells(layout)', phase' = "down",
           have' = {}, toCheck' \subseteq Pieces(layout)', task' = [t \in Tasks |-> Idle],
           lock' = NoTask, jobs' = {}, save' = [i \in Saves |-> NoSave],
           ({tmp, final} \subseteq {NoFile, Torn} \cup {Whole(S) : S \in SUBSET Pieces(layout)})',
           promised' \subseteq Pieces(layout)'
    PROVE  WInv'
  <1>1. /\ task' \in TaskType /\ \A t \in Tasks : task'[t] = Idle /\ task'[t].pc = "idle"
    BY DEF TaskType, Idle
  <1>2. /\ save' \in SaveType'
        /\ \A i \in Saves : save'[i] = NoSave /\ save'[i].by = NoTask
    BY DEF SaveType, NoSave
  <1>3. TypeOK'
    BY <1>1, <1>2, ResumeAssumption DEF TypeOK, TaskType
  <1>4. Writing'
    BY <1>1, <1>2, ResumeAssumption DEF Writing
  <1> QED
    BY <1>1, <1>2, <1>3, <1>4 DEF WInv, Down, HeldIsStored

LEMMA CrashWrites ==
    ASSUME WInv, Crash
    PROVE  WInv'
  <1>1. /\ layout \in Layouts /\ stored \subseteq Cells(layout)
        /\ \A j \in jobs : j.cells \subseteq Cells(layout)
        /\ {tmp, final} \subseteq {NoFile, Torn} \cup {Whole(S) : S \in SUBSET Pieces(layout)}
        /\ promised \subseteq Pieces(layout)
    BY DEF WInv, TypeOK
  <1>2. /\ layout' = layout /\ promised' = promised /\ have' = {} /\ toCheck' = {}
        /\ phase' = "down" /\ task' = [t \in Tasks |-> Idle] /\ lock' = NoTask /\ jobs' = {}
        /\ save' = [i \in Saves |-> NoSave]
        /\ {tmp', final'} \subseteq {NoFile, Torn, final}
    BY DEF Crash
  <1>3. stored' \subseteq Cells(layout)
    BY <1>1 DEF Crash
  <1>4. ({tmp, final} \subseteq {NoFile, Torn} \cup {Whole(S) : S \in SUBSET Pieces(layout)})'
    BY <1>1, <1>2
  <1> QED
    BY <1>1, <1>2, <1>3, <1>4, DownWrites

LEMMA DamageWrites ==
    ASSUME WInv, Damage
    PROVE  WInv' /\ stored' \subseteq stored
  <1>1. /\ phase = "down" /\ stored' \subseteq stored /\ promised' \subseteq promised
        /\ UNCHANGED <<layout, phase, have, toCheck, task, lock, jobs, save, tmp, final>>
    BY DEF Damage, files
  <1>2. have = {} /\ jobs = {} /\ \A t \in Tasks : task[t].pc = "idle"
    BY <1>1 DEF WInv, Down, Idle
  <1>3. TypeOK'
    BY <1>1 DEF WInv, TypeOK, TaskType, SaveType
  <1>4. Writing'
    BY <1>1, <1>2 DEF WInv, Writing
  <1> QED
    BY <1>1, <1>2, <1>3, <1>4 DEF WInv, Down, HeldIsStored

LEMMA StutterWrites == ASSUME WInv, UNCHANGED vars PROVE WInv'
  <1>1. UNCHANGED <<layout, stored, phase, have, toCheck, task, lock, jobs, save, tmp, final, promised>>
    BY DEF vars, disk, files
  <1>2. TypeOK'
    BY <1>1 DEF WInv, TypeOK, TaskType, SaveType
  <1>3. Writing'
    BY <1>1 DEF WInv, Writing, FileOf
  <1> QED
    BY <1>1, <1>2, <1>3 DEF WInv, Down, HeldIsStored, Stored

LEMMA InitWrites == Init => WInv
  <1> SUFFICES ASSUME Init PROVE WInv
    OBVIOUS
  <1>1. /\ task \in TaskType /\ \A t \in Tasks : task[t] = Idle /\ task[t].pc = "idle"
    BY DEF Init, TaskType, Idle
  <1>2. /\ save \in SaveType
        /\ \A i \in Saves : save[i] = NoSave /\ save[i].by = NoTask
    BY DEF Init, SaveType, NoSave
  <1>3. TypeOK
    BY <1>1, <1>2, ResumeAssumption DEF Init, TypeOK
  <1>4. Writing
    BY <1>1, <1>2, ResumeAssumption DEF Init, Writing
  <1> QED
    BY <1>1, <1>2, <1>3, <1>4 DEF Init, WInv, Down, HeldIsStored

LEMMA NextWrites == WInv /\ [Next]_vars => WInv'
  <1> SUFFICES ASSUME WInv, [Next]_vars PROVE WInv'
    OBVIOUS
  <1>1. CASE Register \/ CheckResume \/ CheckPiece \/ Checked
    BY <1>1, ClientWrites
  <1>2. CASE Crash
    BY <1>2, CrashWrites
  <1>3. CASE Damage
    BY <1>3, DamageWrites
  <1>4. ASSUME NEW t \in Tasks, NEW p \in Pieces(layout), WritePiece(t, p) PROVE WInv'
    BY <1>4, WritePieceWrites
  <1>5. ASSUME NEW t \in Tasks, AcquireLock(t) \/ Cancel(t) PROVE WInv'
    BY <1>5, AcquireWrites, CancelWrites
  <1>6. ASSUME NEW t \in Tasks, NEW j \in jobs, NextSlice(t, j) \/ PieceWritten(t, j) PROVE WInv'
    BY <1>6, NextSliceWrites, PieceWrittenWrites
  <1>7. ASSUME NEW j \in jobs, OrphanRuns(j) \/ JobFails(j) PROVE WInv'
    BY <1>7, OrphanRunsWrites, JobFailsWrites
  <1>8. ASSUME NEW i \in Saves, SaveOpens(i) \/ SaveWrites(i) \/ SaveReplaces(i) \/ SaveFails(i)
        PROVE  WInv'
    BY <1>8, SaveOpensWrites, SaveWritesWrites, SaveReplacesWrites, SaveFailsWrites
  <1>9. CASE UNCHANGED vars
    BY <1>9, StutterWrites
  <1> QED
    BY <1>1, <1>2, <1>3, <1>4, <1>5, <1>6, <1>7, <1>8, <1>9 DEF Next

-----------------------------------------------------------------------------
(* Saves preserve theirs *)

\* What keeps a promise: no less is stored and held, and the file says the same.
LEMMA PromiseStays ==
    ASSUME Promised, UNCHANGED <<layout, phase, toCheck, final>>,
           have \subseteq have', Stored \subseteq Stored', promised' \subseteq promised
    PROVE  Promised'
  BY DEF Promised, Named, SavedIsFound

\* The steps of tasks and threads that neither mark a piece nor touch a save.
LEMMA WorkSaves ==
    ASSUME IInv, stored \subseteq stored',
           UNCHANGED <<layout, phase, have, toCheck, save, files, promised>>
    PROVE  Saving' /\ Promised'
  <1>1. UNCHANGED <<layout, phase, have, toCheck, save, tmp, final, promised>>
    BY DEF files
  <1>2. Saving'
    BY <1>1 DEF IInv, Saving
  <1>3. Stored \subseteq Stored'
    BY <1>1, StoredGrows
  <1> QED
    BY <1>1, <1>2, <1>3, PromiseStays DEF IInv

\* A check reads all that is promised, for the file names it or names nothing.
LEMMA ClientSaves ==
    ASSUME IInv, Register \/ CheckResume \/ CheckPiece \/ Checked
    PROVE  Saving' /\ Promised'
  <1>1. UNCHANGED <<layout, stored, save, tmp, final, promised>> /\ have \subseteq have'
    BY DEF Register, CheckResume, CheckPiece, Checked, disk, files
  <1>2. Saving'
    BY <1>1 DEF IInv, Saving
  <1>3. Stored' = Stored /\ Named' = Named /\ promised \subseteq Pieces(layout)
    BY <1>1 DEF Stored, Named, IInv, WInv, TypeOK
  <1>4. phase' = "checking" => promised \subseteq have' \cup toCheck'
    <2>1. CASE CheckResume
      BY <1>3, <2>1 DEF CheckResume, ToCheck, IInv, Promised
    <2>2. CASE CheckPiece
      <3> DEFINE p == Min(toCheck)
      <3>1. /\ phase = "checking" /\ toCheck' = toCheck \ {p}
            /\ have' = IF p \in Stored THEN have \cup {p} ELSE have
        BY <2>2 DEF CheckPiece
      <3> HIDE DEF p
      <3>2. promised \subseteq Stored /\ promised \subseteq have \cup toCheck
        BY <3>1 DEF IInv, Promised
      <3> QED
        BY <3>1, <3>2
    <2>3. CASE Register \/ Checked
      BY <2>3 DEF Register, Checked
    <2> QED
      BY <2>1, <2>2, <2>3
  <1>5. phase' = "checked" => promised \subseteq have'
    BY DEF Register, CheckResume, CheckPiece, Checked, IInv, Promised
  <1>6. Promised'
    BY <1>1, <1>3, <1>4, <1>5 DEF IInv, Promised, SavedIsFound
  <1> QED
    BY <1>2, <1>6

\* A save that begins beside no other is alone; else none is, and nothing is promised.
LEMMA PieceWrittenSaves ==
    ASSUME IInv, NEW t \in Tasks, NEW j \in jobs, PieceWritten(t, j)
    PROVE  Saving' /\ Promised'
  <1>1. /\ have' = have \cup {task[t].piece} /\ stored \subseteq stored'
        /\ UNCHANGED <<layout, phase, toCheck, tmp, final>>
    BY DEF PieceWritten, Written, files
  <1>2. PICK i \in Saves, alone \in BOOLEAN :
           /\ alone = (\A k \in Saves : save[k] = NoSave)
           /\ save' = [k \in Saves |->
                 IF k = i THEN [step |-> "queued", by |-> t, file |-> "none",
                                names |-> have', alone |-> alone]
                 ELSE [save[k] EXCEPT !.alone = FALSE]]
           /\ promised' = IF alone THEN promised \cap have' ELSE {}
    BY SaveBegins DEF IInv
  <1>3. save \in SaveType /\ \A k \in Saves : save[k].names \subseteq have
    BY DEF IInv, WInv, TypeOK, Saving
  <1>4. /\ save'[i].step = "queued" /\ save'[i].names = have' /\ save'[i].alone = alone
        /\ \A k \in Saves : k # i => /\ save'[k].names = save[k].names /\ save'[k].alone = FALSE
                                     /\ save[k] = NoSave => save'[k] = NoSave
    <2>1. \A k \in Saves : save[k].alone = FALSE => [save[k] EXCEPT !.alone = FALSE] = save[k]
      BY <1>3 DEF SaveType
    <2>2. \A k \in Saves : save[k] = NoSave => save[k].alone = FALSE
      BY DEF NoSave
    <2>3. \A k \in Saves : k # i => save'[k] = [save[k] EXCEPT !.alone = FALSE]
      BY <1>2
    <2>4. \A k \in Saves : k # i /\ save[k] = NoSave => save'[k] = NoSave
      BY <2>1, <2>2, <2>3
    <2>5. save'[i].step = "queued" /\ save'[i].names = have' /\ save'[i].alone = alone
      BY <1>2
    <2>6. \A k \in Saves : k # i => save'[k].names = save[k].names /\ save'[k].alone = FALSE
      <3>1. \A k \in Saves : /\ [save[k] EXCEPT !.alone = FALSE].names = save[k].names
                            /\ [save[k] EXCEPT !.alone = FALSE].alone = FALSE
        BY <1>3 DEF SaveType
      <3> QED
        BY <2>3, <3>1
    <2> QED
      BY <2>4, <2>5, <2>6
  <1>5. Saving'
    <2>1. \A k \in Saves : save'[k].names \subseteq have'
      BY <1>1, <1>3, <1>4
    <2>2. ASSUME NEW k \in Saves, save'[k].alone
          PROVE  /\ k = i
                 /\ \A l \in Saves : l # k => save'[l] = NoSave
      BY <1>2, <1>4, <2>2
    <2>3. \A k \in Saves : save'[k] = NoSave \/ save'[k].alone \/ promised' = {}
      BY <1>2, <1>4
    <2> QED
      BY <1>4, <2>1, <2>2, <2>3 DEF Saving
  <1>6. Stored \subseteq Stored'
    BY <1>1, StoredGrows
  <1>7. promised' \subseteq promised
    BY <1>2
  <1> QED
    BY <1>1, <1>5, <1>6, <1>7, PromiseStays DEF IInv

\* Nobody but the save of the step can be alone, and if it is not nothing is promised.
LEMMA AloneFacts ==
    ASSUME Saving, NEW i \in Saves, save[i].step # "none"
    PROVE  /\ \A k \in Saves : save[k].alone => k = i
           /\ save[i].alone => \A k \in Saves : k # i => save[k] = NoSave
           /\ ~ save[i].alone => promised = {}
  <1>1. save[i] # NoSave
    BY DEF NoSave
  <1>2. \A k \in Saves : save[k].alone => \A l \in Saves : l # k => save[l] = NoSave
    BY DEF Saving
  <1>3. save[i] = NoSave \/ save[i].alone \/ promised = {}
    BY DEF Saving
  <1> QED
    BY <1>1, <1>2, <1>3

LEMMA SaveOpensSaves ==
    ASSUME IInv, NEW i \in Saves, SaveOpens(i)
    PROVE  Saving' /\ Promised'
  <1>1. /\ save[i].step = "queued" /\ tmp' = Torn
        /\ save' = [save EXCEPT ![i].step = "opened", ![i].file = "tmp"]
        /\ UNCHANGED <<layout, phase, have, toCheck, stored, final, promised>>
    BY DEF SaveOpens, disk
  <1>2. /\ \A k \in Saves : save[k].alone => k = i
        /\ save[i].alone => \A k \in Saves : k # i => save[k] = NoSave
        /\ ~ save[i].alone => promised = {}
    BY <1>1, AloneFacts DEF IInv
  <1>3. /\ save'[i].step = "opened" /\ save'[i].file = "tmp"
        /\ \A k \in Saves : /\ save'[k].names = save[k].names /\ save'[k].alone = save[k].alone
                            /\ k # i => save'[k] = save[k]
    BY <1>1 DEF IInv, WInv, TypeOK, SaveType
  <1>4. Saving'
    BY <1>1, <1>2, <1>3 DEF IInv, Saving
  <1> QED
    BY <1>1, <1>4, PromiseStays DEF IInv, Stored

LEMMA SaveWritesSaves ==
    ASSUME IInv, NEW i \in Saves, SaveWrites(i)
    PROVE  Saving' /\ Promised'
  <1>1. /\ save[i].step = "opened" /\ save' = [save EXCEPT ![i].step = "written"]
        /\ UNCHANGED <<layout, phase, have, toCheck, stored, promised>>
    BY DEF SaveWrites, disk
  <1>2. /\ \A k \in Saves : save[k].alone => k = i
        /\ save[i].alone => /\ \A k \in Saves : k # i => save[k] = NoSave
                            /\ save[i].file = "tmp" /\ tmp = Torn
        /\ ~ save[i].alone => promised = {}
    BY <1>1, AloneFacts DEF IInv, Saving
  <1>3. /\ save'[i].step = "written"
        /\ \A k \in Saves : /\ save'[k].names = save[k].names /\ save'[k].alone = save[k].alone
                            /\ k # i => save'[k] = save[k]
    BY <1>1 DEF IInv, WInv, TypeOK, SaveType
  <1>4. save[i].alone => tmp' = Whole(save[i].names) /\ final' = final
    <2>1. Over(Torn, save[i].names) = {Whole(save[i].names)}
      BY DEF Over, Torn
    <2> QED
      BY <1>2, <2>1 DEF SaveWrites
  <1>5. Saving'
    BY <1>1, <1>2, <1>3, <1>4 DEF IInv, Saving
  <1>6. CASE save[i].alone
    BY <1>1, <1>4, <1>5, <1>6, PromiseStays DEF IInv, Stored
  <1>7. CASE promised = {}
    BY <1>1, <1>5, <1>7 DEF Promised, SavedIsFound
  <1> QED
    BY <1>2, <1>6, <1>7

\* A save that was alone replaces the file by one that names what it promises.
LEMMA SaveReplacesSaves ==
    ASSUME IInv, NEW i \in Saves, SaveReplaces(i)
    PROVE  Saving' /\ Promised'
  <1>1. /\ save[i].step = "written"
        /\ UNCHANGED <<layout, phase, have, toCheck, stored>>
    BY DEF SaveReplaces, disk
  <1>2. /\ \A k \in Saves : save[k].alone => k = i
        /\ save[i].alone => /\ \A k \in Saves : k # i => save[k] = NoSave
                            /\ tmp = Whole(save[i].names)
        /\ ~ save[i].alone => promised = {}
        /\ save[i].names \subseteq have
    BY <1>1, AloneFacts DEF IInv, Saving
  <1>3. /\ save'[i] = NoSave
        /\ \A k \in Saves : k # i => /\ save'[k].names = save[k].names
                                     /\ save'[k].alone = save[k].alone
                                     /\ save[k] = NoSave => save'[k] = NoSave
    <2>1. [NoSave EXCEPT !.file = Renamed(@)] = NoSave
      BY DEF NoSave, Renamed
    <2>2. \A k \in Saves : save[k] = NoSave => [save[k] EXCEPT !.file = Renamed(@)] = NoSave
      BY <2>1
    <2>3. save \in SaveType
      BY DEF IInv, WInv, TypeOK
    <2>4. CASE save' = [save EXCEPT ![i] = NoSave]
      BY <2>3, <2>4 DEF SaveType
    <2>5. CASE save' = [k \in Saves |-> IF k = i THEN NoSave
                                       ELSE [save[k] EXCEPT !.file = Renamed(@)]]
      <3>1. \A k \in Saves : k # i => save'[k] = [save[k] EXCEPT !.file = Renamed(@)]
        BY <2>5
      <3>2. \A k \in Saves : k # i => save'[k].names = save[k].names /\ save'[k].alone = save[k].alone
        BY <2>3, <3>1 DEF SaveType
      <3>3. save'[i] = NoSave
        BY <2>5
      <3> QED
        BY <2>2, <3>1, <3>2, <3>3
    <2> QED
      BY <2>4, <2>5 DEF SaveReplaces
  <1>4. \A k \in Saves : ~ save'[k].alone
    BY <1>2, <1>3 DEF NoSave
  <1>5. /\ promised' = promised \/ (save[i].alone /\ promised' = save[i].names)
        /\ save[i].alone => promised' = save[i].names /\ final' = Whole(save[i].names)
    BY <1>2 DEF SaveReplaces, Whole, NoFile
  <1>6. Saving'
    <2>1. \A k \in Saves : save'[k].names \subseteq have'
      BY <1>1, <1>3 DEF IInv, Saving, NoSave
    <2>2. \A k \in Saves : save'[k] = NoSave \/ promised' = {}
      BY <1>2, <1>3, <1>5
    <2> QED
      BY <1>4, <2>1, <2>2 DEF Saving
  <1>7. CASE save[i].alone
    <2>1. promised' = save[i].names /\ Named' = save[i].names
      BY <1>5, <1>7 DEF Named, Whole
    <2>2. save[i].names \subseteq have' /\ save[i].names \subseteq Stored'
      BY <1>1, <1>2 DEF IInv, WInv, HeldIsStored, Stored
    <2> QED
      BY <1>6, <2>1, <2>2 DEF Promised, SavedIsFound
  <1>8. CASE ~ save[i].alone
    <2>1. promised' = {}
      BY <1>2, <1>5, <1>8
    <2> QED
      BY <1>6, <2>1 DEF Promised, SavedIsFound
  <1> QED
    BY <1>7, <1>8

LEMMA SaveFailsSaves ==
    ASSUME IInv, NEW i \in Saves, SaveFails(i)
    PROVE  Saving' /\ Promised'
  <1>1. /\ save[i].step # "none" /\ save' = [save EXCEPT ![i] = NoSave]
        /\ UNCHANGED <<layout, phase, have, toCheck, stored, tmp, final, promised>>
    BY DEF SaveFails, disk, files
  <1>2. \A k \in Saves : save[k].alone => k = i
    BY <1>1, AloneFacts DEF IInv
  <1>3. save'[i] = NoSave /\ \A k \in Saves : k # i => save'[k] = save[k]
    BY <1>1 DEF IInv, WInv, TypeOK, SaveType
  <1>4. \A k \in Saves : save'[k].names \subseteq have /\ ~ save'[k].alone
    BY <1>2, <1>3 DEF IInv, Saving, NoSave
  <1>5. \A k \in Saves : save'[k] = NoSave \/ promised = {}
    BY <1>2, <1>3 DEF IInv, Saving
  <1>6. Saving'
    BY <1>1, <1>4, <1>5 DEF Saving
  <1> QED
    BY <1>1, <1>6, PromiseStays DEF IInv, Stored

LEMMA CancelSaves ==
    ASSUME IInv, NEW t \in Tasks, Cancel(t)
    PROVE  Saving' /\ Promised'
  <1>1. UNCHANGED <<layout, stored, phase, have, toCheck, tmp, final, promised>>
    BY DEF Cancel, files
  <1>2. \A i \in Saves : \/ save'[i] = NoSave
                         \/ /\ save[i] # NoSave
                            /\ save'[i].step = save[i].step /\ save'[i].file = save[i].file
                            /\ save'[i].names = save[i].names /\ save'[i].alone = save[i].alone
    <2>1. \A i \in Saves : save[i] = NoSave => save[i].by # t
      BY ResumeAssumption DEF NoSave
    <2>2. CASE save' = [i \in Saves |->
                           IF save[i].by = t THEN [save[i] EXCEPT !.by = NoTask] ELSE save[i]]
      BY <2>1, <2>2 DEF IInv, WInv, TypeOK, SaveType
    <2>3. CASE save' = [i \in Saves |-> IF save[i].by = t THEN NoSave ELSE save[i]]
      BY <2>3
    <2> QED
      BY <2>2, <2>3 DEF Cancel
  <1>3. Saving'
    <2>1. \A i \in Saves : save'[i].names \subseteq have'
      BY <1>1, <1>2 DEF IInv, Saving, NoSave
    <2>2. ASSUME NEW i \in Saves, save'[i].alone
          PROVE  /\ \A k \in Saves : k # i => save'[k] = NoSave
                 /\ save'[i].step = "opened"  => save'[i].file = "tmp" /\ tmp' = Torn
                 /\ save'[i].step = "written" => tmp' = Whole(save'[i].names)
      <3>1. /\ save[i].alone /\ save'[i].step = save[i].step /\ save'[i].file = save[i].file
            /\ save'[i].names = save[i].names
        BY <1>2, <2>2 DEF NoSave
      <3> QED
        BY <1>1, <1>2, <3>1 DEF IInv, Saving
    <2>3. \A i \in Saves : save'[i] = NoSave \/ save'[i].alone \/ promised' = {}
      BY <1>1, <1>2 DEF IInv, Saving
    <2> QED
      BY <2>1, <2>2, <2>3 DEF Saving
  <1> QED
    BY <1>1, <1>3, PromiseStays DEF IInv, Stored

\* After a crash the file says what it said, or nothing.
LEMMA CrashSaves ==
    ASSUME IInv, Crash
    PROVE  Saving' /\ Promised'
  <1>1. /\ phase' = "down" /\ save' = [i \in Saves |-> NoSave] /\ stored \subseteq stored'
        /\ layout' = layout /\ promised' = promised /\ final' \in {final, NoFile, Torn}
    BY DEF Crash
  <1>2. Saving'
    BY <1>1 DEF Saving, NoSave
  <1>3. Named' = Named \/ Named' = {}
    BY <1>1 DEF Named, NoFile, Torn
  <1>4. Stored \subseteq Stored'
    BY <1>1, StoredGrows
  <1>5. Promised'
    BY <1>1, <1>3, <1>4 DEF IInv, Promised, SavedIsFound
  <1> QED
    BY <1>2, <1>5

LEMMA DamageSaves ==
    ASSUME IInv, Damage
    PROVE  Saving' /\ Promised'
  <1>1. /\ phase = "down" /\ UNCHANGED <<layout, phase, have, save, tmp, final>>
        /\ promised' = promised \cap {p \in Pieces(layout) : PieceCells(layout, p) \subseteq stored'}
    BY DEF Damage, files
  <1>2. Saving'
    BY <1>1 DEF IInv, WInv, Down, Saving, NoSave
  <1>3. promised' \subseteq promised /\ promised' \subseteq Stored' /\ Named' = Named
    BY <1>1 DEF Stored, Named
  <1>4. Promised'
    BY <1>1, <1>3 DEF IInv, Promised, SavedIsFound
  <1> QED
    BY <1>2, <1>4

LEMMA InitInv == Init => IInv
  BY InitWrites DEF Init, IInv, Saving, Promised, SavedIsFound, NoSave

LEMMA NextInv == IInv /\ [Next]_vars => IInv'
  <1> SUFFICES ASSUME IInv, [Next]_vars PROVE Saving' /\ Promised'
    BY NextWrites DEF IInv
  <1>1. CASE Register \/ CheckResume \/ CheckPiece \/ Checked
    BY <1>1, ClientSaves
  <1>2. CASE Crash
    BY <1>2, CrashSaves
  <1>3. CASE Damage
    BY <1>3, DamageSaves
  <1>4. ASSUME NEW t \in Tasks, NEW p \in Pieces(layout), WritePiece(t, p)
        PROVE  Saving' /\ Promised'
    BY <1>4, WorkSaves DEF WritePiece, disk
  <1>5. ASSUME NEW t \in Tasks, AcquireLock(t) PROVE Saving' /\ Promised'
    BY <1>5, WorkSaves DEF AcquireLock
  <1>6. ASSUME NEW t \in Tasks, Cancel(t) PROVE Saving' /\ Promised'
    BY <1>6, CancelSaves
  <1>7. ASSUME NEW t \in Tasks, NEW j \in jobs, NextSlice(t, j) PROVE Saving' /\ Promised'
    BY <1>7, WorkSaves DEF NextSlice, Written
  <1>8. ASSUME NEW t \in Tasks, NEW j \in jobs, PieceWritten(t, j) PROVE Saving' /\ Promised'
    BY <1>8, PieceWrittenSaves
  <1>9. ASSUME NEW j \in jobs, OrphanRuns(j) PROVE Saving' /\ Promised'
    BY <1>9, WorkSaves DEF OrphanRuns
  <1>10. ASSUME NEW j \in jobs, JobFails(j) PROVE Saving' /\ Promised'
    BY <1>10, WorkSaves DEF JobFails
  <1>11. ASSUME NEW i \in Saves, SaveOpens(i) \/ SaveWrites(i) \/ SaveReplaces(i) \/ SaveFails(i)
         PROVE  Saving' /\ Promised'
    BY <1>11, SaveOpensSaves, SaveWritesSaves, SaveReplacesSaves, SaveFailsSaves
  <1>12. CASE UNCHANGED vars
    BY <1>12, WorkSaves DEF vars, disk
  <1> QED
    BY <1>1, <1>2, <1>3, <1>4, <1>5, <1>6, <1>7, <1>8, <1>9, <1>10, <1>11, <1>12 DEF Next

LEMMA Invariant == Spec => []IInv
  BY InitInv, NextInv, PTL DEF Spec

-----------------------------------------------------------------------------
(* The theorems *)

\* The lock of the queue has one holder, which has the one thread at work for a
\* task: the lock is released by success, by an OSError and by cancellation
\* (queue.py:61-64, 90-104).
THEOREM Typed == Spec => []TypeOK
  <1>1. IInv => TypeOK
    BY DEF IInv, WInv
  <1> QED
    BY <1>1, Invariant, PTL

\* A piece we say we have lies whole on the disk, whatever the files' lengths
\* (disk.py:125-145, queue.py:61-64, engine.py:269-270, client.py:497-508).
THEOREM HeldStaysStored == Spec => []HeldIsStored
  <1>1. IInv => HeldIsStored
    BY DEF IInv, WInv
  <1> QED
    BY <1>1, Invariant, PTL

\* What the last undisturbed save named, and nobody damaged, a restart finds
\* again (resume.py:79-83, 117-147, client.py:467-485).
THEOREM SavedStaysFound == Spec => []SavedIsFound
  <1>1. IInv => SavedIsFound
    BY DEF IInv, Promised
  <1> QED
    BY <1>1, Invariant, PTL
=============================================================================
