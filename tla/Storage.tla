--------------------------------- MODULE Storage ---------------------------------
(***************************************************************************)
(* Where the bytes of a torrent lie: the pieces of piece.py:153-163, the   *)
(* offset map of storage/disk.py and the chunk of one turn of its read and *)
(* write loops.  Offsets count cells, the unit a file is divided in here.  *)
(***************************************************************************)
EXTENDS Integers, Sequences, FiniteSets, FiniteSetsExt

CONSTANTS
    Layouts,     \* layouts of a torrent: a sequence of file lengths, 0 allowed
    PieceLength

ASSUME StorageAssumption ==
    /\ PieceLength \in Nat \ {0}
    /\ \A lay \in Layouts : lay \in Seq(Nat) /\ \E f \in DOMAIN lay : lay[f] > 0

\* The offset in the torrent at which file f begins.
Offsets(lay) ==
    LET at[f \in 1 .. Len(lay) + 1] == IF f = 1 THEN 0 ELSE at[f - 1] + lay[f - 1]
    IN  at
TorrentOffset(lay, f) == Offsets(lay)[f]

TotalLength(lay) == TorrentOffset(lay, Len(lay) + 1)

\* _build_specs: the last piece may be short.
Pieces(lay)         == {p \in 0 .. TotalLength(lay) : p * PieceLength < TotalLength(lay)}
PieceOffset(p)      == p * PieceLength
PieceSize(lay, p)   == Min({PieceLength, TotalLength(lay) - PieceOffset(p)})

\* A cell is a place in a file; PieceCells is what a piece is made of.
Cells(lay) == UNION {{f} \X (0 .. lay[f] - 1) : f \in {g \in DOMAIN lay : lay[g] > 0}}
PieceCells(lay, p) ==
    {c \in Cells(lay) : TorrentOffset(lay, c[1]) + c[2] \in
                           PieceOffset(p) .. PieceOffset(p) + PieceSize(lay, p) - 1}

\* Mutant: a write ends with the file it begins in.
SlicesAtStart(lay, offset, length) ==
    {f \in DOMAIN lay : TorrentOffset(lay, f) <= offset /\ TorrentOffset(lay, f) + lay[f] > offset}

\* _slices_for: the files that overlap [offset, offset + length).  They are
\* gone through in the order of the torrent, that of their numbers.
SlicesFor(lay, offset, length) ==
    {f \in DOMAIN lay : /\ TorrentOffset(lay, f) < offset + length
                        /\ TorrentOffset(lay, f) + lay[f] > offset}

\* One turn of the loop in file f: how much of it, and which cells.
IntoSlice(lay, f, offset) == Max({0, offset - TorrentOffset(lay, f)})
ChunkLength(lay, f, offset, remaining) == Min({remaining, lay[f] - IntoSlice(lay, f, offset)})
Chunk(lay, f, offset, remaining) ==
    LET at == IntoSlice(lay, f, offset)
    IN  {f} \X (at .. at + ChunkLength(lay, f, offset, remaining) - 1)
=============================================================================
