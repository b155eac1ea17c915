------------------------------- MODULE Layout -------------------------------
(***************************************************************************)
(* Where the blocks of a torrent are: how its pieces are cut into blocks    *)
(* (swarm/piece.go), how long they are (metainfo.go), and which bytes of    *)
(* which files hold them (storage/fs.go).                                   *)
(*                                                                          *)
(* info is the torrent's info section, with the length of a single-file     *)
(* torrent (0 for a torrent of several files), the lengths of its files,    *)
(* PieceLength and the number of its hashes.  files[i][k] is the byte k of  *)
(* the file i; a request r has an index, a begin and a length.              *)
(***************************************************************************)
EXTENDS Naturals, Sequences, FiniteSets

CONSTANT BlockSize

ASSUME BlockSizeAssumption == BlockSize \in Nat \ {0}

Least(a, b) == IF a < b THEN a ELSE b

-----------------------------------------------------------------------------
(* The info section.                                                       *)

IsSingleFile(info) == info.length > 0

GetFiles(info) == IF IsSingleFile(info) THEN <<info.length>> ELSE info.files

\* how long the first k files are together
Before(lengths) ==
  LET sum[k \in 0..Len(lengths)] == IF k = 0 THEN 0 ELSE sum[k - 1] + lengths[k]
  IN sum

TotalSize(info) ==
  IF IsSingleFile(info) THEN info.length ELSE Before(info.files)[Len(info.files)]

NumPieces(info) == info.hashes

LengthOfPiece(info, i) ==
  IF NumPieces(info) = i + 1
  THEN info.pieceLength - ((NumPieces(info) * info.pieceLength) - TotalSize(info))
  ELSE info.pieceLength

-----------------------------------------------------------------------------
(* Blocks of a piece of l bytes: newPiece, nextRequest, accept.            *)

newPiece(l) == 0..((l \div BlockSize) + (IF l % BlockSize # 0 THEN 1 ELSE 0)) - 1

bitfieldIndex(offset) == offset \div BlockSize
finalChunkLen(l) == IF l % BlockSize = 0 THEN BlockSize ELSE l % BlockSize

\* what nextRequest asks for when b is the first free block of piece i
nextRequest(info, i, b) ==
  LET l == LengthOfPiece(info, i) IN
  [index |-> i, begin |-> b * BlockSize,
   length |-> IF b = bitfieldIndex(l - 1) THEN finalChunkLen(l) ELSE BlockSize]

\* may n bytes at this offset of a piece of l bytes be stored?
accept(l, offset, n) ==
  /\ offset % BlockSize = 0
  /\ offset + n <= l
  /\ n = IF bitfieldIndex(offset) = bitfieldIndex(l - 1) THEN finalChunkLen(l)
         ELSE BlockSize

-----------------------------------------------------------------------------
(* The files.                                                              *)

\* Allocate: every file has its length and holds zeros
Allocate(info, zero) ==
  [i \in DOMAIN GetFiles(info) |-> [k \in 0..GetFiles(info)[i] - 1 |-> zero]]

\* mutant: the offset in the first file is used in the next one as well
WriteFileKeepsOff(lengths, s, i) ==
  IF s.p = <<>> THEN s
  ELSE IF s.off >= lengths[i] THEN [s EXCEPT !.off = @ - lengths[i]]
  ELSE LET n == Least(Len(s.p), lengths[i] - s.off) IN
       [p |-> SubSeq(s.p, n + 1, Len(s.p)), off |-> s.off,
        files |-> [s.files EXCEPT ![i] =
          [k \in DOMAIN @ |-> IF k - s.off \in 0..n - 1 THEN s.p[k - s.off + 1] ELSE @[k]]]]

\* the loop's step for file i: what of the data p is left goes into it, from the
\* offset off on
WriteFile(lengths, s, i) ==
  IF s.p = <<>> THEN s
  ELSE IF s.off >= lengths[i] THEN [s EXCEPT !.off = @ - lengths[i]]
  ELSE LET n == Least(Len(s.p), lengths[i] - s.off) IN
       [p |-> SubSeq(s.p, n + 1, Len(s.p)), off |-> 0,
        files |-> [s.files EXCEPT ![i] =
          [k \in DOMAIN @ |-> IF k \in s.off..s.off + n - 1 THEN s.p[k - s.off + 1] ELSE @[k]]]]

\* the loop after i files
Writing(lengths, files, data, off) ==
  LET s[i \in 0..Len(lengths)] ==
        IF i = 0 THEN [p |-> data, off |-> off, files |-> files]
        ELSE WriteFile(lengths, s[i - 1], i)
  IN s

WriteAt(info, files, data, off) ==
  Writing(GetFiles(info), files, data, off)[Len(GetFiles(info))].files

\* as many of the left bytes as the file has from the offset on
readFileAt(file, off, left) ==
  [k \in 1..Least(left, Cardinality(DOMAIN file) - off) |-> file[off + k - 1]]

\* the loop's step for file i: b is what was read of the n bytes
ReadFile(lengths, files, n, s, i) ==
  IF Len(s.b) = n THEN s
  ELSE IF s.off >= lengths[i] THEN [s EXCEPT !.off = @ - lengths[i]]
  ELSE [b |-> s.b \o readFileAt(files[i], s.off, n - Len(s.b)), off |-> 0]

Reading(lengths, files, n, off) ==
  LET s[i \in 0..Len(lengths)] ==
        IF i = 0 THEN [b |-> <<>>, off |-> off] ELSE ReadFile(lengths, files, n, s[i - 1], i)
  IN s

\* fewer than n bytes, and EOF, when the files end before
ReadAt(info, files, n, off) ==
  Reading(GetFiles(info), files, n, off)[Len(GetFiles(info))].b

putChunk(info, files, r, data) ==
  WriteAt(info, files, data, r.begin + (info.pieceLength * r.index))

GetPiece(info, files, r) ==
  ReadAt(info, files, r.length, r.begin + (info.pieceLength * r.index))

\* the answer to a peer's request, a PIECE message with data, or None: the
\* connection is closed
handlePieceRequest(info, files, r, None) ==
  LET data == GetPiece(info, files, r) IN
  IF r.length \in 1..BlockSize /\ Len(data) = r.length THEN data ELSE None

-----------------------------------------------------------------------------
(* What is left to download when count pieces are held.                    *)
DownloadRemaining(info, count) ==
  IF count * info.pieceLength > TotalSize(info) THEN 0
  ELSE TotalSize(info) - (count * info.pieceLength)

=============================================================================
