------------------------------- MODULE Blocks -------------------------------
(***************************************************************************)
(* Download with the bytes it writes and the bits it decides by: Download   *)
(* says that a block is on disk and that a piece is held; here the block    *)
(* goes through Layout into the bytes of the files, and the set of pieces   *)
(* is the bytes of a Bitfield.                                              *)
(***************************************************************************)
EXTENDS Download, Layout, Bitfield

CONSTANTS
  Infos,   \* info sections with these Pieces and BlocksOf
  Widths   \* numbers of bits of a byte to try

\* Torrents as they are made: a hash for every PieceLength bytes, the last ones fewer.
ASSUME InfosAssumption ==
  \A x \in Infos :
    /\ x.length \in Nat /\ x.files \in Seq(Nat)
    /\ x.pieceLength \in Nat \ {0} /\ x.hashes \in Nat \ {0}
    /\ (x.hashes - 1) * x.pieceLength < TotalSize(x)
    /\ TotalSize(x) <= x.hashes * x.pieceLength
    /\ Pieces = 0..x.hashes - 1
    /\ \A i \in Pieces :
         LET l == LengthOfPiece(x, i) IN BlocksOf[i] = {b \in 0..l : b * BlockSize < l}
ASSUME WidthsAssumption == Widths \subseteq Nat \ {0}
ASSUME ConnectionsAssumption == IsFiniteSet(Peers)

VARIABLES info, files

-----------------------------------------------------------------------------
(* The bytes of a block.  A good byte says which byte of the torrent it is. *)

Zero == <<"empty", 0>>

Begin(r) == r.begin + (info.pieceLength * r.index)

BytesOf(kind, r) ==
  [k \in 1..r.length |-> IF kind = "empty" THEN Zero ELSE <<kind, Begin(r) + k>>]

Request(s) == nextRequest(info, s[1], s[2])

WholePiece(i) == [index |-> i, begin |-> 0, length |-> LengthOfPiece(info, i)]

\* CheckPiece: every byte of the piece is the torrent's own
CheckPiece(r, data) == data = BytesOf("good", r)

BlocksInit == Init /\ info \in Infos /\ files = Allocate(info, Zero)

\* the block that connection p is writing reaches the files
Writes(p) == run[p].pc = "write" /\ run'[p].pc = "put"

BlocksNext ==
  /\ Next
  /\ info' = info
  /\ files' =
       IF \E p \in Peers : Writes(p)
       THEN LET p == CHOOSE q \in Peers : Writes(q)
                r == Request(run[p].req) IN
            putChunk(info, files, r, BytesOf(IF run[p].good THEN "good" ELSE "bad", r))
       ELSE files

BlocksSpec == BlocksInit /\ [][BlocksNext]_<<vars, info, files>>

-----------------------------------------------------------------------------
(* What the RPC shows of a torrent that has its info, with a bitfield ours  *)
(* in bytes of w bits.                                                      *)

\* how many bytes of the bitfield each file is given
FileBytes(w) ==
  [k \in DOMAIN GetFiles(info) |-> (GetFiles(info)[k] \div info.pieceLength) \div w]

\* The bits that stand for each file: of several files, the first bits of as many
\* bytes as there are in the bits of its pieces, as many bits as bytes; of a file
\* of fewer pieces, the first bit of the next byte, which the file after it has too.
FileBits(w, ours) ==
  LET l == FileBytes(w)
      idx(k) == Before(l)[k - 1] IN
  IF Len(GetFiles(info)) = 1 THEN <<ours>>
  ELSE [k \in DOMAIN l |->
          IF l[k] = 0 THEN [Length |-> 1, Data |-> <<ours.Data[idx(k) + 1]>>]
          ELSE [Length |-> l[k], Data |-> SubSeq(ours.Data, idx(k) + 1, idx(k) + l[k])]]

GetStatus(w, ours, checking, stopped) ==
  [state    |-> IF checking THEN "checking"
                ELSE IF Completed(w, ours) THEN "seeding"
                ELSE IF stopped THEN "stopped" ELSE "downloading",
   progress |-> Progress(w, ours),
   files    |-> [k \in DOMAIN FileBits(w, ours) |-> Progress(w, FileBits(w, ours)[k])]]

-----------------------------------------------------------------------------
(* Properties.                                                             *)

\* Whatever the files of the torrent are, empty ones and ones that end inside a
\* block included: the blocks of a cached piece are the ones asked for
\* (piece.go:160), the answer to each request passes accept (piece.go:26), and
\* reading a block, to upload it, or a whole piece, to check its hash, gives what
\* was written there and nothing of its neighbours (fs.go:160, 193).
BlocksLand ==
  /\ \A i \in Pieces :
       /\ newPiece(LengthOfPiece(info, i)) = BlocksOf[i]
       /\ CheckPiece(WholePiece(i), GetPiece(info, files, WholePiece(i))) <=> GoodOnDisk(i)
  /\ \A s \in Slots :
       LET r == Request(s) IN
       /\ accept(LengthOfPiece(info, s[1]), r.begin, r.length)
       /\ handlePieceRequest(info, files, r, None) = BytesOf(disk[s], r)
  /\ (DownloadRemaining(info, Cardinality(bf)) = 0) <=> Done

\* the bitfield after the first i pieces were set, or unset when not in S
Marking(w, bitfield, S) ==
  LET b[i \in 0..Cardinality(Pieces)] ==
        IF i = 0 THEN bitfield
        ELSE IF i - 1 \in S THEN Set(w, b[i - 1], i - 1) ELSE Unset(w, b[i - 1], i - 1)
  IN b

\* the bytes of the bitfield of a set of pieces, and the bytes when all were set before
Encode(w, S) ==
  LET n == Cardinality(Pieces) IN Marking(w, NewBitfield(w, n), S)[n]
EncodeDown(w, S) ==
  Marking(w, Encode(w, Pieces), S)[Cardinality(Pieces)]

\* the orders in which a map with a key for each piece may be gone through
Orders ==
  {f \in [1..Cardinality(Pieces) -> Pieces] : \A i \in Pieces : \E k \in DOMAIN f : f[k] = i}

\* what a peer may send for a set of pieces: the spare bits are its own
Payloads(w, S) ==
  LET n == Cardinality(Pieces) IN
  {b \in [Length : {n}, Data : [1..((n + w - 1) \div w) -> SUBSET Byte(w)]] :
     \A i \in Pieces : Has(w, b, i) <=> i \in S}

\* the bitfields of the connected peers, and how many of them have piece i
Others(w)  == [p \in Peers |-> Encode(w, Remote[p])]
Holders(i) == Cardinality({p \in Peers : i \in Remote[p]})

\* When a piece is picked for a connection, the bytes of the two bitfields say
\* what their sets of pieces say, however many bits of the last byte are spare and
\* whatever the peer put there: how many are held, whether the torrent is complete,
\* whether the peer has something we lack (peer.go:440), and which piece to ask
\* for: one of the Candidates that the fewest peers have, or none if there is none
\* (bitfield.go:261, torrent.go:191).  GetStatus reads no byte beyond the
\* bitfield's last for any of the files, and once the torrent is done shows each of
\* them as complete, unless it is empty (torrent.go:288).
BitfieldsAgree ==
  /\ tick.pc = "last" \/ (tick.pc = "idle" /\ Done) =>
       \A w \in Widths, stopped \in BOOLEAN :
         LET ours   == Encode(w, bf)
             status == GetStatus(w, ours, FALSE, stopped)
             Full(p) == p[1] = p[2] IN
         /\ status.state = "seeding" <=> Done
         /\ \A k \in DOMAIN FileBytes(w) : Before(FileBytes(w))[k - 1] < Len(ours.Data)
         /\ \A k \in DOMAIN status.files :
              Done /\ GetFiles(info)[k] # 0 => Full(status.files[k])
         /\ Full(status.progress) <=> Done
  /\ tick.pc = "pick" =>
    \A w \in Widths :
      LET ours == Encode(w, bf)
          others == Others(w) IN
      /\ ours = EncodeDown(w, bf)
      /\ CountSet(w, ours) = Cardinality(bf)
      /\ Completed(w, ours) <=> Done
      /\ \A S \in SUBSET Pieces : \A theirs \in Payloads(w, S) :
           /\ checkInterested(w, ours, theirs) <=> S \ bf # {}
           /\ \A order \in Orders :
                LET found == FindRarest(w, theirs, others, bf \union PendingPieces, order)
                    able == (S \ bf) \ PendingPieces IN
                /\ found.has <=> able # {}
                /\ found.has => found.idx \in able
                                /\ \A i \in able : Holders(found.idx) <= Holders(i)

=============================================================================
