-------------------------------- MODULE Wire --------------------------------
(***************************************************************************)
(* One connection between two XDs that both have the info of the torrent:  *)
(* the messages that tell the other end what is held, wanted and allowed,  *)
(* and the pieces they lead to (peer.go, torrent.go).  A piece is one      *)
(* block here.  Each end has the goroutine that made the connection, the   *)
(* connection's run goroutine, the tick, and another connection's run      *)
(* goroutine that completes pieces as well.                                *)
(***************************************************************************)
EXTENDS Naturals, Sequences, FiniteSets

CONSTANTS
    Ends,           \* the two ends
    Parts,          \* the pieces of the torrent
    MaxRequests,    \* PeerConn.MaxParalellRequests
    MaxElsewhere,   \* bound: pieces completed by other connections
    None

VARIABLES
    held,           \* the bitfield of each end's torrent
    stage,          \* how far each end's connection is set up
    snap,           \* the bitfield the goroutine that made it is about to send
    theirs,         \* PeerConn.bf
    wants,          \* PeerConn.usInterested
    told,           \* PeerConn.peerUsInterested, as last sent
    wanted,         \* PeerConn.peerInterested
    chokes, choked, \* PeerConn.usChoke and peerChoke
    downloads,      \* PeerConn.runDownload
    asked,          \* PeerConn.downloading
    last,           \* PeerConn.lastRequest's piece
    sent,           \* messages from each end that are under way
    work,           \* what each end's run goroutines have yet to do
    shut,           \* the connection was closed
    elsewhere,      \* for the bound
    raced           \* history: ends where two goroutines met in checkInterested

vars == <<held, stage, snap, theirs, wants, told, wanted, chokes, choked, downloads, asked, last,
          sent, work, shut, elsewhere, raced>>
flags == <<theirs, wants, told, wanted, chokes, choked, downloads, last>>

Runs == {"run", "other"}
Other(e) == CHOOSE o \in Ends : o # e

Msg(type, arg) == [type |-> type, arg |-> arg]
Step(do, arg) == [do |-> do, arg |-> arg]

(* What a goroutine does in these functions, step by step.                 *)
checkInterested == <<Step("read", None), Step("compare", None), Step("record", None)>>
broadcastHave(i) == <<Step("visit", i)>> \o checkInterested \o <<Step("have", i)>>

Init ==
    /\ held \in [Ends -> SUBSET Parts]
    /\ stage = [e \in Ends |-> "none"]
    /\ snap = [e \in Ends |-> {}]
    /\ theirs = [e \in Ends |-> None]
    /\ wants = [e \in Ends |-> FALSE] /\ told = wants /\ wanted = wants /\ downloads = wants
    /\ chokes = [e \in Ends |-> TRUE] /\ choked = chokes
    /\ asked = [e \in Ends |-> {}] /\ last = theirs
    /\ sent = [e \in Ends |-> <<>>]
    /\ work = [e \in Ends |-> [g \in Runs |-> <<>>]]
    /\ shut = FALSE
    /\ elsewhere = 0
    /\ raced = {}

TypeOK ==
    /\ held \in [Ends -> SUBSET Parts] /\ snap \in [Ends -> SUBSET Parts]
    /\ stage \in [Ends -> {"none", "listed", "snapped", "up"}]
    /\ \A e \in Ends : theirs[e] \in {None} \union SUBSET Parts
    /\ \A f \in {wants, told, wanted, chokes, choked, downloads} : f \in [Ends -> BOOLEAN]
    /\ asked \in [Ends -> SUBSET Parts] /\ last \in [Ends -> {None} \union Parts]
    /\ \A e \in Ends : Cardinality(asked[e]) <= MaxRequests
    /\ shut \in BOOLEAN
    /\ elsewhere \in 0 .. MaxElsewhere
    /\ raced \subseteq Ends

Send(e, m) == sent' = [sent EXCEPT ![e] = Append(@, m)]
Doing(e, g) == work[e][g][1].do
Now(e, g, do) == ~shut /\ work[e][g] # <<>> /\ Doing(e, g) = do
(* Goes on with s in place of the first step.                              *)
GoOn(e, g, s) == work' = [work EXCEPT ![e][g] = s \o Tail(@)]

-----------------------------------------------------------------------------
(* The goroutine that made the connection: onNewPeer, or the end of        *)
(* DialPeer.  It is in the table before the bitfield is read.              *)

addPeer(e) ==
    /\ ~shut /\ stage[e] = "none"
    /\ stage' = [stage EXCEPT ![e] = "listed"]
    /\ UNCHANGED <<held, snap, asked, sent, work, shut, elsewhere, raced>> /\ UNCHANGED flags

Snapshot(e) ==
    /\ ~shut /\ stage[e] = "listed"
    /\ stage' = [stage EXCEPT ![e] = "snapped"]
    /\ snap' = [snap EXCEPT ![e] = held[e]]
    /\ UNCHANGED <<held, asked, sent, work, shut, elsewhere, raced>> /\ UNCHANGED flags

SendBitfield(e) ==
    /\ ~shut /\ stage[e] = "snapped"
    /\ stage' = [stage EXCEPT ![e] = "up"]
    /\ Send(e, Msg("bitfield", snap[e]))
    /\ snap' = [snap EXCEPT ![e] = {}]
    /\ UNCHANGED <<held, asked, work, shut, elsewhere, raced>> /\ UNCHANGED flags

-----------------------------------------------------------------------------
(* inboundMessage.                                                         *)

(* The run goroutine, started when the connection is listed, takes the     *)
(* next message m of this type.                                            *)
Receives(e, type) ==
    /\ ~shut /\ stage[e] # "none" /\ work[e]["run"] = <<>>
    /\ sent[Other(e)] # <<>> /\ Head(sent[Other(e)]).type = type
    /\ sent' = [sent EXCEPT ![Other(e)] = Tail(@)]

Arg(e) == Head(sent[Other(e)]).arg
Then(e, steps) == work' = [work EXCEPT ![e]["run"] = steps]

\* mutant: nothing is made of the first bitfield
ReceiveBitfieldQuiet(e) ==
    /\ Receives(e, "bitfield")
    /\ theirs' = [theirs EXCEPT ![e] = Arg(e)]
    /\ Then(e, IF theirs[e] = None THEN <<>> ELSE checkInterested)
    /\ UNCHANGED <<held, stage, snap, wants, told, wanted, chokes, choked, downloads, asked, last,
                   shut, elsewhere, raced>>

(* The first bitfield lets the other end ask, and the tick download.       *)
ReceiveBitfield(e) ==
    /\ Receives(e, "bitfield")
    /\ theirs' = [theirs EXCEPT ![e] = Arg(e)]
    /\ Then(e, checkInterested \o
               (IF theirs[e] = None THEN <<Step("unchoke", None), Step("download", None)>>
                ELSE <<>>))
    /\ UNCHANGED <<held, stage, snap, wants, told, wanted, chokes, choked, downloads, asked, last,
                   shut, elsewhere, raced>>

(* A HAVE that comes before the bitfield closes the connection.            *)
ReceiveHave(e) ==
    /\ Receives(e, "have")
    /\ IF theirs[e] = None THEN shut' = TRUE /\ UNCHANGED <<theirs, work>>
       ELSE /\ theirs' = [theirs EXCEPT ![e] = @ \union {Arg(e)}]
            /\ Then(e, checkInterested) /\ UNCHANGED shut
    /\ UNCHANGED <<held, stage, snap, wants, told, wanted, chokes, choked, downloads, asked, last,
                   elsewhere, raced>>

ReceiveUnchoke(e) ==
    /\ Receives(e, "unchoke")
    /\ choked' = [choked EXCEPT ![e] = FALSE]
    /\ Then(e, checkInterested)
    /\ UNCHANGED <<held, stage, snap, theirs, wants, told, wanted, chokes, downloads, asked, last,
                   shut, elsewhere, raced>>

ReceiveInterest(e) ==
    /\ Receives(e, "interest")
    /\ wanted' = [wanted EXCEPT ![e] = Arg(e)]
    /\ UNCHANGED <<held, stage, snap, theirs, wants, told, chokes, choked, downloads, asked, last,
                   work, shut, elsewhere, raced>>

(* handlePieceRequest: the answer is read from the disk.                   *)
ReceiveRequest(e) ==
    /\ Receives(e, "request")
    /\ Then(e, <<Step("piece", Arg(e))>>)
    /\ UNCHANGED <<held, stage, snap, asked, shut, elsewhere, raced>> /\ UNCHANGED flags

(* gotDownload: the piece that was asked for is stored and verified.       *)
ReceivePiece(e) ==
    /\ Receives(e, "piece")
    /\ IF Arg(e) \in asked[e]
       THEN /\ asked' = [asked EXCEPT ![e] = @ \ {Arg(e)}]
            /\ held' = [held EXCEPT ![e] = @ \union {Arg(e)}]
            /\ Then(e, broadcastHave(Arg(e)))
       ELSE UNCHANGED <<asked, held, work>>
    /\ UNCHANGED <<stage, snap, shut, elsewhere, raced>> /\ UNCHANGED flags

(* Another connection completes a piece.                                   *)
Elsewhere(e, i) ==
    /\ ~shut /\ work[e]["other"] = <<>> /\ i \notin held[e]
    /\ elsewhere < MaxElsewhere /\ elsewhere' = elsewhere + 1
    /\ held' = [held EXCEPT ![e] = @ \union {i}]
    /\ work' = [work EXCEPT ![e]["other"] = broadcastHave(i)]
    /\ UNCHANGED <<stage, snap, asked, sent, shut, raced>> /\ UNCHANGED flags

-----------------------------------------------------------------------------
(* The steps of the run goroutines.                                        *)

\* mutant: only a connection whose bitfield was sent is told
VisitOnlyUp(e, g) ==
    /\ Now(e, g, "visit")
    /\ IF stage[e] # "up" THEN work' = [work EXCEPT ![e][g] = <<>>] ELSE GoOn(e, g, <<>>)
    /\ UNCHANGED <<held, stage, snap, asked, sent, shut, elsewhere, raced>> /\ UNCHANGED flags

(* broadcastHave takes the connections that are in the tables.             *)
Visit(e, g) ==
    /\ Now(e, g, "visit")
    /\ IF stage[e] = "none" THEN work' = [work EXCEPT ![e][g] = <<>>] ELSE GoOn(e, g, <<>>)
    /\ UNCHANGED <<held, stage, snap, asked, sent, shut, elsewhere, raced>> /\ UNCHANGED flags

Checking(e, g) ==
    work[e][g] # <<>> /\ Doing(e, g) \in {"assign", "compare", "record"}

(* checkInterested: the bitfields are read and compared, ...               *)
ReadBitfields(e, g) ==
    /\ Now(e, g, "read")
    /\ GoOn(e, g, <<Step("assign", theirs[e] # None /\ theirs[e] \ held[e] # {})>>)
    /\ raced' = IF \E h \in Runs \ {g} : Checking(e, h) THEN raced \union {e} ELSE raced
    /\ UNCHANGED <<held, stage, snap, asked, sent, shut, elsewhere>> /\ UNCHANGED flags

(* ... the result is stored, ...                                           *)
Assign(e, g) ==
    /\ Now(e, g, "assign")
    /\ wants' = [wants EXCEPT ![e] = work[e][g][1].arg]
    /\ GoOn(e, g, <<>>)
    /\ UNCHANGED <<held, stage, snap, theirs, told, wanted, chokes, choked, downloads, asked, last,
                   sent, shut, elsewhere, raced>>

(* ... sent if it is not what was sent last, ...                           *)
Compare(e, g) ==
    /\ Now(e, g, "compare")
    /\ IF wants[e] = told[e]
       THEN work' = [work EXCEPT ![e][g] = Tail(Tail(@))] /\ UNCHANGED sent
       ELSE GoOn(e, g, <<>>) /\ Send(e, Msg("interest", wants[e]))
    /\ UNCHANGED <<held, stage, snap, asked, shut, elsewhere, raced>> /\ UNCHANGED flags

\* mutant: what was sent is not recorded
RecordForgets(e, g) ==
    /\ Now(e, g, "record")
    /\ GoOn(e, g, <<>>)
    /\ UNCHANGED <<held, stage, snap, asked, sent, shut, elsewhere, raced>> /\ UNCHANGED flags

(* ... and recorded as sent.                                               *)
Record(e, g) ==
    /\ Now(e, g, "record")
    /\ told' = [told EXCEPT ![e] = wants[e]]
    /\ GoOn(e, g, <<>>)
    /\ UNCHANGED <<held, stage, snap, theirs, wants, wanted, chokes, choked, downloads, asked, last,
                   sent, shut, elsewhere, raced>>

Unchoke(e, g) ==
    /\ Now(e, g, "unchoke")
    /\ IF chokes[e] THEN Send(e, Msg("unchoke", None)) ELSE UNCHANGED sent
    /\ chokes' = [chokes EXCEPT ![e] = FALSE]
    /\ GoOn(e, g, <<>>)
    /\ UNCHANGED <<held, stage, snap, theirs, wants, told, wanted, choked, downloads, asked, last,
                   shut, elsewhere, raced>>

RunDownload(e, g) ==
    /\ Now(e, g, "download")
    /\ downloads' = [downloads EXCEPT ![e] = TRUE]
    /\ GoOn(e, g, <<>>)
    /\ UNCHANGED <<held, stage, snap, theirs, wants, told, wanted, chokes, choked, asked, last,
                   sent, shut, elsewhere, raced>>

(* A HAVE or the answer to a request is queued.                            *)
SendOne(e, g) ==
    /\ ~shut /\ work[e][g] # <<>> /\ Doing(e, g) \in {"have", "piece"}
    /\ Send(e, Msg(Doing(e, g), work[e][g][1].arg))
    /\ GoOn(e, g, <<>>)
    /\ UNCHANGED <<held, stage, snap, asked, shut, elsewhere, raced>> /\ UNCHANGED flags

-----------------------------------------------------------------------------
(* The tick asks for a piece, with a limit on the requests under way.      *)
(* NextRequest visits the piece of the last request first, if it is not    *)
(* under way, and asks for it again although it may be held by now.        *)
tickDownload(e) ==
    LET New == theirs[e] \ (held[e] \union asked[e]) IN
    /\ ~shut /\ downloads[e] /\ held[e] # Parts /\ wants[e] /\ ~choked[e]
    /\ Cardinality(asked[e]) < MaxRequests
    /\ \E i \in IF last[e] \in {None} \union asked[e] THEN New ELSE {last[e]} :
          /\ asked' = [asked EXCEPT ![e] = @ \union {i}]
          /\ last' = [last EXCEPT ![e] = i]
          /\ Send(e, Msg("request", i))
    /\ UNCHANGED <<held, stage, snap, theirs, wants, told, wanted, chokes, choked, downloads, work,
                   shut, elsewhere, raced>>

Making(e) == addPeer(e) \/ Snapshot(e) \/ SendBitfield(e)
Receive(e) ==
    \/ ReceiveBitfield(e) \/ ReceiveHave(e) \/ ReceiveUnchoke(e)
    \/ ReceiveInterest(e) \/ ReceiveRequest(e) \/ ReceivePiece(e)
Working(e, g) ==
    \/ Visit(e, g) \/ ReadBitfields(e, g) \/ Assign(e, g) \/ Compare(e, g) \/ Record(e, g)
    \/ Unchoke(e, g) \/ RunDownload(e, g) \/ SendOne(e, g)

Next ==
    \E e \in Ends :
        \/ Making(e) \/ Receive(e) \/ tickDownload(e)
        \/ \E g \in Runs : Working(e, g)
        \/ \E i \in Parts : Elsewhere(e, i)

(* Goroutines run, and what is sent arrives.  A run goroutine receives     *)
(* when it has nothing else to do.                                         *)
Fairness ==
    /\ WF_vars(\E e \in Ends : Making(e))
    /\ \A e \in Ends :
          /\ WF_vars(Receive(e) \/ Working(e, "run"))
          /\ WF_vars(Working(e, "other"))
          /\ WF_vars(tickDownload(e))

Spec == Init /\ [][Next]_vars /\ Fairness

-----------------------------------------------------------------------------
(* Properties.                                                             *)

UnderWay(e, type) == {sent[e][k].arg : k \in {n \in DOMAIN sent[e] : sent[e][n].type = type}}
ToBroadcast(e) ==
    LET Due(g) == {n \in DOMAIN work[e][g] : work[e][g][n].do \in {"have", "visit"}} IN
    UNION {{work[e][g][k].arg : k \in Due(g)} : g \in Runs}

(* What an end believes the other one has is true, and nothing is missing  *)
(* that is not under way or about to be broadcast, although pieces are     *)
(* completed while the bitfield is read and sent: the connection is in the *)
(* table before (torrent.go:653-656, 712-714).                             *)
NothingMissed ==
    ~shut => \A e \in Ends :
        LET o == Other(e)
            Claims == (IF theirs[o] = None THEN {} ELSE theirs[o])
                        \union (UNION UnderWay(e, "bitfield")) \union UnderWay(e, "have") IN
        /\ Claims \subseteq held[e]
        /\ stage[e] = "up" => held[e] \subseteq Claims \union ToBroadcast(e)

(* When nothing is left to do, an end that wants something of the other    *)
(* one has said so, and one that does not has said that, unless two        *)
(* goroutines met in checkInterested (peer.go:438-456).                    *)
InterestTold ==
    \A e \in Ends \ raced :
        /\ ~shut /\ theirs[e] # None /\ UnderWay(e, "interest") = {}
        /\ \A g \in Runs : work[e][g] = <<>>
        => wanted[Other(e)] <=> theirs[e] \ held[e] # {}

(* No end stops asking before it holds what the other one has: each lets   *)
(* the other ask, learns what there is, and asks, one piece after another, *)
(* or for a piece it has again, which keeps it from the others             *)
(* (Download.PicksNewPiece) - unless a HAVE closed the connection or       *)
(* checkInterested ran twice at a time (peer.go:492-588, 815-847).         *)
NoStandstill ==
    \A e \in Ends :
        []<>(\/ shut \/ raced # {} \/ held[Other(e)] \subseteq held[e]
             \/ asked[e] \intersect held[e] # {})
=============================================================================
