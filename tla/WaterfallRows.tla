---------------------------- MODULE WaterfallRows ----------------------------
(***************************************************************************)
(* A waterfall row on its way to the screen: the server cuts it into       *)
(* chunks below the MTU (UdpWaterfallSender), the network loses, reorders  *)
(* and repeats them, and WaterfallReassembler puts the row together and    *)
(* hands it to the display.  A row bears a row_seq that wraps, and each    *)
(* worker has a sender of its own that begins again at 0, while the client *)
(* keeps one reassembler for as long as it runs.                           *)
(***************************************************************************)
EXTENDS Integers, FiniteSets

CONSTANTS Rows,       \* bound: rows sent
          Senders,    \* bound: workers, one after the other
          RowIds,     \* values of the wrapping row_seq (2^16 in the code)
          Chunks,     \* chunks of one row (4 of 256 bins in the code)
          MaxRepeats, \* bound: datagrams delivered twice
          None

\* MCStreams assumes it of its instance.
RowIdsAssumption == RowIds \in Nat \ {0} /\ Chunks \in Nat \ {0}

VARIABLES sent,      \* the sender, the chunks it has sent over all its rows, and those
                     \* of the senders before
          net,       \* chunks in flight
          reasm,     \* the reassembler, and (history) the rows it took chunks from
          shown,     \* what it held when it last handed a row to the display
          repeats    \* chunks delivered twice

vars == <<sent, net, reasm, shown, repeats>>

Offsets == 0 .. Chunks - 1
RowNumbers == [sender : 1 .. Senders, number : 0 .. Rows - 1]
Chunk == [row : RowNumbers, offset : Offsets, finite : BOOLEAN]

RowSeq(row) == row.number % RowIds

\* Two rows a row_seq cannot tell apart: of two senders, or of one that has used every
\* id in between.
Far(x, y) == \/ x.sender # y.sender
             \/ x.number - y.number >= RowIds
             \/ y.number - x.number >= RowIds

\* What the buffer holds at an offset: the row it came from, None for 0.0.
Image == [Offsets -> RowNumbers \union {None}]
Blank == [o \in Offsets |-> None]

\* The bins of an image no chunk was written to.
Holes(image) == {o \in Offsets : image[o] = None}

Reassembly == [seq : 0 .. RowIds - 1 \union {None}, buf : Image, filled : 0 .. Chunks,
               done : BOOLEAN, from : SUBSET RowNumbers]

\* Every variable has its type.
TypeOK == /\ sent \in [sender : 1 .. Senders, chunks : 0 .. Rows * Chunks,
                       before : 0 .. Rows * Chunks]
          /\ net \subseteq Chunk
          /\ reasm \in Reassembly
          /\ shown \in Reassembly \union {None}
          /\ repeats \in 0 .. MaxRepeats

Init == /\ sent = [sender |-> 1, chunks |-> 0, before |-> 0] /\ net = {}
        /\ reasm = [seq |-> None, buf |-> Blank, filled |-> 0, done |-> FALSE, from |-> {}]
        /\ shown = None
        /\ repeats = 0

-----------------------------------------------------------------------------
\* send_row_db_to: the chunks of a row leave in order, errors ignored.  An FFT
\* may give a bin that is not finite.
SendChunk ==
  LET row == [sender |-> sent.sender, number |-> sent.chunks \div Chunks]
  IN
  /\ sent.before + sent.chunks < Rows * Chunks
  /\ \E finite \in BOOLEAN :
       net' = net \union {[row |-> row, offset |-> sent.chunks % Chunks,
                           finite |-> finite]}
  /\ sent' = [sent EXCEPT !.chunks = @ + 1]
  /\ UNCHANGED <<reasm, shown, repeats>>

\* The worker ends between two rows, and the next one has its own sender.
NextSender ==
  /\ sent.sender < Senders /\ sent.chunks % Chunks = 0
  /\ sent' = [sender |-> sent.sender + 1, chunks |-> 0,
              before |-> sent.before + sent.chunks]
  /\ UNCHANGED <<net, reasm, shown, repeats>>

Fresh(row) == [seq |-> RowSeq(row), buf |-> Blank, filled |-> 0, done |-> FALSE, from |-> {}]

\* Slip: a chunk of another row is put into the row at hand.
SameRowAlways(r, c) == IF r.seq = None THEN Fresh(c.row) ELSE r

\* A chunk of another row starts that row afresh.
ForRowOf(r, c) == IF r.seq # RowSeq(c.row) THEN Fresh(c.row) ELSE r

\* push_chunk.  A chunk that is not finite leaves the bins before the bad one
\* written and is not counted.
Taken(r, c) ==
  LET at == ForRowOf(r, c)
      written == [at EXCEPT !.buf[c.offset] = c.row, !.from = @ \union {c.row}]
      counted == [written EXCEPT !.filled = @ + 1, !.done = (at.filled + 1 >= Chunks)]
  IN IF at.done THEN at ELSE IF c.finite THEN counted ELSE written

Deliver ==
  \E c \in net, again \in BOOLEAN :
    /\ again => repeats < MaxRepeats
    /\ repeats' = IF again THEN repeats + 1 ELSE repeats
    /\ net' = IF again THEN net ELSE net \ {c}
    /\ reasm' = Taken(reasm, c)
    /\ shown' = IF reasm'.done /\ ~(reasm.done /\ reasm.seq = reasm'.seq)
                THEN reasm' ELSE shown
    /\ UNCHANGED sent

Next == SendChunk \/ NextSender \/ Deliver

Spec == Init /\ [][Next]_vars

-----------------------------------------------------------------------------
\* Whatever is lost, late or repeated, a row on the screen was put together from
\* chunks of one row, but for rows that no row_seq tells apart: those RowIds
\* apart with nothing received between them, and those of two senders (a late
\* chunk of the row before starts over, it does not slip in).
NotMixed == shown # None => \A x, y \in shown.from : x = y \/ Far(x, y)

\* As `filled' counts a repeated chunk twice, a row can be shown with a hole,
\* although rows are emitted "once every bin has arrived"; but one of chunks of
\* one row has no more holes than there were repeats: loss and reordering alone
\* leave none.
HolesRepeated ==
  shown # None /\ (\A x, y \in shown.from : x = y)
    => Cardinality(Holes(shown.buf)) <= repeats

RowsWhole == NotMixed /\ HolesRepeated

\* "an incomplete row is dropped when the next `row_seq` starts" (udp.rs:62-63),
\* also when the next row bears the same one.
OneRowAlways == shown # None => \A x, y \in shown.from : x = y

=============================================================================
