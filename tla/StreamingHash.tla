------------------------------ MODULE StreamingHash ------------------------------
(****************************************************************************)
(* The hash of an input that arrives in pieces.  At most one block is kept   *)
(* between them.  What compressing a block does to the state is not modelled: *)
(* the state is the sequence of the blocks compressed.                       *)
(****************************************************************************)
EXTENDS Integers, Sequences, SequencesExt

\* A block is Block bytes, of which the last Trailer hold the length in bits.
CONSTANTS Block, Trailer, Byte

New == [state |-> <<>>, block |-> <<>>, total |-> 0]
Compress(h, block) == [h EXCEPT !.state = Append(@, block)]

Update(h, piece) ==
    LET take == IF h.block = <<>> THEN 0
                ELSE IF Block - Len(h.block) <= Len(piece) THEN Block - Len(h.block) ELSE Len(piece)
        joined == h.block \o SubSeq(piece, 1, take)
        rest == SubSeq(piece, take + 1, Len(piece))
        whole == Len(rest) \div Block
        filled == Len(joined) = Block
    IN [state |-> h.state \o (IF filled THEN <<joined>> ELSE <<>>)
                    \o [i \in 1..whole |-> SubSeq(rest, (i - 1) * Block + 1, i * Block)],
        block |-> IF Len(rest) % Block # 0 THEN SubSeq(rest, whole * Block + 1, Len(rest))
                  ELSE IF filled THEN <<>> ELSE joined,
        total |-> h.total + Len(piece)]

Padding(n) == [i \in 1..n |-> 0]
BigEndian(n) == [i \in 1..Trailer |-> (n \div Byte^(Trailer - i)) % Byte]
Marker == 128

\* Mutant: no room is left for a marker that ends just before the length.
CrampedAt(marked) == Len(marked) >= Block - Trailer
Cramped(marked) == Len(marked) > Block - Trailer

\* finish_hex: when the length does not fit behind the marker it takes a block
\* of its own.
Finish(h) ==
    LET marked == Append(h.block, Marker)
        room == Block - Trailer
        bits == BigEndian(h.total * 8)
    IN IF Cramped(marked)
       THEN Compress(Compress(h, marked \o Padding(Block - Len(marked))), Padding(room) \o bits).state
       ELSE Compress(h, marked \o Padding(room - Len(marked)) \o bits).state

Digest(pieces) ==
    LET f[i \in 0..Len(pieces)] == IF i = 0 THEN New ELSE Update(f[i-1], pieces[i])
    IN Finish(f[Len(pieces)])

--------------------------------------------------------------------------------
\* The definition of the padding: the least one that makes a multiple of Block.
Padded(message) ==
    LET short == CHOOSE n \in 0..(Block - 1) : (Len(message) + 1 + n + Trailer) % Block = 0
    IN Append(message, Marker) \o Padding(short) \o BigEndian(Len(message) * 8)
BlocksOf(bytes) == [i \in 1..(Len(bytes) \div Block) |-> SubSeq(bytes, (i - 1) * Block + 1, i * Block)]
================================================================================
