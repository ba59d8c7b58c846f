-------------------------- MODULE HmacBlockStream --------------------------
(***************************************************************************)
(* The HMAC block stream of a KDBX4 file (hmac_block_stream.rs): blocks of *)
(* <<"block", mac, size>> followed by as many cells, the mac over the      *)
(* index, the size and the cells, and an empty block at the end.  Reading  *)
(* is one step per block.                                                  *)
(***************************************************************************)
EXTENDS Integers, Sequences, Crypto

VARIABLES
    pc,         \* where the reader is
    data,       \* the file
    pos,        \* the next cell of it, or of what was last taken out of it
    index,      \* block_index
    out,        \* the blocks read
    result,     \* what the call returned
    hmacKey,    \* the key of the stream
    written     \* for the properties: the blocks that the writer of the file made

blockVars == <<pc, data, pos, index, out, result, hmacKey, written>>

NoResult == [kind |-> "none"]

\* A call that ends without a database, in an error or in a panic
Panic == "panic"
Failure(e) == [kind |-> IF e = Panic THEN "panic" ELSE "error", error |-> e]

Fail(e) == pc' = "done" /\ result' = Failure(e)
Proceed(to) == pc' = to /\ UNCHANGED result

----------------------------------------------------------------------------
BlockKey(i, key) == Sha512(<<i, key>>)
HeaderIndex == 99       \* u64::MAX, the index that stands for the header

BlockMac_NoIndex(i, key, cells) == Hmac(Sha512(<<key>>), <<Len(cells), cells>>)
BlockMac(i, key, cells) == Hmac(BlockKey(i, key), <<i, Len(cells), cells>>)

Block(i, key, cells) == <<<<"block", BlockMac(i, key, cells), Len(cells)>>>> \o cells

\* write_hmac_block_stream makes one block of all the data; other programs make
\* many.  The empty block at the end has the next index.
Stream(blocks, key) ==
    LET s[i \in 0 .. Len(blocks)] ==
            IF i = 0 THEN <<>> ELSE s[i - 1] \o Block(i - 1, key, blocks[i])
    IN s[Len(blocks)] \o Block(Len(blocks), key, <<>>)

BlocksOf(cells) == IF cells = <<>> THEN <<>> ELSE <<cells>>

----------------------------------------------------------------------------
(* read_hmac_block_stream.                                                 *)

\* A whole block begins here.  Where none does, what is taken for a mac and a
\* size is neither.
BlockAt(p) ==
    /\ p \in DOMAIN data
    /\ data[p][1] = "block"
    /\ data[p][3] \in Nat
    /\ p + data[p][3] <= Len(data)

CellsAt(p) == SubSeq(data, p + 1, p + data[p][3])
Verifies_Always(p, i) == TRUE
Verifies(p, i) == data[p][2] = BlockMac(i, hmacKey, CellsAt(p))

EndOfStream ==
    /\ pc = "blocks" /\ pos > Len(data)
    /\ Proceed("decrypt")
    /\ UNCHANGED <<data, pos, index, out, hmacKey, written>>

BrokenBlock ==
    /\ pc = "blocks" /\ pos <= Len(data)
    /\ BlockAt(pos) => ~Verifies(pos, index)
    /\ Fail(IF BlockAt(pos) THEN "BlockHashMismatch" ELSE "Eof")
    /\ UNCHANGED <<data, pos, index, out, hmacKey, written>>

NextIndex_Stuck(i) == IF i = 0 THEN 0 ELSE i + 1
NextIndex(i) == i + 1

ReadBlock ==
    /\ pc = "blocks" /\ BlockAt(pos) /\ Verifies(pos, index)
    /\ data[pos][3] > 0
    /\ out' = Append(out, CellsAt(pos))
    /\ pos' = pos + 1 + data[pos][3]
    /\ index' = NextIndex(index)
    /\ UNCHANGED <<pc, data, result, hmacKey, written>>

LastBlock_GoesOn ==
    /\ pc = "blocks" /\ BlockAt(pos) /\ Verifies(pos, index)
    /\ data[pos][3] = 0
    /\ pos' = pos + 1
    /\ index' = NextIndex(index)
    /\ UNCHANGED <<pc, data, out, result, hmacKey, written>>

LastBlock ==
    /\ pc = "blocks" /\ BlockAt(pos) /\ Verifies(pos, index)
    /\ data[pos][3] = 0
    /\ Proceed("decrypt")
    /\ pos' = pos + 1
    /\ index' = NextIndex(index)
    /\ UNCHANGED <<data, out, hmacKey, written>>

ReadStream == EndOfStream \/ BrokenBlock \/ ReadBlock \/ LastBlock

----------------------------------------------------------------------------
(* Properties.                                                             *)

\* Nobody else has the key: a block that verifies at an index, anywhere in the
\* file, is empty or the one that the writer made for that index.
Unforged ==
    \A p \in DOMAIN data : \A i \in 0 .. Len(data) :
        BlockAt(p) /\ Verifies(p, i) /\ data[p][3] > 0 =>
            i < Len(written) /\ CellsAt(p) = written[i + 1]

\* What is read of a stream is a prefix of what was written, whatever became of
\* the file: no block is skipped, repeated or taken from another place (the
\* indices of read_hmac_block_stream).
PrefixOfWritten ==
    /\ Len(out) <= Len(written)
    /\ \A i \in DOMAIN out : out[i] = written[i]

\* The reader of one stream, from anywhere in a file in which nothing is forged.
BlockInit ==
    /\ pc = "blocks"
    /\ (\E Cell : data \in Seq(Cell)) /\ (\E Cell : written \in Seq(Cell))
    /\ pos \in Nat \ {0} /\ index = 0 /\ out = <<>>
    /\ result = NoResult
    /\ Unforged

BlockSpec == BlockInit /\ [][ReadStream]_blockVars
=============================================================================
