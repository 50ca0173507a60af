---------------------------- MODULE FileTransfer ----------------------------
(***************************************************************************)
(* The transfer of one file (FileTransfer.cpp, FileTransfer.h), with the   *)
(* cases of the message switch in startServer that drive it: one client    *)
(* downloads or uploads a file block by block, in whatever order it likes, *)
(* asks for blocks again, and starts over at any time.                     *)
(*                                                                         *)
(* The class never seeks to a block: it moves the stream by the difference *)
(* between the asked block and the block it believes the stream to be at.  *)
(* The difference is computed in 32 bits without sign and handed to fseek  *)
(* as a 64-bit long, which is why positions and block numbers are kept     *)
(* apart here.  A byte of a file is identified by its offset: what a       *)
(* client wants stored at offset p is byte p.                              *)
(***************************************************************************)
EXTENDS Integers

CONSTANTS B,        \* FILE_BLOCK_SIZE
          WORD,     \* the number of values of a uint32_t
          Sizes,    \* the sizes of the files there are to download
          Counts,   \* the numbers of blocks that uploads announce
          Lengths,  \* the lengths of the blocks a client sends
          MaxPos    \* bound: requests that move the stream further are left out

ASSUME FileTransferAssumption ==
    /\ B \in Nat \ {0}
    /\ WORD \in Nat \ {0}
    /\ Sizes \subseteq Nat
    /\ Counts \subseteq 0..(WORD - 1)
    /\ Lengths \subseteq Nat
    /\ MaxPos \in Nat

BlockNum == 0..(WORD - 1)
NoBlock  == -1

VARIABLES
    state,       \* ERROR, UPLOAD or DOWNLOAD
    blocksCount,
    cursor,      \* currentCursorBlock
    open,        \* file # nullptr
    pos,         \* the position of the stream `file'
    size,        \* the length of the file that is downloaded
    handles,     \* streams opened and not closed
    todo,        \* the blocks askForBlocksRange has still to send
    last,        \* the last answer to the client
    straight,    \* history: the client only went forward, in whole blocks
    acked,       \* history: the bytes acknowledged in this upload, while straight
    disk         \* history: what the file holds at which offset, while straight

object  == <<state, blocksCount, cursor, open>>
stream  == <<pos, size, handles>>
history == <<straight, acked, disk>>
vars    == <<object, stream, todo, last, history>>

NoRange == <<>>
Empty   == [p \in {} |-> 0]

Codes == {"NONE", "ACTION_COMPLETED", "ERROR_OCCURED", "FILE_BLOCK_MD5_MISMATCH",
          "BLOCK_NUM_OUTRANGE", "DOWNLOAD_FILE_BLOCK"}

\* An answer that moves no bytes, about block b.
Answer(code, b) == last' = [code |-> code, block |-> b, at |-> 0, n |-> 0]

Init ==
    /\ state = "ERROR" /\ blocksCount = 0 /\ cursor = 0 /\ open = FALSE
    /\ pos = 0 /\ size = 0 /\ handles = 0
    /\ todo = NoRange
    /\ last = [code |-> "NONE", block |-> NoBlock, at |-> 0, n |-> 0]
    /\ straight = TRUE /\ acked = {} /\ disk = Empty

-----------------------------------------------------------------------------
(* Starting and ending a transfer.                                         *)

\* Mutant: close() forgets the stream without closing it.
HandlesLost == handles

\* The streams that are left once close() has been called.
HandlesClosed == handles - (IF open THEN 1 ELSE 0)

ForgetHistory == straight' = TRUE /\ acked' = {} /\ disk' = Empty

\* Mutant: the number of blocks keeps its 64 bits.
BlocksOfWide(sz) == sz \div B + (IF sz % B # 0 THEN 1 ELSE 0)

\* Blocks of a file of sz bytes, in the 32 bits of blocksCount.
BlocksOf(sz) == (sz \div B + (IF sz % B # 0 THEN 1 ELSE 0)) % WORD

\* Both reset functions close the transfer that is under way before they look at
\* the new one: after a failure there is none.
ResetFails ==
    /\ todo = NoRange
    /\ state' = "ERROR" /\ open' = FALSE
    /\ handles' = HandlesClosed
    /\ Answer("ERROR_OCCURED", NoBlock)
    /\ ForgetHistory
    /\ UNCHANGED <<blocksCount, cursor, pos, size, todo>>

\* FILE_DOWNLOAD of a file of sz bytes.  For an empty file the answer is an error,
\* and the stream stays open.
ResetDownload(sz) ==
    /\ todo = NoRange
    /\ open' = TRUE
    /\ handles' = HandlesClosed + 1
    /\ size' = sz
    /\ cursor' = 0
    /\ blocksCount' = BlocksOf(sz)
    /\ IF BlocksOf(sz) = 0
       THEN state' = "ERROR" /\ pos' = sz /\ Answer("ERROR_OCCURED", NoBlock)
       ELSE state' = "DOWNLOAD" /\ pos' = 0 /\ Answer("ACTION_COMPLETED", NoBlock)
    /\ ForgetHistory
    /\ UNCHANGED todo

\* FILE_UPLOAD that announces count blocks (none at all is ResetFails).
ResetUpload(count) ==
    /\ todo = NoRange
    /\ count # 0
    /\ state' = "UPLOAD" /\ open' = TRUE
    /\ handles' = HandlesClosed + 1
    /\ cursor' = 0
    /\ blocksCount' = count
    /\ pos' = 0 /\ size' = 0
    /\ Answer("ACTION_COMPLETED", NoBlock)
    /\ ForgetHistory
    /\ UNCHANGED todo

\* close(), and nothing else of the object.
Close ==
    /\ state' = "ERROR" /\ open' = FALSE
    /\ handles' = HandlesClosed
    /\ UNCHANGED <<blocksCount, cursor, pos, size>>

\* END_FILE_TRANSFER
EndTransfer ==
    /\ todo = NoRange
    /\ state # "ERROR"
    /\ Close
    /\ Answer("ACTION_COMPLETED", NoBlock)
    /\ UNCHANGED <<todo, history>>

\* The user is removed, and its FileTransfer with it; the next one that the client
\* gets is a new one.
Destroy ==
    /\ todo = NoRange
    /\ state' = "ERROR" /\ blocksCount' = 0 /\ cursor' = 0 /\ open' = FALSE
    /\ handles' = HandlesClosed
    /\ Answer("NONE", NoBlock)
    /\ UNCHANGED <<pos, size, todo, history>>

\* A block, a question for blocks, or the end of a transfer, when there is none.
NoTransfer ==
    /\ todo = NoRange
    /\ state = "ERROR"
    /\ Answer("ERROR_OCCURED", NoBlock)
    /\ UNCHANGED <<object, stream, todo, history>>

-----------------------------------------------------------------------------
(* Blocks.                                                                 *)

\* Mutant: the difference is not multiplied by the size of a block.
SeekByNumber(b) == pos + ((b - cursor) % WORD)

\* Where the stream is when block b is about to be read or written: the offset
\* given to fseek is an unsigned 32-bit number in a wider long, never negative.
Seek(b) == IF cursor = b THEN pos ELSE pos + (((b - cursor) * B) % WORD)

\* History: block b is not behind the one that is due, and near enough for the
\* offset to fit into 32 bits.
Ahead(b) == cursor <= b /\ (b - cursor) * B < WORD /\ b + 1 < WORD

\* What fread gets at offset at.
Available(at) ==
    IF at >= size THEN 0 ELSE IF size - at < B THEN size - at ELSE B

\* askForBlock
Serve(b) ==
    \/ /\ b > blocksCount
       /\ Answer("BLOCK_NUM_OUTRANGE", b)
       /\ UNCHANGED <<object, stream, history>>
    \/ /\ b <= blocksCount
       /\ state # "DOWNLOAD"
       /\ Answer("ERROR_OCCURED", NoBlock)
       /\ UNCHANGED <<object, stream, history>>
    \/ /\ b <= blocksCount
       /\ state = "DOWNLOAD"
       /\ pos' = Seek(b) + Available(Seek(b))
       /\ cursor' = (b + 1) % WORD
       /\ last' = [code |-> "DOWNLOAD_FILE_BLOCK", block |-> b,
                   at |-> Seek(b), n |-> Available(Seek(b))]
       /\ straight' = (straight /\ Ahead(b))
       /\ UNCHANGED <<state, blocksCount, open, size, handles, acked, disk>>

\* ASK_BLOCK
AskBlock(b) ==
    /\ todo = NoRange
    /\ state # "ERROR"
    /\ Seek(b) <= MaxPos
    /\ Serve(b)
    /\ UNCHANGED todo

\* Mutant: the last block of the range belongs to it.
InRangeClosed(start, end) == start <= end

\* The condition of the loop of askForBlocksRange.
InRange(start, end) == start < end

RangeFrom(start, end) == IF InRange(start, end) THEN <<start, end>> ELSE NoRange

\* ASK_BLOCK_RANGE: the server does nothing else until the last block is sent.
AskRange(start, end) ==
    /\ todo = NoRange
    /\ state # "ERROR"
    /\ Seek(start) <= MaxPos
    /\ todo' = RangeFrom(start, end)
    /\ UNCHANGED <<object, stream, last, history>>

RangeStep ==
    /\ todo # NoRange
    /\ Serve(todo[1])
    /\ todo' = RangeFrom((todo[1] + 1) % WORD, todo[2])

\* The bytes of the client's file that block b of n bytes carries.
Bytes(b, n) == (b * B)..(b * B + n - 1)

\* The file after n bytes that begin with byte `from' were written at offset at.
Written(at, from, n) ==
    [p \in DOMAIN disk \union (at..(at + n - 1)) |->
        IF p \in at..(at + n - 1) THEN from + (p - at) ELSE disk[p]]

\* History: a block is whole, or it is the last one and shorter.
Whole(b, n) == n = B \/ (n < B /\ b = blocksCount - 1)

\* Mutant: the number after the last block is accepted, as in askForBlock.
ReceiveBlockPast(b, n) ==
    /\ todo = NoRange
    /\ state = "UPLOAD"
    /\ b <= blocksCount
    /\ Seek(b) <= MaxPos
    /\ pos' = Seek(b) + n
    /\ cursor' = (b + 1) % WORD
    /\ last' = [code |-> "ACTION_COMPLETED", block |-> b, at |-> Seek(b), n |-> n]
    /\ straight' = (straight /\ Ahead(b) /\ Whole(b, n))
    /\ IF straight'
       THEN /\ acked' = acked \union Bytes(b, n)
            /\ disk' = Written(Seek(b), b * B, n)
       ELSE acked' = {} /\ disk' = Empty
    /\ UNCHANGED <<state, blocksCount, open, size, handles, todo>>

\* FILE_BLOCK that is stored.
ReceiveBlock(b, n) ==
    /\ todo = NoRange
    /\ state = "UPLOAD"
    /\ b < blocksCount
    /\ Seek(b) <= MaxPos
    /\ pos' = Seek(b) + n
    /\ cursor' = (b + 1) % WORD
    /\ last' = [code |-> "ACTION_COMPLETED", block |-> b, at |-> Seek(b), n |-> n]
    /\ straight' = (straight /\ Ahead(b) /\ Whole(b, n))
    /\ IF straight'
       THEN /\ acked' = acked \union Bytes(b, n)
            /\ disk' = Written(Seek(b), b * B, n)
       ELSE acked' = {} /\ disk' = Empty
    /\ UNCHANGED <<state, blocksCount, open, size, handles, todo>>

\* FILE_BLOCK that is not: not an upload, the number out of range, or the length in
\* the header not the one of the datagram; or all of this is right and the MD5 is not.
RejectBlock(b) ==
    /\ todo = NoRange
    /\ state # "ERROR"
    /\ \/ Answer("ERROR_OCCURED", b)
       \/ state = "UPLOAD" /\ b < blocksCount /\ Answer("FILE_BLOCK_MD5_MISMATCH", b)
    /\ UNCHANGED <<object, stream, todo, history>>

-----------------------------------------------------------------------------
Next ==
    \/ ResetFails
    \/ \E sz \in Sizes : ResetDownload(sz)
    \/ \E count \in Counts : ResetUpload(count)
    \/ EndTransfer \/ Destroy \/ NoTransfer
    \/ \E b \in BlockNum : AskBlock(b)
    \/ \E start, end \in BlockNum : AskRange(start, end)
    \/ RangeStep
    \/ \E b \in BlockNum, n \in Lengths : ReceiveBlock(b, n)
    \/ \E b \in BlockNum : RejectBlock(b)

Spec == Init /\ [][Next]_vars

\* The thread that serves a range is never held up.
FairSpec == Spec /\ WF_vars(RangeStep)

-----------------------------------------------------------------------------
\* Every variable keeps its type; the block numbers fit into their 32 bits.
TypeOK ==
    /\ state \in {"ERROR", "UPLOAD", "DOWNLOAD"}
    /\ blocksCount \in BlockNum
    /\ cursor \in BlockNum
    /\ open \in BOOLEAN
    /\ pos \in Nat /\ size \in Nat /\ handles \in Int
    /\ todo = NoRange \/ todo \in BlockNum \X BlockNum
    /\ last \in [code : Codes, block : BlockNum \union {NoBlock}, at : Nat, n : Nat]
    /\ straight \in BOOLEAN
    /\ acked \subseteq Nat
    /\ DOMAIN disk \subseteq Nat
    /\ disk \in [DOMAIN disk -> Nat]

\* No stream is lost and none is closed twice, however transfers start, fail, end
\* and are cut off by another; a transfer that is on has its stream, which the
\* handlers of the blocks use without looking.
HandleAccounts ==
    /\ handles = (IF open THEN 1 ELSE 0)
    /\ state # "ERROR" => open

\* The bytes of block b in the file that is downloaded.
Length(b) == Available(b * B)

\* The last answer is about the right bytes of the file.
RightBytes ==
    /\ last.code = "DOWNLOAD_FILE_BLOCK" =>
          last.n = Length(last.block) /\ (last.n > 0 => last.at = last.block * B)
    /\ last.code = "ACTION_COMPLETED" /\ last.block # NoBlock => last.at = last.block * B

\* A client that only goes forward, by less than 2^32 bytes at a time, and uploads
\* whole blocks, is sent the bytes it asked for and has its bytes put where they
\* belong, though the stream is only ever moved by differences.
StraightIsRight == straight => RightBytes

\* Such a client, when it has acknowledgements for all blocks, has its file on the
\* server byte for byte: later blocks damage none of the earlier ones, and nothing
\* is written beyond the blocks that were announced.
UploadIntact ==
    straight =>
        /\ acked = DOMAIN disk
        /\ \A p \in acked : disk[p] = p
        /\ state = "UPLOAD" => \A p \in acked : p < blocksCount * B

\* A range comes to its end, and the server gets back to its other clients.
RangeEnds == todo # NoRange ~> todo = NoRange

-----------------------------------------------------------------------------
(* What the documentation says, and the code does not do.                  *)

\* "a function that manages when the user asks for block number. the function would
\* send the block" (FileTransfer.h:59-60), whatever was asked before.
AskedBlockIsSent ==
    last.code = "DOWNLOAD_FILE_BLOCK" =>
        last.n = Length(last.block) /\ (last.n > 0 => last.at = last.block * B)
=============================================================================
