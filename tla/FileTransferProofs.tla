------------------------- MODULE FileTransferProofs -------------------------
(***************************************************************************)
(* Proofs about FileTransfer, for every block size, every word width and   *)
(* every set of files, announced counts and block lengths.                 *)
(***************************************************************************)
EXTENDS FileTransfer, TLAPS

-----------------------------------------------------------------------------
(* Arithmetic.                                                             *)

\* What is cut to the width of a word fits into it, and is left alone if it did.
LEMMA WordMod ==
    /\ \A x \in Int : x % WORD \in BlockNum
    /\ \A x \in BlockNum : x % WORD = x
  BY FileTransferAssumption DEF BlockNum

\* Where blocks begin.
LEMMA BlockStart ==
    /\ \A x \in Nat : x * B \in Nat
    /\ \A x, y \in Nat : x <= y => /\ (y - x) * B = y * B - x * B
                                   /\ x * B <= y * B
    /\ \A x, y \in Nat : x < y => x * B + B <= y * B
    /\ \A x \in Nat : (x + 1) * B = x * B + B
  BY FileTransferAssumption

LEMMA EmptyType == DOMAIN Empty = {} /\ Empty \in [DOMAIN Empty -> Nat]
  BY DEF Empty

\* An answer that moves no bytes is a well-formed one.
LEMMA AnswerType ==
    ASSUME NEW code \in Codes, NEW b \in BlockNum \union {NoBlock}, Answer(code, b)
    PROVE  last' \in [code : Codes, block : BlockNum \union {NoBlock}, at : Nat, n : Nat]
  BY DEF Answer

LEMMA BlocksOfType == \A sz \in Nat : BlocksOf(sz) \in BlockNum
  <1> SUFFICES ASSUME NEW sz \in Nat PROVE BlocksOf(sz) \in BlockNum
    OBVIOUS
  <1>1. sz \div B \in Int
    BY FileTransferAssumption
  <1>2. QED
    BY <1>1, WordMod DEF BlocksOf

LEMMA SeekType ==
    ASSUME TypeOK, NEW b \in BlockNum
    PROVE  Seek(b) \in Nat
  <1>1. (b - cursor) * B \in Int
    BY FileTransferAssumption DEF TypeOK, BlockNum
  <1>2. ((b - cursor) * B) % WORD \in Nat
    BY <1>1, WordMod, FileTransferAssumption DEF BlockNum
  <1>3. QED
    BY <1>2 DEF Seek, TypeOK

\* Going forward, the offset is what it would be with unbounded integers.
LEMMA SeekAhead ==
    ASSUME TypeOK, NEW b \in BlockNum, Ahead(b)
    PROVE  Seek(b) = pos + (b * B - cursor * B) /\ cursor * B <= b * B
  <1>1. b \in Nat /\ cursor \in Nat /\ cursor <= b /\ pos \in Nat
    BY FileTransferAssumption DEF TypeOK, BlockNum, Ahead
  <1>2. (b - cursor) * B = b * B - cursor * B /\ cursor * B <= b * B
    BY <1>1, BlockStart
  <1>3. b * B \in Nat /\ cursor * B \in Nat
    BY <1>1, BlockStart
  <1>4. (b - cursor) * B \in BlockNum
    BY <1>2, <1>3, FileTransferAssumption DEF Ahead, BlockNum
  <1>5. ((b - cursor) * B) % WORD = (b - cursor) * B
    BY <1>4, WordMod
  <1>6. CASE cursor = b
    BY <1>1, <1>2, <1>3, <1>6 DEF Seek
  <1>7. CASE cursor # b
    BY <1>1, <1>2, <1>3, <1>5, <1>7 DEF Seek
  <1>8. QED
    BY <1>6, <1>7

LEMMA AvailableType ==
    ASSUME TypeOK, NEW at \in Nat
    PROVE  Available(at) \in Nat /\ Available(at) <= B
  BY FileTransferAssumption DEF TypeOK, Available

-----------------------------------------------------------------------------
(* The inductive invariant.                                                *)

\* Where the stream of a straight transfer is: at the block it is believed to be
\* at, unless a short block has been read or written, which was the last one.
StreamInStep ==
    straight =>
        /\ state = "DOWNLOAD" => pos = cursor * B \/ (pos >= size /\ cursor * B >= size)
        /\ state = "UPLOAD" => pos = cursor * B \/ cursor >= blocksCount

\* What has been uploaded lies behind the stream.
UploadedBehind ==
    straight /\ state = "UPLOAD" => \A p \in acked : p < cursor * B

Inv == /\ TypeOK
       /\ HandleAccounts
       /\ StreamInStep
       /\ UploadedBehind
       /\ UploadIntact
       /\ StraightIsRight

LEMMA InitInv == Init => Inv
  <1> SUFFICES ASSUME Init PROVE Inv
    OBVIOUS
  <1> USE FileTransferAssumption DEF Init
  <1>1. TypeOK
    <2>1. 0 \in BlockNum /\ "NONE" \in Codes
      BY DEF BlockNum, Codes
    <2>2. last \in [code : Codes, block : BlockNum \union {NoBlock}, at : Nat, n : Nat]
      BY <2>1
    <2>3. disk \in [DOMAIN disk -> Nat] /\ DOMAIN disk \subseteq Nat
      BY EmptyType
    <2>4. open \in BOOLEAN /\ straight \in BOOLEAN
      OBVIOUS
    <2>5. todo = NoRange
      OBVIOUS
    <2>6. /\ state \in {"ERROR", "UPLOAD", "DOWNLOAD"}
          /\ blocksCount \in BlockNum /\ cursor \in BlockNum
          /\ pos \in Nat /\ size \in Nat /\ handles \in Int
          /\ acked \subseteq Nat
      BY <2>1
    <2>7. QED
      BY <2>2, <2>3, <2>4, <2>5, <2>6 DEF TypeOK
  <1>2. HandleAccounts /\ StreamInStep /\ UploadedBehind
    BY DEF HandleAccounts, StreamInStep, UploadedBehind
  <1>3. UploadIntact
    BY DEF UploadIntact, Empty
  <1>4. StraightIsRight
    BY DEF StraightIsRight, RightBytes
  <1>5. QED
    BY <1>1, <1>2, <1>3, <1>4 DEF Inv

\* Starting, ending and refusing transfers.
LEMMA ControlInv ==
    ASSUME Inv,
           \/ ResetFails
           \/ \E sz \in Sizes : ResetDownload(sz)
           \/ \E count \in Counts : ResetUpload(count)
           \/ EndTransfer \/ Destroy \/ NoTransfer
    PROVE  Inv'
  <1> USE FileTransferAssumption DEF object, stream, history
  <1>0. TypeOK /\ HandleAccounts /\ StreamInStep /\ UploadedBehind /\ UploadIntact
        /\ StraightIsRight
    BY DEF Inv
  <1>1. CASE ResetFails
    <2>1. TypeOK'
      <3>1. "ERROR_OCCURED" \in Codes
        BY DEF Codes
      <3>2. last' \in [code : Codes, block : BlockNum \union {NoBlock}, at : Nat, n : Nat]
        BY <1>1, <3>1, AnswerType DEF ResetFails
      <3>3. HandlesClosed \in Int
        BY <1>0 DEF HandlesClosed, TypeOK
      <3>4. QED
        BY <1>0, <1>1, <3>2, <3>3, EmptyType DEF ResetFails, TypeOK, ForgetHistory
    <2>2. HandleAccounts'
      BY <1>0, <1>1 DEF ResetFails, HandleAccounts, HandlesClosed
    <2>3. (StreamInStep /\ UploadedBehind /\ UploadIntact /\ StraightIsRight)'
      BY <1>1 DEF ResetFails, Answer, ForgetHistory, Empty, StreamInStep, UploadedBehind,
         UploadIntact, StraightIsRight, RightBytes
    <2>4. QED
      BY <2>1, <2>2, <2>3 DEF Inv
  <1>2. ASSUME NEW sz \in Sizes, ResetDownload(sz) PROVE Inv'
    <2>0. sz \in Nat /\ BlocksOf(sz) \in BlockNum
      BY BlocksOfType
    <2>1. TypeOK'
      BY <1>0, <1>2, <2>0 DEF ResetDownload, TypeOK, HandlesClosed, Answer, Codes,
         ForgetHistory, Empty, BlockNum
    <2>2. HandleAccounts'
      BY <1>0, <1>2 DEF ResetDownload, HandleAccounts, HandlesClosed
    <2>3. (StreamInStep /\ UploadedBehind /\ UploadIntact /\ StraightIsRight)'
      BY <1>2 DEF ResetDownload, Answer, ForgetHistory, Empty, StreamInStep,
         UploadedBehind, UploadIntact, StraightIsRight, RightBytes
    <2>4. QED
      BY <2>1, <2>2, <2>3 DEF Inv
  <1>3. ASSUME NEW count \in Counts, ResetUpload(count) PROVE Inv'
    <2>1. TypeOK'
      BY <1>0, <1>3 DEF ResetUpload, TypeOK, HandlesClosed, Answer, Codes,
         ForgetHistory, Empty, BlockNum
    <2>2. HandleAccounts'
      BY <1>0, <1>3 DEF ResetUpload, HandleAccounts, HandlesClosed
    <2>3. (StreamInStep /\ UploadedBehind /\ UploadIntact /\ StraightIsRight)'
      BY <1>3 DEF ResetUpload, Answer, ForgetHistory, Empty, StreamInStep,
         UploadedBehind, UploadIntact, StraightIsRight, RightBytes
    <2>4. QED
      BY <2>1, <2>2, <2>3 DEF Inv
  <1>4. CASE EndTransfer \/ Destroy
    <2>1. TypeOK'
      <3>1. "ACTION_COMPLETED" \in Codes /\ "NONE" \in Codes /\ 0 \in BlockNum
        BY DEF Codes, BlockNum
      <3>2. last' \in [code : Codes, block : BlockNum \union {NoBlock}, at : Nat, n : Nat]
        BY <1>4, <3>1, AnswerType DEF EndTransfer, Destroy
      <3>3. HandlesClosed \in Int
        BY <1>0 DEF HandlesClosed, TypeOK
      <3>4. QED
        BY <1>0, <1>4, <3>1, <3>2, <3>3 DEF EndTransfer, Destroy, Close, TypeOK
    <2>2. HandleAccounts'
      BY <1>0, <1>4 DEF EndTransfer, Destroy, Close, HandleAccounts, HandlesClosed
    <2>3. (StreamInStep /\ UploadedBehind /\ UploadIntact /\ StraightIsRight)'
      BY <1>0, <1>4 DEF EndTransfer, Destroy, Close, Answer, StreamInStep,
         UploadedBehind, UploadIntact, StraightIsRight, RightBytes
    <2>4. QED
      BY <2>1, <2>2, <2>3 DEF Inv
  <1>5. CASE NoTransfer
    <2>1. TypeOK'
      BY <1>0, <1>5 DEF NoTransfer, TypeOK, Answer, Codes
    <2>2. (HandleAccounts /\ StreamInStep /\ UploadedBehind /\ UploadIntact)'
      BY <1>0, <1>5 DEF NoTransfer, HandleAccounts, StreamInStep, UploadedBehind, UploadIntact
    <2>3. StraightIsRight'
      BY <1>5 DEF NoTransfer, Answer, StraightIsRight, RightBytes
    <2>4. QED
      BY <2>1, <2>2, <2>3 DEF Inv
  <1>6. QED
    BY <1>1, <1>2, <1>3, <1>4, <1>5

\* A block that is sent: the stream was where the block is, or past the end.
LEMMA ServeInv ==
    ASSUME Inv, NEW b \in BlockNum, Serve(b),
           todo' = NoRange \/ todo' \in BlockNum \X BlockNum
    PROVE  Inv'
  <1> USE FileTransferAssumption DEF object, stream, history
  <1>0. TypeOK /\ HandleAccounts /\ StreamInStep /\ UploadedBehind /\ UploadIntact
        /\ StraightIsRight
    BY DEF Inv
  <1>1. CASE /\ UNCHANGED <<object, stream, history>>
             /\ \/ Answer("BLOCK_NUM_OUTRANGE", b)
                \/ Answer("ERROR_OCCURED", NoBlock)
    <2>1. TypeOK'
      BY <1>0, <1>1 DEF TypeOK, Answer, Codes
    <2>2. (HandleAccounts /\ StreamInStep /\ UploadedBehind /\ UploadIntact)'
      BY <1>0, <1>1 DEF HandleAccounts, StreamInStep, UploadedBehind, UploadIntact
    <2>3. StraightIsRight'
      BY <1>1 DEF Answer, StraightIsRight, RightBytes
    <2>4. QED
      BY <2>1, <2>2, <2>3 DEF Inv
  <1>2. ASSUME state = "DOWNLOAD",
               pos' = Seek(b) + Available(Seek(b)),
               cursor' = (b + 1) % WORD,
               last' = [code |-> "DOWNLOAD_FILE_BLOCK", block |-> b,
                        at |-> Seek(b), n |-> Available(Seek(b))],
               straight' = (straight /\ Ahead(b)),
               UNCHANGED <<state, blocksCount, open, size, handles, acked, disk>>
        PROVE  Inv'
    <2>0. /\ Seek(b) \in Nat /\ Available(Seek(b)) \in Nat
          /\ b \in Nat /\ cursor \in Nat /\ pos \in Nat /\ size \in Nat
      BY <1>0, SeekType, AvailableType DEF TypeOK, BlockNum
    <2>c. cursor' \in BlockNum
      BY <1>2, <2>0, WordMod
    <2>s. straight' \in BOOLEAN
      BY <1>0, <1>2 DEF TypeOK
    <2>1. TypeOK'
      BY <1>0, <1>2, <2>0, <2>c, <2>s DEF TypeOK, Codes
    <2>2. HandleAccounts' /\ UploadedBehind' /\ UploadIntact'
      BY <1>0, <1>2 DEF HandleAccounts, UploadedBehind, UploadIntact
    <2>3. ASSUME straight' PROVE StreamInStep' /\ RightBytes'
      <3>1. straight /\ Ahead(b)
        BY <1>2, <2>3
      <3>2. b + 1 \in BlockNum /\ cursor' = b + 1
        BY <1>2, <2>0, <3>1, WordMod DEF Ahead, BlockNum
      <3>3. Seek(b) = pos + (b * B - cursor * B) /\ cursor * B <= b * B
        BY <1>0, <3>1, SeekAhead
      <3>4. b * B \in Nat /\ cursor * B \in Nat /\ (b + 1) * B = b * B + B
        BY <2>0, BlockStart
      <3>5. \/ Seek(b) = b * B
            \/ Seek(b) >= size /\ b * B >= size
        <4>1. pos = cursor * B \/ (pos >= size /\ cursor * B >= size)
          BY <1>0, <1>2, <3>1 DEF StreamInStep
        <4>2. QED
          BY <2>0, <3>3, <3>4, <4>1
      <3>6. Available(Seek(b)) = Available(b * B)
        BY <2>0, <3>4, <3>5 DEF Available
      <3>7. Available(Seek(b)) > 0 => Seek(b) = b * B
        BY <2>0, <3>4, <3>5 DEF Available
      <3>8. RightBytes'
        BY <1>2, <3>6, <3>7 DEF RightBytes, Length, Available
      <3>9. \/ pos' = (b + 1) * B
            \/ pos' >= size /\ (b + 1) * B >= size
        BY <1>2, <2>0, <3>4, <3>5 DEF Available
      <3>10. StreamInStep'
        BY <1>2, <3>2, <3>9 DEF StreamInStep
      <3>11. QED
        BY <3>8, <3>10
    <2>4. StreamInStep' /\ StraightIsRight'
      BY <2>3 DEF StreamInStep, StraightIsRight
    <2>5. QED
      BY <2>1, <2>2, <2>4 DEF Inv
  <1>3. QED
    BY <1>1, <1>2 DEF Serve

\* A block that is stored: it is put behind everything stored before.
LEMMA ReceiveInv ==
    ASSUME Inv, NEW b \in BlockNum, NEW n \in Lengths, ReceiveBlock(b, n)
    PROVE  Inv'
  <1> USE FileTransferAssumption DEF ReceiveBlock
  <1>0. TypeOK /\ HandleAccounts /\ StreamInStep /\ UploadedBehind /\ UploadIntact
    BY DEF Inv
  <1>f. /\ Seek(b) \in Nat /\ n \in Nat /\ b \in Nat /\ cursor \in Nat /\ pos \in Nat
        /\ b * B \in Nat /\ cursor * B \in Nat /\ blocksCount \in Nat
    BY <1>0, SeekType, BlockStart DEF TypeOK, BlockNum
  <1>c. cursor' \in BlockNum
    BY <1>f, WordMod
  <1>s. straight' \in BOOLEAN
    BY <1>0 DEF TypeOK
  <1>1. HandleAccounts'
    BY <1>0 DEF HandleAccounts
  <1>2. CASE ~straight'
    <2>1. acked' = {} /\ disk' = Empty
      BY <1>2
    <2>2. TypeOK'
      BY <1>0, <1>f, <1>c, <1>s, <2>1 DEF TypeOK, Codes, Empty
    <2>3. QED
      BY <1>1, <1>2, <2>2 DEF Inv, StreamInStep, UploadedBehind, UploadIntact, StraightIsRight
  <1>3. CASE straight'
    <2>1. straight /\ Ahead(b) /\ Whole(b, n)
      BY <1>3
    <2>2. b + 1 \in BlockNum /\ cursor' = b + 1
      BY <1>f, <2>1, WordMod DEF Ahead, BlockNum
    <2>3. Seek(b) = pos + (b * B - cursor * B) /\ cursor * B <= b * B
      BY <1>0, <2>1, SeekAhead
    <2>4. cursor <= b
      BY <2>1 DEF Ahead
    <2>5. pos = cursor * B
      BY <1>0, <1>f, <2>1, <2>4 DEF StreamInStep
    <2>6. Seek(b) = b * B
      BY <1>f, <2>3, <2>5
    <2>7. n <= B /\ (n = B \/ b = blocksCount - 1)
      BY <1>f, <2>1 DEF Whole
    <2>8. (b + 1) * B = b * B + B /\ b * B + B <= blocksCount * B /\ blocksCount * B \in Nat
      BY <1>f, BlockStart
    <2>9. acked' = acked \union (b * B)..(b * B + n - 1)
      BY <1>3 DEF Bytes
    <2>10. disk' = [p \in DOMAIN disk \union ((b * B)..(b * B + n - 1)) |->
                       IF p \in (b * B)..(b * B + n - 1) THEN b * B + (p - b * B) ELSE disk[p]]
      BY <1>3, <2>6 DEF Written
    <2>11. acked = DOMAIN disk /\ \A p \in acked : disk[p] = p /\ p \in Nat /\ p < cursor * B
      BY <1>0, <2>1 DEF UploadIntact, UploadedBehind, TypeOK
    <2>12. acked' = DOMAIN disk' /\ \A p \in acked' : disk'[p] = p /\ p \in Nat
      BY <1>f, <2>9, <2>10, <2>11
    <2>13. TypeOK'
      <3>1. /\ acked' \subseteq Nat /\ DOMAIN disk' \subseteq Nat
        BY <2>12
      <3>2. disk' \in [DOMAIN disk' -> Nat]
        <4>1. disk' = [p \in DOMAIN disk' |-> disk'[p]]
          BY <2>10
        <4>2. \A p \in DOMAIN disk' : disk'[p] \in Nat
          BY <2>12
        <4>3. QED
          BY <4>1, <4>2
      <3>3. pos' \in Nat
        BY <1>f
      <3>4. last' \in [code : Codes, block : BlockNum \union {NoBlock}, at : Nat, n : Nat]
        BY <1>f DEF Codes
      <3>5. QED
        BY <1>0, <1>c, <1>s, <3>1, <3>2, <3>3, <3>4 DEF TypeOK
    <2>14. \A p \in acked' : p < cursor' * B /\ p < blocksCount * B
      BY <1>f, <2>2, <2>3, <2>7, <2>8, <2>9, <2>11
    <2>15. UploadedBehind' /\ UploadIntact'
      BY <2>12, <2>14 DEF UploadedBehind, UploadIntact
    <2>16. StreamInStep'
      <3>1. state' = "UPLOAD" /\ pos' = b * B + n /\ blocksCount' = blocksCount
        BY <2>6
      <3>2. CASE n = B
        BY <1>f, <2>2, <2>8, <3>1, <3>2 DEF StreamInStep
      <3>3. CASE b = blocksCount - 1
        BY <1>f, <2>2, <3>1, <3>3 DEF StreamInStep
      <3>4. QED
        BY <2>7, <3>2, <3>3
    <2>17. StraightIsRight'
      BY <2>6 DEF StraightIsRight, RightBytes
    <2>18. QED
      BY <1>1, <2>13, <2>15, <2>16, <2>17 DEF Inv
  <1>4. QED
    BY <1>2, <1>3

LEMMA RangeFromType ==
    ASSUME NEW start \in BlockNum, NEW end \in BlockNum
    PROVE  RangeFrom(start, end) = NoRange \/ RangeFrom(start, end) \in BlockNum \X BlockNum
  BY DEF RangeFrom

LEMMA InvStep == Inv /\ [Next]_vars => Inv'
  <1> SUFFICES ASSUME Inv, [Next]_vars PROVE Inv'
    OBVIOUS
  <1> USE DEF object, stream, history
  <1>0. TypeOK /\ HandleAccounts /\ StreamInStep /\ UploadedBehind /\ UploadIntact
        /\ StraightIsRight
    BY DEF Inv
  <1>1. CASE \/ ResetFails
             \/ \E sz \in Sizes : ResetDownload(sz)
             \/ \E count \in Counts : ResetUpload(count)
             \/ EndTransfer \/ Destroy \/ NoTransfer
    BY <1>1, ControlInv
  <1>2. ASSUME NEW b \in BlockNum, AskBlock(b) PROVE Inv'
    <2>1. Serve(b) /\ todo' = NoRange
      BY <1>2 DEF AskBlock
    <2>2. QED
      BY <2>1, ServeInv
  <1>3. ASSUME NEW start \in BlockNum, NEW end \in BlockNum, AskRange(start, end) PROVE Inv'
    <2>1. todo' = NoRange \/ todo' \in BlockNum \X BlockNum
      BY <1>3, RangeFromType DEF AskRange
    <2>2. UNCHANGED <<object, stream, last, history>>
      BY <1>3 DEF AskRange
    <2>3. TypeOK'
      BY <1>0, <2>1, <2>2 DEF TypeOK
    <2>4. (HandleAccounts /\ StreamInStep /\ UploadedBehind /\ UploadIntact)'
      BY <1>0, <2>2 DEF HandleAccounts, StreamInStep, UploadedBehind, UploadIntact
    <2>5. StraightIsRight'
      BY <1>0, <2>2 DEF StraightIsRight, RightBytes, Length, Available
    <2>6. QED
      BY <2>3, <2>4, <2>5 DEF Inv
  <1>4. CASE RangeStep
    <2>1. todo \in BlockNum \X BlockNum
      BY <1>0, <1>4 DEF TypeOK, RangeStep
    <2>2. todo[1] \in BlockNum /\ todo[2] \in BlockNum
      BY <2>1
    <2>3. (todo[1] + 1) % WORD \in BlockNum
      BY <2>2, WordMod DEF BlockNum
    <2>4. todo' = NoRange \/ todo' \in BlockNum \X BlockNum
      BY <1>4, <2>2, <2>3, RangeFromType DEF RangeStep
    <2>5. Serve(todo[1])
      BY <1>4 DEF RangeStep
    <2>6. QED
      BY <2>2, <2>4, <2>5, ServeInv
  <1>5. ASSUME NEW b \in BlockNum, NEW n \in Lengths, ReceiveBlock(b, n) PROVE Inv'
    BY <1>5, ReceiveInv
  <1>6. ASSUME NEW b \in BlockNum, RejectBlock(b) PROVE Inv'
    <2>1. TypeOK'
      BY <1>0, <1>6 DEF RejectBlock, TypeOK, Answer, Codes
    <2>2. (HandleAccounts /\ StreamInStep /\ UploadedBehind /\ UploadIntact)'
      BY <1>0, <1>6 DEF RejectBlock, HandleAccounts, StreamInStep, UploadedBehind, UploadIntact
    <2>3. StraightIsRight'
      BY <1>6 DEF RejectBlock, Answer, StraightIsRight, RightBytes
    <2>4. QED
      BY <2>1, <2>2, <2>3 DEF Inv
  <1>7. CASE UNCHANGED vars
    <2>1. UNCHANGED <<object, stream, todo, last, history>>
      BY <1>7 DEF vars
    <2>2. TypeOK'
      BY <1>0, <2>1 DEF TypeOK
    <2>3. (HandleAccounts /\ StreamInStep /\ UploadedBehind /\ UploadIntact)'
      BY <1>0, <2>1 DEF HandleAccounts, StreamInStep, UploadedBehind, UploadIntact
    <2>4. StraightIsRight'
      BY <1>0, <2>1 DEF StraightIsRight, RightBytes, Length, Available
    <2>5. QED
      BY <2>2, <2>3, <2>4 DEF Inv
  <1>8. QED
    BY <1>1, <1>2, <1>3, <1>4, <1>5, <1>6, <1>7 DEF Next

LEMMA AlwaysInv == Spec => []Inv
  BY InitInv, InvStep, PTL DEF Spec

\* Block numbers, counts and positions keep their types: in particular the 32-bit
\* numbers stay 32-bit numbers, whatever the client sends.
THEOREM TypeCorrect == Spec => []TypeOK
  <1>1. Inv => TypeOK
    BY DEF Inv
  <1>2. QED
    BY <1>1, AlwaysInv, PTL

\* The stream of a transfer is neither lost nor closed twice, and a transfer that is
\* on has one.
THEOREM HandlesAreAccounted == Spec => []HandleAccounts
  <1>1. Inv => HandleAccounts
    BY DEF Inv
  <1>2. QED
    BY <1>1, AlwaysInv, PTL

\* A client that goes forward in whole blocks gets and stores the right bytes.
THEOREM ForwardTransfersAreRight == Spec => []StraightIsRight
  <1>1. Inv => StraightIsRight
    BY DEF Inv
  <1>2. QED
    BY <1>1, AlwaysInv, PTL

\* What such a client has uploaded stays as it was acknowledged.
THEOREM ForwardUploadsAreIntact == Spec => []UploadIntact
  <1>1. Inv => UploadIntact
    BY DEF Inv
  <1>2. QED
    BY <1>1, AlwaysInv, PTL

=============================================================================
