----------------------------- MODULE PagedCache ------------------------------
(***************************************************************************)
(* The batch of a pass through the fused layers                            *)
(* (src/backends/npu/custom_op/llama_infer/atb_ops/                        *)
(* fused_blha_layer_op_utils.cc): the tokens of the sequences lie packed   *)
(* one behind the other; those of sequences at their prefill and those at  *)
(* a decode step are parted, each gets its place in the paged key-value    *)
(* cache and its rotary position, and the last token of every sequence     *)
(* comes back in the row of the sequence.                                  *)
(*                                                                         *)
(* The client (the serving loop and the kernels that advance the lengths)  *)
(* is modelled from the inputs it has to give: a sequence has blocks of    *)
(* its own in the cache and is first prefilled, then decoded.              *)
(***************************************************************************)
EXTENDS Integers, Sequences, SequencesExt

CONSTANTS
  Rows,        \* rows of the batch: g_seqlens_encoder.size
  BlockSize,   \* tokens to a block of the cache
  RowBlocks,   \* blocks of a sequence: max_block_num
  Blocks,      \* blocks of the cache, numbers
  MaxLen,      \* bound on the length of a sequence, at most BlockSize * RowBlocks
  MaxSeq,      \* bound on the sequences ever begun
  Nothing

VARIABLES
  seq,         \* the sequence in each row, or Nothing
  encLen,      \* seq_lens_encoder: the length of a prompt to prefill, or 0
  decLen,      \* seq_lens_decoder: the tokens already in the cache, or 0
  table,       \* block_tables
  begun,       \* sequences begun so far
  cache,       \* what each slot of the cache holds
  rotated,     \* the tokens of the last pass with their rotary positions
  result       \* what the last pass returned for each row

vars == <<seq, encLen, decLen, table, begun, cache, rotated, result>>

Row == 1..Rows
Slot == {b * BlockSize + k : b \in Blocks, k \in 0..BlockSize - 1}
Token(s, n) == <<s, n>>

(* in_offset of a loop over the rows, after each row: what the rows so far *)
(* have added to it.                                                       *)
Offset(count) ==
  LET after[i \in 0..Rows] == IF i = 0 THEN 0 ELSE after[i - 1] + count[i]
  IN  after

Interval(from, count) == [k \in 1..count |-> from + k - 1]

Init ==
  /\ seq = [i \in Row |-> Nothing]
  /\ encLen = [i \in Row |-> 0] /\ decLen = [i \in Row |-> 0]
  /\ table = [i \in Row |-> <<>>]
  /\ begun = 0
  /\ cache = [s \in Slot |-> Nothing]
  /\ rotated = <<>>
  /\ result = [i \in Row |-> Nothing]

-----------------------------------------------------------------------------
(***************************************************************************)
(* The client.                                                             *)
(***************************************************************************)
Used == UNION {ToSet(table[i]) : i \in Row}

Insert(i) ==
  /\ seq[i] = Nothing /\ begun < MaxSeq
  /\ begun' = begun + 1 /\ seq' = [seq EXCEPT ![i] = begun + 1]
  /\ \E len \in 1..MaxLen - 1 : encLen' = [encLen EXCEPT ![i] = len]
  /\ \E own \in [1..RowBlocks -> Blocks \ Used] :
       IsInjective(own) /\ table' = [table EXCEPT ![i] = own]
  /\ result' = [result EXCEPT ![i] = Nothing]
  /\ UNCHANGED <<decLen, cache, rotated>>

Finish(i) ==
  /\ decLen[i] > 0
  /\ seq' = [seq EXCEPT ![i] = Nothing]
  /\ decLen' = [decLen EXCEPT ![i] = 0]
  /\ table' = [table EXCEPT ![i] = <<>>]
  /\ result' = [result EXCEPT ![i] = Nothing]
  /\ UNCHANGED <<encLen, begun, cache, rotated>>

(* The hidden states the op is given: every token of a prompt, and one of  *)
(* a sequence that is decoded.                                             *)
Hidden ==
  FlattenSeq([i \in Row |->
    IF encLen[i] > 0 THEN [n \in 1..encLen[i] |-> Token(seq[i], n - 1)]
    ELSE IF decLen[i] > 0 THEN <<Token(seq[i], decLen[i])>> ELSE <<>>])

-----------------------------------------------------------------------------
(***************************************************************************)
(* The op.                                                                 *)
(***************************************************************************)
(* update_seqlens_decoder counts the token that is being decoded.          *)
DecodeLen(i) == IF decLen[i] > 0 THEN decLen[i] + 1 ELSE 0

(* The rows of the hidden states that belong to row i of the batch.        *)
Tokens ==
  [i \in Row |-> IF encLen[i] > 0 THEN encLen[i] ELSE IF DecodeLen(i) > 0 THEN 1 ELSE 0]

(* update_in_encoder, update_in_decoder: the rows of a stage, in order.    *)
InEncoder ==
  LET hidden == Hidden
      end == Offset(Tokens)
  IN  FlattenSeq([i \in Row |->
        IF encLen[i] > 0 THEN SubSeq(hidden, end[i - 1] + 1, end[i]) ELSE <<>>])

InDecoder ==
  LET hidden == Hidden
      end == Offset(Tokens)
  IN  FlattenSeq([i \in Row |->
        IF encLen[i] = 0 /\ DecodeLen(i) > 0 THEN <<hidden[end[i - 1] + 1]>> ELSE <<>>])

(* update_slots_encoder: whole blocks, then the tail.  Without a tail the  *)
(* code still reads the entry after the whole blocks, which may be past the*)
(* row's, and uses nothing of it.                                          *)
SlotsOf(i) ==
  LET whole == encLen[i] \div BlockSize
      tail == encLen[i] % BlockSize
  IN  FlattenSeq([j \in 1..whole |-> Interval(table[i][j] * BlockSize, BlockSize)])
      \o (IF tail = 0 THEN <<>> ELSE Interval(table[i][whole + 1] * BlockSize, tail))

SlotsEncoder == FlattenSeq([i \in Row |-> IF encLen[i] > 0 THEN SlotsOf(i) ELSE <<>>])

(* A bug: the slot after the token's.                                      *)
SlotsDecoderNext ==
  FlattenSeq([i \in Row |->
    IF DecodeLen(i) = 0 THEN <<>>
    ELSE <<table[i][(DecodeLen(i) - 1) \div BlockSize + 1] * BlockSize + (DecodeLen(i) % BlockSize)>>])

SlotsDecoder ==
  FlattenSeq([i \in Row |->
    IF DecodeLen(i) = 0 THEN <<>>
    ELSE <<table[i][(DecodeLen(i) - 1) \div BlockSize + 1] * BlockSize + ((DecodeLen(i) - 1) % BlockSize)>>])

(* update_rope_encoder, update_rope_decoder: rows of the rotary table.     *)
RopeEncoder == FlattenSeq([i \in Row |-> Interval(0, encLen[i])])
RopeDecoder == FlattenSeq([i \in Row |-> IF DecodeLen(i) > 0 THEN <<DecodeLen(i) - 1>> ELSE <<>>])

Rotate(rows, positions) == [k \in DOMAIN rows |-> <<rows[k], positions[k]>>]

(* update_out_encoder, update_out_decoder: the last row of each sequence.  *)
OutEncoder(rows, res) ==
  LET end == Offset(encLen)
  IN  [i \in Row |-> IF encLen[i] > 0 THEN rows[end[i]] ELSE res[i]]

OutDecoder(rows, res) ==
  LET end == Offset([i \in Row |-> IF DecodeLen(i) > 0 THEN 1 ELSE 0])
  IN  [i \in Row |-> IF DecodeLen(i) > 0 THEN rows[end[i - 1] + 1] ELSE res[i]]

(* The layers write the key and value of row k to the slot k, in an order  *)
(* of their own.                                                           *)
Write(c, slots, rows) ==
  [s \in Slot |-> LET ks == {k \in DOMAIN rows : slots[k] = s}
                  IN  IF ks = {} THEN c[s] ELSE rows[CHOOSE k \in ks : TRUE]]

(* A pass, and what the kernels after it make of the lengths: the token    *)
(* sampled is the next to be decoded.                                      *)
Pass ==
  /\ \E i \in Row : encLen[i] > 0 \/ decLen[i] > 0
  /\ \A i \in Row : decLen[i] < MaxLen
  /\ cache' = Write(Write(cache, SlotsEncoder, InEncoder), SlotsDecoder, InDecoder)
  /\ rotated' = Rotate(InEncoder, RopeEncoder) \o Rotate(InDecoder, RopeDecoder)
  /\ result' = OutDecoder(InDecoder, OutEncoder(InEncoder, [i \in Row |-> Nothing]))
  /\ decLen' = [i \in Row |-> IF encLen[i] > 0 THEN encLen[i] ELSE DecodeLen(i)]
  /\ encLen' = [i \in Row |-> 0]
  /\ UNCHANGED <<seq, table, begun>>

Next == Pass \/ \E i \in Row : Insert(i) \/ Finish(i)

Spec == Init /\ [][Next]_vars

-----------------------------------------------------------------------------
(* The paged cache: where token n of the sequence in row i belongs.        *)
Place(i, n) == table[i][n \div BlockSize + 1] * BlockSize + (n % BlockSize)

(* Every token that was prefilled or decoded is in its place of the cache, *)
(* whatever sequences came, went and reused the blocks since.              *)
CacheIntact ==
  \A i \in Row : \A n \in 0..decLen[i] - 1 : cache[Place(i, n)] = Token(seq[i], n)

(* A token is rotated by its position in its sequence.                     *)
RotatedRight == \A k \in DOMAIN rotated : rotated[k][1][2] = rotated[k][2]

(* The row of a sequence returns its last token, and no other's.           *)
ResultRight ==
  \A i \in Row : result[i] # Nothing => result[i] = Token(seq[i], decLen[i] - 1)

(* What a pass does to the packed tokens of a batch, taken together: cache,*)
(* rotation and result are each right for every sequence, however prefill  *)
(* and decode are mixed in the rows.                                       *)
BatchRight == CacheIntact /\ RotatedRight /\ ResultRight
=============================================================================
