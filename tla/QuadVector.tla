----------------------------- MODULE QuadVector -----------------------------
(***************************************************************************)
(* The 2-bit rank directory of QuadVector.h: a stream of n_ digits packed  *)
(* Lanes to a machine word, words grouped in rank blocks of wpb_ words,    *)
(* blocks grouped in superblocks.  build_rank() fills sb_ (an absolute     *)
(* count per superblock) and rel_ (a count relative to the superblock, in  *)
(* a counter of limited width); rank(v, i) reads one entry of each and     *)
(* counts the words of the block that precede position i.                  *)
(*                                                                         *)
(* The code fixes Lanes = 32, BlocksPerSb = 64, MaxShift = 4 (at most 16   *)
(* words per block), RelMod = 2^16 and Digits = 0..3.  Here they are       *)
(* parameters, so that TLC can cross every boundary with short streams and *)
(* the proofs of QuadVectorProofs hold for all of them.                    *)
(***************************************************************************)
EXTENDS Naturals, FiniteSets

CONSTANTS
    Digits,       \* the digits a lane can hold
    Lanes,        \* digits per machine word
    BlocksPerSb,  \* kBlocksPerSb: rank blocks per superblock
    MaxShift,     \* log2 of the largest words_per_block
    RelMod,       \* number of values of a rel_ counter (2^16 for uint16_t)
    MaxLength     \* bound on the length of the streams that are explored

MaxWpb == 2^MaxShift

ASSUME ConstantsAssumption ==
    /\ Digits # {}
    /\ Lanes \in Nat \ {0}
    /\ BlocksPerSb \in Nat \ {0}
    /\ MaxWpb \in Nat \ {0}
    /\ RelMod \in Nat
    /\ MaxLength \in Nat

\* The comment on set_words_per_block: the symbol span of a superblock fits
\* in a rel_ counter (64 * 16 * 32 = 32768 <= 65535 in the code).
ASSUME SpanAssumption == BlocksPerSb * (MaxWpb * Lanes) < RelMod

VARIABLES
    n_,       \* number of digits
    lanes,    \* words_[], one entry per lane: lane l of word w is w * Lanes + l
    nwords_,  \* number of machine words
    wpb_,     \* words per rank block
    sb_,      \* superblock directory
    rel_,     \* block directory
    acc,      \* build_rank: running count per digit
    b, k,     \* build_rank: the loop variables (block, word of the block)
    v, i,     \* rank: the arguments
    ww, r,    \* rank: the loop variable and the result
    pc

vars == <<n_, lanes, nwords_, wpb_, sb_, rel_, acc, b, k, v, i, ww, r, pc>>
stream == <<n_, lanes, nwords_, wpb_>>
builder == <<sb_, rel_, acc, b, k>>

\* Mutant: the last, partial word is forgotten.
Mut_WordsFor(n) == n \div Lanes
WordsFor(n) == (n + (Lanes - 1)) \div Lanes
Nblocks == (nwords_ + (wpb_ - 1)) \div wpb_
Nsb == (Nblocks + (BlocksPerSb - 1)) \div BlocksPerSb

Zero == [d \in Digits |-> 0]

\* swar_count(words_[w], d, m): how many of the first m lanes of word w hold d.
SwarCount(w, d, m) == Cardinality({j \in (w * Lanes)..((w * Lanes + m) - 1) : lanes[j] = d})

\* Mutant: every lane of the last word counts.
Mut_Valid(w) == Lanes

\* The lanes of word w that belong to the stream: the tail of the last word
\* does not, and a viewed buffer may hold anything there.
Valid(w) == IF n_ - w * Lanes < Lanes THEN n_ - w * Lanes ELSE Lanes

\* set_words_per_block: the largest power of two that is at most the request
\* clamped to 1..MaxWpb.
Clamp(req) == IF req < 1 THEN 1 ELSE IF req > MaxWpb THEN MaxWpb ELSE req
IsWordsPerBlock(req, p) ==
    /\ \E s \in 0..MaxShift : p = 2^s
    /\ p <= Clamp(req)
    /\ Clamp(req) < 2 * p

-----------------------------------------------------------------------------
Init ==
    /\ n_ = 0 /\ lanes = <<>> /\ nwords_ = 0 /\ wpb_ = 1
    /\ sb_ = <<>> /\ rel_ = <<>> /\ acc = Zero /\ b = 0 /\ k = 0
    /\ v = (CHOOSE d \in Digits : TRUE) /\ i = 0 /\ ww = 0 /\ r = 0
    /\ pc = "new"

\* A constructor or a factory: from_view attaches a buffer as it is, the
\* owning forms are the case in which the lanes past n are zero.  Both end in
\* build_rank, whose prologue allocates the directory.
FromView(n, buf, req) ==
    /\ pc = "new"
    /\ n_' = n
    /\ lanes' = buf
    /\ nwords_' = WordsFor(n)
    /\ \E p \in 1..MaxWpb : IsWordsPerBlock(req, p) /\ wpb_' = p
    /\ sb_' = [s \in 0..Nsb' |-> Zero]
    /\ rel_' = [bb \in 0..Nblocks' |-> Zero]
    /\ acc' = Zero /\ b' = 0 /\ k' = 0
    /\ pc' = "block"
    /\ UNCHANGED <<v, i, ww, r>>

\* The head of the loop over the blocks: a superblock boundary stores the
\* absolute counts, every block stores the counts relative to its superblock.
SbAfter == IF b % BlocksPerSb = 0 THEN [sb_ EXCEPT ![b \div BlocksPerSb] = acc] ELSE sb_
BlockHead ==
    /\ pc = "block"
    /\ sb_' = SbAfter
    /\ rel_' = [rel_ EXCEPT ![b] =
                  [d \in Digits |-> (acc[d] - SbAfter[b \div BlocksPerSb][d]) % RelMod]]
    /\ pc' = IF b < Nblocks THEN "words" ELSE "ready"
    /\ k' = 0
    /\ UNCHANGED <<stream, acc, b, v, i, ww, r>>

\* Mutant: k runs one word past the block.
Mut_CountWord ==
    LET w == b * wpb_ + k IN
    /\ pc = "words"
    /\ k <= wpb_
    /\ w < nwords_
    /\ acc' = [d \in Digits |-> acc[d] + SwarCount(w, d, Valid(w))]
    /\ k' = k + 1
    /\ UNCHANGED <<stream, sb_, rel_, b, v, i, ww, r, pc>>

\* One word of the block joins the running counts.
CountWord ==
    LET w == b * wpb_ + k IN
    /\ pc = "words"
    /\ k < wpb_
    /\ w < nwords_
    /\ acc' = [d \in Digits |-> acc[d] + SwarCount(w, d, Valid(w))]
    /\ k' = k + 1
    /\ UNCHANGED <<stream, sb_, rel_, b, v, i, ww, r, pc>>

\* The block is complete, or the words ran out before it was.
NextBlock ==
    /\ pc = "words"
    /\ ~(k < wpb_ /\ b * wpb_ + k < nwords_)
    /\ b' = b + 1
    /\ k' = 0
    /\ pc' = "block"
    /\ UNCHANGED <<stream, sb_, rel_, acc, v, i, ww, r>>

\* rank(d, p): the two directory entries of the block of position p ...
RankCall(d, p) ==
    LET blk == (p \div Lanes) \div wpb_ IN
    /\ pc \in {"ready", "returned"}
    /\ v' = d
    /\ i' = p
    /\ r' = sb_[blk \div BlocksPerSb][d] + rel_[blk][d]
    /\ ww' = blk * wpb_
    /\ pc' = "rank"
    /\ UNCHANGED <<stream, builder>>

\* ... then the full words of the block before p ...
RankWord ==
    /\ pc = "rank"
    /\ ww < i \div Lanes
    /\ r' = r + SwarCount(ww, v, Lanes)
    /\ ww' = ww + 1
    /\ UNCHANGED <<stream, builder, v, i, pc>>

\* Mutant: the partial word is not counted.
Mut_RankReturn ==
    /\ pc = "rank"
    /\ ~(ww < i \div Lanes)
    /\ pc' = "returned"
    /\ UNCHANGED <<stream, builder, v, i, ww, r>>

\* ... then the lanes of p's own word, which is not read when p starts it.
RankReturn ==
    LET w == i \div Lanes
        off == i % Lanes IN
    /\ pc = "rank"
    /\ ~(ww < w)
    /\ r' = IF off # 0 THEN r + SwarCount(w, v, off) ELSE r
    /\ pc' = "returned"
    /\ UNCHANGED <<stream, builder, v, i, ww>>

Next ==
    \/ \E n \in 0..MaxLength, req \in 0..(MaxWpb + 1) :
         \E buf \in [0..(WordsFor(n) * Lanes - 1) -> Digits] : FromView(n, buf, req)
    \/ BlockHead
    \/ CountWord
    \/ NextBlock
    \/ \E d \in Digits, p \in 0..n_ : RankCall(d, p)
    \/ RankWord
    \/ RankReturn

Spec == Init /\ [][Next]_vars

-----------------------------------------------------------------------------
(***************************************************************************)
(* Properties.                                                             *)
(***************************************************************************)

\* The reference definition of rank: the occurrences of d before position p.
Occ(d, p) == Cardinality({j \in 0..(p - 1) : lanes[j] = d})

\* The digits of the stream that the first w words hold.
Lim(w) == IF w * Lanes < n_ THEN w * Lanes ELSE n_

\* Block bb's first word, and the first word of its superblock.
BlockStart(bb) == bb * wpb_
SbStart(bb) == ((bb \div BlocksPerSb) * BlocksPerSb) * wpb_

\* Types of the fields of QuadVector and of the locals of build_rank and rank.
TypeOK ==
    /\ n_ \in 0..MaxLength
    /\ nwords_ = WordsFor(n_)
    /\ lanes \in [0..(nwords_ * Lanes - 1) -> Digits]
    /\ wpb_ \in 1..MaxWpb
    /\ acc \in [Digits -> Nat]
    /\ b \in Nat /\ k \in 0..wpb_
    /\ v \in Digits /\ i \in 0..n_ /\ ww \in Nat /\ r \in Nat
    /\ pc \in {"new", "block", "words", "ready", "rank", "returned"}
    /\ pc = "new" => n_ = 0
    /\ pc # "new" => /\ b \in 0..Nblocks
                     /\ sb_ \in [0..Nsb -> [Digits -> Nat]]
                     /\ rel_ \in [0..Nblocks -> [Digits -> 0..(RelMod - 1)]]

\* Every entry that build_rank has written so far is exact: sb_ holds the
\* occurrences before the superblock, rel_ those from there to the block, with
\* nothing lost in its narrow counter and no lane past n_ counted.
WrittenBlocks == IF pc = "block" THEN 0..(b - 1) ELSE 0..b
DirectoryExact ==
    pc # "new" =>
      \A bb \in WrittenBlocks, d \in Digits :
        /\ sb_[bb \div BlocksPerSb][d] = Occ(d, Lim(SbStart(bb)))
        /\ rel_[bb][d] + Occ(d, Lim(SbStart(bb))) = Occ(d, Lim(BlockStart(bb)))

\* rank(v, i) returns the number of occurrences of v before i for every i up to
\* and including n_, whatever the block size and the lanes past n_ hold.
RankExact == pc = "returned" => r = Occ(v, i)

\* rank and build_rank read no word past the buffer, and rank no directory
\* entry past the allocated ones.
ReadsInBounds ==
    /\ pc = "rank" => /\ (ww < i \div Lanes => ww < nwords_)
                      /\ (i % Lanes # 0 => i \div Lanes < nwords_)
                      /\ (i \div Lanes) \div wpb_ <= Nblocks
    /\ pc \in {"words", "ready", "rank", "returned"} => b \div BlocksPerSb <= Nsb
=============================================================================
