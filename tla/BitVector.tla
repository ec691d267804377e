----------------------------- MODULE BitVector ------------------------------
(***************************************************************************)
(* The rank bit vector of BitVector.h, which marks the sampled rows: words *)
(* of WordBits bits, a directory with an absolute count per block of       *)
(* BlockWords words and, packed in a second entry, the counts of the words *)
(* of the block relative to it.  The code has WordBits = 64, BlockWords =  *)
(* 8 and fields of nine bits (RelMod = 512).                               *)
(***************************************************************************)
EXTENDS Naturals, FiniteSets

CONSTANTS
    WordBits, BlockWords, RelMod,
    MaxLength      \* bound on the length of the vectors that are explored

ASSUME WidthAssumption ==
    /\ WordBits \in Nat \ {0} /\ BlockWords \in Nat \ {0} /\ RelMod \in Nat
    /\ (BlockWords - 1) * WordBits < RelMod
    /\ MaxLength \in Nat

VARIABLES
    n_, nwords_,
    bits,          \* words_: the positions of the set bits, those past n_ too
    total_,        \* dir_[2b]: ones before block b
    l2_,           \* dir_[2b + 1]: for word j >= 1 of block b, ones of the block before it
    ones_,
    total, rel,    \* build_rank: the running counts
    b, j,          \* build_rank: the loop variables
    pc

vars == <<n_, nwords_, bits, total_, l2_, ones_, total, rel, b, j, pc>>
content == <<n_, nwords_, bits>>

WordsFor(n) == (n + (WordBits - 1)) \div WordBits
Nblocks == (nwords_ + (BlockWords - 1)) \div BlockWords

\* popcount of the first m bits of word w.
PopCount(w, m) == Cardinality({x \in bits : x >= w * WordBits /\ x < w * WordBits + m})

\* Mutant: stray bits past n_ count.
Mut_ValidBits(w) == WordBits

\* The bits of word w that belong to the vector: only the last word has a tail.
ValidBits(w) ==
    IF w + 1 = nwords_ /\ n_ % WordBits # 0 THEN n_ % WordBits ELSE WordBits

Init ==
    /\ n_ = 0 /\ nwords_ = 0 /\ bits = {}
    /\ total_ = <<>> /\ l2_ = <<>> /\ ones_ = 0
    /\ total = 0 /\ rel = 0 /\ b = 0 /\ j = 0
    /\ pc = "new"

Directory ==
    /\ total_' = [bb \in 0..Nblocks' |-> 0]
    /\ l2_' = [bb \in 0..Nblocks' |-> [jj \in 1..(BlockWords - 1) |-> 0]]
    /\ total' = 0 /\ rel' = 0 /\ b' = 0 /\ j' = 0
    /\ pc' = "block"

\* BitVector(n): zeroed words, filled with set().
New(n) ==
    /\ pc = "new"
    /\ n_' = n /\ nwords_' = WordsFor(n) /\ bits' = {}
    /\ pc' = "set"
    /\ UNCHANGED <<total_, l2_, ones_, total, rel, b, j>>

Set(x) ==
    /\ pc = "set"
    /\ bits' = bits \cup {x}
    /\ UNCHANGED <<n_, nwords_, total_, l2_, ones_, total, rel, b, j, pc>>

BuildRank ==
    /\ pc = "set"
    /\ UNCHANGED <<content, ones_>>
    /\ Directory

\* from_view: the words of a buffer, whatever the last one holds past n.
FromView(n, set) ==
    /\ pc = "new"
    /\ n_' = n /\ nwords_' = WordsFor(n) /\ bits' = set
    /\ UNCHANGED ones_
    /\ Directory

\* Mutant: rel is not reset for the block.
Mut_RelAtBlock == rel
RelAtBlock == 0

\* build_rank, the head of a block.
Block ==
    /\ pc = "block" /\ b < Nblocks
    /\ total_' = [total_ EXCEPT ![b] = total]
    /\ rel' = RelAtBlock /\ j' = 0
    /\ pc' = "words"
    /\ UNCHANGED <<content, l2_, ones_, total, b>>

\* Mutant: nothing is stored once the words have run out.
Mut_StoresRel(w) == j >= 1 /\ w < nwords_
StoresRel(w) == j >= 1

\* Word j of the block; past the last word only the relative count is stored.
Word ==
    LET w == b * BlockWords + j IN
    /\ pc = "words" /\ j < BlockWords
    /\ l2_' = IF StoresRel(w) THEN [l2_ EXCEPT ![b][j] = rel % RelMod] ELSE l2_
    /\ rel' = IF w < nwords_ THEN rel + PopCount(w, ValidBits(w)) ELSE rel
    /\ j' = j + 1
    /\ UNCHANGED <<content, total_, ones_, total, b, pc>>

BlockEnd ==
    /\ pc = "words" /\ j = BlockWords
    /\ total' = total + rel
    /\ b' = b + 1
    /\ pc' = "block"
    /\ UNCHANGED <<content, total_, l2_, ones_, rel, j>>

\* The entry after the last block, which rank1(n_) may read.
BuildEnd ==
    /\ pc = "block" /\ b = Nblocks
    /\ total_' = [total_ EXCEPT ![b] = total]
    /\ ones_' = total
    /\ pc' = "ready"
    /\ UNCHANGED <<content, l2_, total, rel, b, j>>

\* The object goes out of scope, and another one is made.
Drop ==
    /\ pc = "ready"
    /\ n_' = 0 /\ nwords_' = 0 /\ bits' = {} /\ total_' = <<>> /\ l2_' = <<>> /\ ones_' = 0
    /\ total' = 0 /\ rel' = 0 /\ b' = 0 /\ j' = 0
    /\ pc' = "new"

Next ==
    \/ \E n \in 0..MaxLength : New(n)
    \/ \E n \in 0..MaxLength : \E set \in SUBSET (0..(WordsFor(n) * WordBits - 1)) :
         FromView(n, set)
    \/ \E x \in 0..(n_ - 1) : Set(x)
    \/ BuildRank \/ Block \/ Word \/ BlockEnd \/ BuildEnd \/ Drop

Spec == Init /\ [][Next]_vars

\* rank1(x): ones before x, for x in 0..n_.
Rank1(x) ==
    LET wi == x \div WordBits
        blk == wi \div BlockWords
        jj == wi % BlockWords
        off == x % WordBits
    IN total_[blk] + (IF jj # 0 THEN l2_[blk][jj] ELSE 0)
                   + (IF off # 0 THEN PopCount(wi, off) ELSE 0)

-----------------------------------------------------------------------------
Ones(x) == Cardinality({y \in bits : y < x})

\* Types of the members and of the locals of build_rank.
TypeOK ==
    /\ n_ \in 0..MaxLength /\ nwords_ = WordsFor(n_)
    /\ bits \subseteq 0..(nwords_ * WordBits - 1)
    /\ ones_ \in Nat /\ total \in Nat /\ rel \in 0..(BlockWords * WordBits)
    /\ b \in 0..Nblocks /\ j \in 0..BlockWords
    /\ pc \in {"new", "set", "block", "words", "ready"}
    /\ pc \in {"block", "words", "ready"} =>
         /\ total_ \in [0..Nblocks -> Nat]
         /\ l2_ \in [0..Nblocks -> [1..(BlockWords - 1) -> 0..(RelMod - 1)]]

\* rank1(x) is the number of ones before x, for every x up to and including the
\* length, also when x starts a block or a word that does not exist.
Rank1Exact == pc = "ready" => \A x \in 0..n_ : Rank1(x) = Ones(x)

\* count_ones() counts no bit past the length: parseView compares it with the
\* number of sample values to keep rank1 inside that array.
OnesExact == pc = "ready" => ones_ = Ones(n_)
=============================================================================
