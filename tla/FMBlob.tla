------------------------------- MODULE FMBlob -------------------------------
(***************************************************************************)
(* Serialize, and the load of a blob that may have been cut short or       *)
(* changed since: parseView, behind Deserialize and LoadView.              *)
(*                                                                         *)
(* A blob is a sequence of four-byte units, since every offset is a        *)
(* multiple of four: a uint32 is one unit and a uint64 two, the low one    *)
(* first.  A unit has UnitBits bits (32 in the code), so that a word of a  *)
(* level packs UnitBits digits and a word of the bitmap 2 * UnitBits rows. *)
(***************************************************************************)
EXTENDS FMObject

CONSTANTS
    Corpora, Rates,    \* what is indexed
    BlockBytes,        \* values given for block_bytes
    UnitBits,
    MaxWpb,            \* the largest words_per_block (16)
    Garbage            \* what a changed unit may hold

ASSUME BlobAssumption ==
    /\ UnitBits \in {2 * x : x \in 2..16}
    /\ MaxWpb \in Nat \ {0} /\ Garbage \subseteq 0..(2^UnitBits - 1)

VARIABLES
    stored,    \* history: the index that was serialized
    blob,      \* the units
    change,    \* history: "none", "cut" or "overwritten"
    p,         \* units read
    idx,       \* the index being filled
    loc,       \* the locals of parseView
    pc

vars == <<stored, blob, change, p, idx, loc, pc>>

Base == 2^UnitBits
SizeMax == Base * Base - 1
SigmaMax == ByteMax + 3           \* sentinel, separator and every byte (258)
kMagic == Base - 2
kFormatVersion == 8

Index(o, wide, wpb) == [fm |-> o, wide_storage_ |-> wide, words_per_block_ |-> wpb]
Empty == Index(Fresh, FALSE, 1)
NoLocals == <<>>

Init == /\ stored = Empty /\ blob = <<>> /\ change = "none"
        /\ p = 0 /\ idx = Empty /\ loc = NoLocals /\ pc = "new"

-----------------------------------------------------------------------------
(***************************************************************************)
(* Serialize.                                                              *)
(***************************************************************************)

\* Build: block_bytes in words, clamped, and the power of two below.
PowersOfTwo == {x \in 1..MaxWpb : \E e \in 0..x : x = 2^e}
WordsPerBlock(bytes) ==
    LET wpb == (IF bytes = 0 THEN 8 ELSE bytes) \div 8
        fits == {x \in PowersOfTwo : x <= wpb}
    IN IF fits = {} THEN 1 ELSE CHOOSE x \in fits : \A y \in fits : y <= x

U32(v) == <<v % Base>>
U64(v) == <<v % Base, v \div Base>>

\* The units of an array f, whose entry i is put as Put(f[i]).
PutAll(f, Put(_)) ==
    LET upto[n \in 0..Cardinality(DOMAIN f)] == IF n = 0 THEN <<>> ELSE upto[n - 1] \o Put(f[n - 1])
    IN upto[Cardinality(DOMAIN f)]

\* The words of an array of digits, of which a unit packs per.
WordCount(n, per) == n \div (2 * per) + (IF n % (2 * per) = 0 THEN 0 ELSE 1)
Pack(f, per, radix) ==
    [k \in 1..(2 * WordCount(Cardinality(DOMAIN f), per)) |->
       LET at(j) == (k - 1) * per + j
           sum[j \in 0..per] ==
             IF j = 0 THEN 0
             ELSE sum[j - 1] + (IF at(j - 1) \in DOMAIN f THEN f[at(j - 1)] * radix^(j - 1) ELSE 0)
       IN sum[per]]

LevelsOf(o) == [l \in 0..(o.qlevels_ - 1) |-> LevelOf(o.wm_, l, o.qlevels_)]
StartsOf(level) == [d \in 0..3 |-> Cardinality({x \in DOMAIN level : level[x] < d})]

\* The flags word; words_per_block_ is at bit 8 in the code, which ignores the
\* bits between.
Flags(x) == (IF x.fm.case_fold_ THEN 1 ELSE 0) + (IF x.wide_storage_ THEN 2 ELSE 0)
              + 4 * x.words_per_block_

WriteHeader(x) ==
    LET o == x.fm
        n == Cardinality(DOMAIN o.wm_)
        Starts4(level) == PutAll(StartsOf(level), U64)
        QWords(level) == U64(WordCount(n, UnitBits \div 2))
    IN U32(kMagic) \o U32(kFormatVersion) \o U32(o.sa_sample_rate_) \o U32(o.sigma_)
         \o U32(o.qlevels_) \o U32(Flags(x)) \o U64(o.text_len_)
         \o PutAll(o.byte_to_id_, U32) \o PutAll(o.c_, U64)
         \o PutAll(LevelsOf(o), Starts4) \o PutAll(LevelsOf(o), QWords)
         \o U64(WordCount(n, UnitBits)) \o U64(Cardinality(DOMAIN o.sv_)) \o U64(NDocBounds(o))

\* Mutant: the arrays are not padded.
Mut_Align8(s) == s

Align8(s) == IF Len(s) % 2 = 0 THEN s ELSE Append(s, 0)

\* The blob: the header, and each array on an eight-byte boundary.
Serialized(x) ==
    LET o == x.fm
        levels == LevelsOf(o)
        upto[l \in 0..o.qlevels_] ==
          IF l = 0 THEN WriteHeader(x)
          ELSE Align8(upto[l - 1]) \o Pack(levels[l - 1], UnitBits \div 2, 4)
        bits == [r \in DOMAIN o.wm_ |-> IF r \in o.sampled_bv_ THEN 1 ELSE 0]
        rows == Align8(upto[o.qlevels_]) \o Pack(bits, UnitBits, 2)
        samples == Align8(rows) \o (IF x.wide_storage_ THEN PutAll(o.sv_, U64)
                                    ELSE PutAll(o.sv_, U32))
    IN Align8(samples) \o PutAll(o.doc_start_, U64)

\* An index, or an object without one, is serialized.
Serialize ==
    /\ pc = "new"
    /\ stored' \in {Empty} \cup {Index(Built(c.docs, c.cf, rate), wide, WordsPerBlock(bytes)) :
                                   c \in Corpora, rate \in Rates, wide \in BOOLEAN,
                                   bytes \in BlockBytes}
    /\ blob' = Serialized(stored')
    /\ pc' = "kept"
    /\ UNCHANGED <<change, p, idx, loc>>

\* What may happen to a blob that is kept: its end is lost, or a unit changes.
Cut == /\ pc = "kept" /\ change = "none"
       /\ \E n \in 0..(Len(blob) - 1) : blob' = SubSeq(blob, 1, n)
       /\ change' = "cut"
       /\ UNCHANGED <<stored, p, idx, loc, pc>>

Overwrite == /\ pc = "kept" /\ change = "none"
             /\ \E k \in 1..Len(blob), v \in Garbage : /\ v # blob[k]
                                                      /\ blob' = [blob EXCEPT ![k] = v]
             /\ change' = "overwritten"
             /\ UNCHANGED <<stored, p, idx, loc, pc>>

-----------------------------------------------------------------------------
(***************************************************************************)
(* LoadView, and Deserialize, which copies or takes the blob before.       *)
(***************************************************************************)
Load == /\ pc = "kept"
        /\ pc' = "scalars"
        /\ UNCHANGED <<stored, blob, change, p, idx, loc>>

\* Unit k from place at on.  Nothing says what is behind the end of the blob.
Unit(at, k) == IF at + k < Len(blob) THEN blob[at + k + 1] ELSE 0
Long(at, k) == Unit(at, k) + Base * Unit(at, k + 1)
Signed(at, k) == IF Unit(at, k) < Base \div 2 THEN Unit(at, k) ELSE Unit(at, k) - Base

\* n units from place at on pass the checks and are taken, or the load fails
\* and hands back an object without an index.
Take(at, n, ok, x, locals, next) ==
    /\ IF ok THEN /\ p' = at + n /\ idx' = x /\ loc' = locals /\ pc' = next
             ELSE /\ idx' = Empty /\ loc' = NoLocals /\ pc' = "invalid"
                  /\ UNCHANGED p
    /\ UNCHANGED <<stored, blob, change>>

\* get: n units of the header.
Get(n, ok, x, locals, next) == Take(p, n, p + n <= Len(blob) /\ ok, x, locals, next)

ParseScalars ==
    LET rate == Unit(p, 2)
        sigma == Unit(p, 3)
        qlevels == Unit(p, 4)
        flags == Unit(p, 5)
        len == Long(p, 6) IN
    /\ pc = "scalars"
    /\ Get(8, /\ Unit(p, 0) = kMagic /\ Unit(p, 1) = kFormatVersion
              /\ rate # 0
              /\ flags \div 4 \in PowersOfTwo
              /\ sigma \in 2..SigmaMax /\ qlevels = QLevels(sigma)
              /\ len <= SizeMax \div 2,
           Index([Fresh EXCEPT !.sa_sample_rate_ = rate, !.sigma_ = sigma, !.qlevels_ = qlevels,
                               !.case_fold_ = flags % 2 = 1, !.text_len_ = len],
                 (flags \div 2) % 2 = 1, flags \div 4),
           loc, "bytes")

\* Mutant: the ids of the sentinel and the separator pass for those of bytes.
Mut_ByteId(id) == id >= -1 /\ id < idx.fm.sigma_

\* No byte has the id of the sentinel or of the separator.
ByteId(id) == id = -1 \/ (id >= 2 /\ id < idx.fm.sigma_)

ParseBytes ==
    LET ids == [b \in Bytes |-> Signed(p, b)] IN
    /\ pc = "bytes"
    /\ Get(ByteMax + 1, \A b \in Bytes : ByteId(ids[b]),
           [idx EXCEPT !.fm.byte_to_id_ = ids], loc, "ctable")

\* c_ is taken as it is.
ParseCTable ==
    /\ pc = "ctable"
    /\ Get(2 * idx.fm.sigma_, TRUE,
           [idx EXCEPT !.fm.c_ = [c \in 0..(idx.fm.sigma_ - 1) |-> Long(p, 2 * c)]], loc, "counts")

\* The starts and the section sizes, which text_len_ determines.
ParseCounts ==
    LET o == idx.fm
        q == o.qlevels_
        m == M(o)
        starts == [l \in 0..(q - 1) |-> [d \in 0..3 |-> Long(p, 8 * l + 2 * d)]]
        qnw == [l \in 0..(q - 1) |-> Long(p, 8 * q + 2 * l)]
        sampled_nw == Long(p, 10 * q)
        n_samples == Long(p, 10 * q + 2)
        n_docs == Long(p, 10 * q + 4) IN
    /\ pc = "counts"
    /\ Get(10 * q + 6, /\ \A l \in 0..(q - 1) : qnw[l] = WordCount(m, UnitBits \div 2)
                       /\ sampled_nw = WordCount(m, UnitBits)
                       /\ n_samples = o.text_len_ \div o.sa_sample_rate_ + 1
                       /\ n_docs # 0 /\ n_docs <= m,
           idx, [starts |-> starts, qnw |-> qnw, sampled_nw |-> sampled_nw,
                 n_samples |-> n_samples, n_docs |-> n_docs, levels |-> <<>>], "level")

\* Mutant: the padding is not counted.
Mut_Room(n) == n <= Len(blob) - p

\* align_view: the padding and n units behind it are left.
Room(n) == p % 2 <= Len(blob) - p /\ n <= (Len(blob) - p) - (p % 2)

\* checked_bytes: count entries have a size that size_t holds.
Sized(count, bytes) == count <= SizeMax \div bytes

Aligned == p + (p % 2)
View(n, ok, x, locals, next) == Take(Aligned, n, Room(n) /\ ok, x, locals, next)

\* The digits packed from place Aligned on.
Unpack(n, per, radix) ==
    [x \in 0..(n - 1) |-> (Unit(Aligned, x \div per) \div radix^(x % per)) % radix]

\* QuadVector::from_view of the next level.
ViewLevel ==
    LET l == Len(loc.levels) IN
    /\ pc = "level" /\ l < idx.fm.qlevels_
    /\ View(2 * loc.qnw[l], Sized(loc.qnw[l], 8), idx,
            [loc EXCEPT !.levels = Append(@, Unpack(M(idx.fm), UnitBits \div 2, 4))], "level")

\* Mutant: the stored starts are believed.
Mut_Derived(l) == loc.starts[l]
Derived(l) == StartsOf(loc.levels[l + 1])

\* The descent from position i: access follows the digits, map_zero those of c.
Descent(i, Follow(_, _)) ==
    LET at[l \in 0..idx.fm.qlevels_] ==
          IF l = 0 THEN [pos |-> i, sym |-> 0]
          ELSE LET above == at[l - 1]
                   level == loc.levels[l]
                   d == Follow(l - 1, above.pos)
               IN [pos |-> loc.starts[l - 1][d] + RankIn(level, d, above.pos),
                   sym |-> above.sym * 4 + d]
    IN at[idx.fm.qlevels_]

\* from_parts, once the starts are those of the levels; then first_.
CheckStarts ==
    LET q == idx.fm.qlevels_
        Found(l, i) == loc.levels[l + 1][i]
        symbols == [r \in 0..(M(idx.fm) - 1) |-> Descent(r, Found).sym]
        first == [c \in 0..(idx.fm.sigma_ - 1) |->
                    LET Given(l, i) == Digit(c, l, q) IN Descent(0, Given).pos] IN
    /\ pc = "level" /\ Len(loc.levels) = q
    /\ Take(p, 0, \A l \in 0..(q - 1) : loc.starts[l] = Derived(l),
            [idx EXCEPT !.fm.wm_ = symbols, !.fm.first_ = first], loc, "rows")

\* BitVector::from_view; there is a value for every sampled row.
ViewRows ==
    LET bits == Unpack(M(idx.fm), UnitBits, 2)
        rows == {r \in DOMAIN bits : bits[r] = 1} IN
    /\ pc = "rows"
    /\ View(2 * loc.sampled_nw, Sized(loc.sampled_nw, 8) /\ Cardinality(rows) = loc.n_samples,
            [idx EXCEPT !.fm.sampled_bv_ = rows], loc, "samples")

ViewSamples ==
    LET width == IF idx.wide_storage_ THEN 2 ELSE 1
        vals == [s \in 0..(loc.n_samples - 1) |->
                   IF idx.wide_storage_ THEN Long(Aligned, 2 * s) ELSE Unit(Aligned, s)] IN
    /\ pc = "samples"
    /\ View(width * loc.n_samples,
            /\ Sized(loc.n_samples, 4 * width)
            /\ \A s \in DOMAIN vals : /\ vals[s] <= idx.fm.text_len_
                                      /\ vals[s] % idx.fm.sa_sample_rate_ = 0,
            [idx EXCEPT !.fm.sv_ = vals], loc, "docs")

\* The document bounds, and buildDerived.
ViewDocs ==
    LET n == loc.n_docs
        bounds == [d \in 0..(n - 1) |-> Long(Aligned, 2 * d)] IN
    /\ pc = "docs"
    /\ View(2 * n, /\ Sized(n, 8)
                   /\ bounds[0] = 0 /\ bounds[n - 1] = idx.fm.text_len_
                   /\ \A d \in 1..(n - 1) : bounds[d] > bounds[d - 1],
            [idx EXCEPT !.fm.doc_start_ = bounds,
                        !.fm.id_to_byte_ = IdToByte(idx.fm.byte_to_id_, idx.fm.sigma_)],
            NoLocals, "valid")

\* The caller drops the index and the blob.
Drop == /\ pc \in {"valid", "invalid"}
        /\ stored' = Empty /\ blob' = <<>> /\ change' = "none"
        /\ p' = 0 /\ idx' = Empty /\ loc' = NoLocals /\ pc' = "new"

Next == \/ Serialize \/ Cut \/ Overwrite
        \/ Load \/ ParseScalars \/ ParseBytes \/ ParseCTable \/ ParseCounts
        \/ ViewLevel \/ CheckStarts \/ ViewRows \/ ViewSamples \/ ViewDocs \/ Drop

Spec == Init /\ [][Next]_vars

-----------------------------------------------------------------------------
(***************************************************************************)
(* Properties.                                                             *)
(***************************************************************************)
Loaded == pc \in {"valid", "invalid"}

\* Types; no more units have been read than the blob has.
TypeOK ==
    /\ p \in 0..Len(blob)
    /\ \A k \in 1..Len(blob) : blob[k] \in 0..(Base - 1)
    /\ change \in {"none", "cut", "overwritten"}
    /\ pc \in {"new", "kept", "scalars", "bytes", "ctable", "counts", "level", "rows",
               "samples", "docs", "valid", "invalid"}

\* Round trip: a blob that nothing happened to loads as the index it was made
\* from, with views in place of the vectors it owned; the blob of an object
\* without an index loads as such an object.
RoundTrip ==
    (Loaded /\ change = "none") =>
        idx = [stored EXCEPT !.fm.doc_bounds_owned_ = Nothing,
                             !.fm.sample_vals_owned_ = Nothing]

\* Every blob that lost its end is refused, wherever it was cut.
TruncatedIsRefused == (Loaded /\ change = "cut") => pc = "invalid"

\* What the checks of parseView are for: in an index that loads, whatever changed
\* in its blob, every sampled row has a value and every value a slot of the
\* anchor table, every descent stays in the levels, every position of the text is
\* in a document, and a byte leads to a symbol of the alphabet that is neither the
\* sentinel nor the separator.  It says nothing of the contents of c_ nor of the
\* symbols that the digits spell, which are not checked (RowsStayInTable).
AcceptedIsStructured ==
    pc = "valid" =>
        LET o == idx.fm IN
        /\ \A r \in o.sampled_bv_ : SampleVal(o, r) \div o.sa_sample_rate_
                                      \in 0..(o.text_len_ \div o.sa_sample_rate_)
        /\ \A c \in DOMAIN o.first_ : o.first_[c] \in 0..M(o)
        /\ \A x \in 0..(o.text_len_ - 1) :
             LET d == DocOf(o.doc_start_, x) IN
             d + 1 \in DOMAIN o.doc_start_ /\ o.doc_start_[d] <= x /\ x < o.doc_start_[d + 1]
        /\ \A b \in Bytes : o.byte_to_id_[b] \in (DOMAIN o.c_ \ {0, 1}) \cup {-1}

\* What one changed unit can do unnoticed: lengths, the number of symbols,
\* samples and documents, and how often each digit is in each level are those
\* of the serialized index.  What may differ is the order of digits, which rows
\* are sampled, the contents of c_, byte_to_id_, sv_ and doc_start_, and the
\* flags.
SizesAreKept ==
    pc = "valid" =>
        LET o == idx.fm
            was == stored.fm IN
        /\ o.text_len_ = was.text_len_ /\ o.sigma_ = was.sigma_
        /\ DOMAIN o.sv_ = DOMAIN was.sv_ /\ DOMAIN o.doc_start_ = DOMAIN was.doc_start_
        /\ [l \in 0..(o.qlevels_ - 1) |-> StartsOf(LevelsOf(o)[l])]
             = [l \in 0..(was.qlevels_ - 1) |-> StartsOf(LevelsOf(was)[l])]

\* "parseView validates everything the query paths depend on", but not the
\* payload words (DESIGN.md): in an index that loads and has its digits as they
\* were, LF, which every walk repeats, leads from every row to a row of the table.
RowsStayInTable ==
    (pc = "valid" /\ idx.fm.wm_ = stored.fm.wm_) =>
        \A r \in DOMAIN idx.fm.wm_ : LF(idx.fm, r) \in DOMAIN idx.fm.wm_
=============================================================================
