# A TLA+ model of fm-index-lite

fm-index-lite is a header-only C++ library (`src/src/index/fmindex/`) that
builds a compressed full-text index (an FM-index) over a list of documents and
answers substring queries on it, in memory or from a memory-mapped file. This
directory holds TLA+ modules that model it, TLC configurations that check them
on small instances, and TLAPS proofs. `PROJECT.json` lists the runs, the
source lines each definition models, the hazards and the findings.

## 1. The system

| Component | State | Operations | Talks to |
|---|---|---|---|
| `QuadVector` | packed 2-bit digits (owned or viewed), `sb_` absolute counts per superblock, `rel_` 16-bit counts per block | constructors, `from_view`, `build_rank`, `rank`, `at` | a level of the wavelet matrix |
| `BitVector` | packed bits, rank9 directory, `ones_` | `set`, `build_rank`, `from_view`, `rank1`, `count_ones` | marks the sampled rows of the suffix array |
| `WaveletMatrix4` | one `QuadVector` and four group starts per level | constructor (stable partitions), `rank`, `access`, `map2`, `map_zero`, `map_batch` | holds the BWT for `FMIndex` |
| `WaveletMatrix` | one `BitVector` and its number of zeros per level | constructor, the same queries | the unit tests, which compare the two matrices |
| `FMIndex::Build` | all members of `FMIndex`, assigned in order; may throw | one call | libsais (`SuffixArray.h`) sorts the suffixes |
| `FMIndex` queries | none beyond locals | `Count`, `LocateDocs`, `MatchingDocs`, `VisitMatchingDocs`, `Count/LocatePrefixDocs`, `Count/LocateSuffixDocs`, `Extract`, `LongestMatch`, `NextTokenCounts`, `FuzzyMatchingDocs`, `CountBatch`, `LocateDocsBatch` | wavelet matrix, C-table, samples, document bounds |
| lazy anchor table | `isa_sample_`, `isa_once_` | `ensureIsaSample`, from every `Extract`, on any thread | `std::call_once` |
| serialization | the file at a path, stdio's buffer, `errno` | `Serialize`, `SerializeToFile`, `SaveToFile` | the file system |
| loading | members as views into a blob | `parseView`, `LoadView`, `Deserialize` | the file's bytes |
| `MappedFMIndex` | a descriptor, a mapping, an index over it | `Open`, destructor | kernel, `LoadView` |

What is hard here, and what makes each part correct:

* **Numeric edges everywhere.** Rank directories have narrow counters, partial
  last words with arbitrary trailing bits, and a position `n` one past the end
  that must still be answerable. Correct: rank equals the number of
  occurrences.
* **A chain of index translations.** A query is right only if the document
  bounds, the dense alphabet, the suffix order, the BWT, the C-table, the group
  starts of the wavelet matrix and the sampled rows all agree; an off-by-one in
  one of them shows for a few texts only. Correct: the answers are those one
  gets by reading the documents.
* **Loops that must end.** A locate walks LF until it meets a sampled row.
* **Partial failure.** `Build` may throw wherever it allocates, between one
  member and the next, and may be tried again on the same object; a write may fail in the middle or only when stdio flushes, the process may die with
  half a file written.
* **Concurrency.** Queries are `const` and may run on many threads; the one
  thing they share and write is the lazily built anchor table. A file may be
  opened by one process while another one writes it.
* **Call sequences.** `Build` may be called again on an object that has been
  queried; its access views point into vectors that the second call fills again.
* **Lock-step batches.** Many queries share the rounds of a loop and are moved
  between compact and full arrays as they end. Correct: each answers as it would
  alone.
* **Search with a memo.** The fuzzy search cuts branches off by what it has seen.
  Correct: exactly the documents within the edit distance.
* **Bytes from outside.** A blob may be cut or changed between `Serialize` and the
  load. Correct: a cut one is refused; a changed one is refused, or it keeps its
  sizes and what the checks of `parseView` are for holds of it. The entries of the
  C-table and the symbols that the digits spell are not among what is checked.

## 2. Modules

```
QuadVector        the rank directory, step by step       <- QuadVectorProofs
BitVector         the sampled-row bitmap, step by step   <- BitVectorProofs
WaveletMatrix     the binary matrix (operators)
SymbolRank        what the wavelet matrix promises (operators)
  WaveletMatrix4  the matrix, level by level             <- MCWaveletMatrix4, WaveletMatrix4Proofs
ByteFold          bytes and ASCII case folding (operators)
  DocIndex        the abstract specification: documents and answers
  FMText          the tables of Build as functions of the documents (operators)
    FMObject      the members of an object and what is computed from them  <- FMTextProofs
      FMIndex     Build, search and Extract, step by step   <- MCFMIndex, FMIndexProofs
      FMCall      one query at a time on an object
        FMScan    longest match, next tokens, fuzzy search
        FMBatch   the batch queries
          FMQueries  the two together                    <- MCFMQueries, FMQueriesProofs
      FMBlob      Serialize, storage that fails, loading    <- MCFMBlob
SmallCorpora      the corpora of the MC modules
LazyIsa           concurrent Extract calls and call_once <- LazyIsaProofs
IndexFile         SerializeToFile, crashes, MappedFMIndex::Open  <- IndexFileProofs
```

The layers meet at promises. `QuadVector` shows that `rank` counts; the levels
of `WaveletMatrix4` use that count; `WaveletMatrix4` shows that the descents
compute the operators of `SymbolRank`; `FMIndex` uses those operators on the
BWT; and `FMIndex` and `FMQueries` implement `DocIndex`, which knows nothing of
suffix arrays (`Abstract == INSTANCE DocIndex WITH ...`, the property
`ImplementsDocIndex`). `BuiltExact` shows that the steps of `FMIndex` end in the
object that `FMObject!Built` defines, which is where `FMQueries` and `FMBlob`
start; `RoundTrip` shows that a load gives that object back, so that the answers
shown for a built index are those of a loaded one.

* **QuadVector.** Variables are the members (`n_`, `lanes` for the packed words,
  `nwords_`, `wpb_`, `sb_`, `rel_`) and the locals of `build_rank` and `rank`.
  `FromView` is the end of every constructor and factory: it accepts any
  contents in the lanes past `n_`, which covers the owning forms, whose
  trailing lanes are zero. `BlockHead`, `CountWord`, `NextBlock` are the loops of
  `build_rank`, `RankCall`, `RankWord`, `RankReturn` those of `rank`. The numbers
  32, 64, 16 and 2^16 of the code are constants, tied by `SpanAssumption`, the
  inequality of the comment on `set_words_per_block`.
* **BitVector.** The same for the bitmap. The packed second directory word is a
  function from word numbers to counts modulo 2^9.
* **WaveletMatrix4.** `BuildLevel` is one turn of the constructor's loop: digits,
  histogram, starts, scatter. A query has one lane (`rank`, `access`, `map2`,
  `map_zero`) or several (`map_batch`); `Descend` takes one lane down one level,
  all lanes before any goes on. `BinaryAgrees` compares the result with
  `WaveletMatrix`, which is written as functions because nothing in it changes
  once it is constructed.
* **FMIndex.** The object is the record `fm` with the code's member names. The
  `Build*` actions assign members in the order of `Build`; each ends in front of
  an allocation, and `BuildThrow` leaves between them, with the members assigned so
  far. `BuildCall` may then be taken again, with any corpus. `SearchStep` is a turn of the loop of `BackwardSearch` and of
  `suffixDocInterval`, `WalkStep` of `locateRow`, `ExtractStep` of `Extract`.
  Vectors that the code sorts are bags, vectors it also makes unique are sets.
  The 32-bit and the 64-bit suffix array paths compute the same tables and are
  one here. `doc_start_` and the sample view point into vectors that Build owns.
  A second Build clears and fills those vectors: `Seen` is what the old view
  shows from then on, the new elements if they fit into the buffer, freed memory
  if not, until `Views` points it at the storage again.
* **FMScan, FMBatch, FMQueries.** `LongestExtend` is a turn of the inner loop of
  `LongestMatch`, `NextByte` of the loop of `NextTokenCounts`. The recursion of
  `FuzzyMatchingDocs` is the sequence of calls still to be made; `Dfs` is one call,
  with the memo as it is at that moment. `CountTile`, `CountGather`,
  `CountScatter` are the three loops of a tile of `CountBatch`, the last one
  element by element, since that is where a lane could take another one's
  result. `WalkRound` is a round of `LocateDocsBatch`. A search inside these
  queries is `Interval`, a walk `LocateRow`: `FMIndex` has their steps.
* **FMBlob.** A blob is a sequence of four-byte units, the size of the smallest
  field. A unit has `UnitBits` bits (32 in the code), which scales the words, the
  largest size and the signed ids with it. `Serialized` is the writer;
  `ParseScalars` ... `ViewDocs` are the sections of `parseView` with their checks,
  each of which can end the load. `Cut` and `Overwrite` are what may happen to
  the blob in between. The three ways to load differ only in who owns the bytes.
* **LazyIsa.** `Enter`, `Pass` and waiting are `std::call_once`; `Assign` and
  `Fill` the body; an allocation failure leaves the flag unset, as the standard
  says.
* **IndexFile.** The path names an inode; `FOpen` truncates it in place;
  `Emit` moves a section through stdio's buffer; `EmitShort`, `FCloseFails`,
  `WriteHeaderThrows`, `Crash` are the failures; `OpenFd` ... `LoadView`,
  `Destroy` are `MappedFMIndex::Open` and the destructor, in another process;
  `NewThrows` is the one exception nothing owns the descriptor in.
  An index is the sequence of its sections. `Accepts` keeps of `parseView` what
  matters for torn files: a header first, and as much payload as it announces.

Definitions whose names start with `Mut_` are wrong variants of the definition
that follows them, one per property: putting the variant in place makes TLC
find the property violated.

## 3. Runs

| Run | Instance | Distinct states | Shows |
|---|---|---|---|
| `quadvector` | 2 lanes per word, 2 blocks per superblock, 1-2 words per block, counters of 9 values, up to 9 digits | 184 k | directory and rank exact, reads in bounds |
| `bitvector` | 2 bits per word, 3 words per block, counters of 5 values, up to 9 bits | 21 k | rank1 and count_ones exact with stray bits |
| `wavelet` | alphabets of 1, 2 and 5 levels, sequences up to 4, batches of two lanes | 948 k | stable partitions, exact descents and results, agreement with the binary matrix |
| `search` | every corpus of up to 4 text symbols over 3 bytes, case-sensitive or not, rates 2, 3 and 0 (read as 1), every pattern up to 2 bytes, 8 queries, every offset and length of Extract; Build of one corpus may throw before the C-table is made and be followed by the Build of any, and Build of any may follow that of two other corpora | 768 k | the interval after every step, the LF walk, LF itself, Extract step by step, no trace of an earlier corpus; refinement of `DocIndex`, with every call answered |
| `queries` | the same corpora, queries up to 3 bytes for `LongestMatch`, patterns up to 2 with up to 2 errors, every batch of 3 patterns out of 4 with tiles of 2 | 310 k | lanes and walks keep their own query, edits stay in a document, the memo loses nothing; refinement of `DocIndex`, with every call answered |
| `load` | the same corpora, case-insensitive, rates 1 and 3, narrow and wide, two block sizes; every cut and every place overwritten with 9 values; units of 4 bits | 1.19 M | round trip, cut blobs refused, what the checks of `parseView` establish, sizes kept |
| `lazy_isa` | 3 threads, every permutation of 3 rows, 2 failing allocations | 21 k | no race, exact anchors, built once, every call ends |
| `index_file` | 3 sections, 3 saves | 730 k | complete or reported, complete or rejected, nothing leaks |

Runs that are expected to fail show where the code and its own text disagree:

| Run | Property | What happens |
|---|---|---|
| `stale_isa` | `IsaFresh` | Build, Extract, Build: the once flag is not reset, so the next Extract uses the rows of the old corpus |
| `failed_build` | `ValidIsComplete` | an exception while the wavelet matrix is made, or behind it, leaves `c_` filled, hence `valid()`, with no samples and no document bounds; a second Build that throws leaves the old index with the new document bounds |
| `doc_id` | `OutOfRangeIsEmpty` | `doc_id + 1` wraps for the largest id and passes the check |
| `c_table` | `RowsStayInTable` | `parseView` takes the entries of the C-table unchecked: a blob with another `c_[0]` loads as valid, and LF leads to a row behind the last one |

DESIGN.md:276 also says that there is no lazy initialisation and that
`isa_sample_` is built at load; it is built by the first `Extract`, under
`call_once`. What the sentence is there for, queries from many threads without a
race, holds (`lazy_isa`).

FMIndex.h:174 says that the counts of `NextTokenCounts` add up to Count(P) at most.
On a case-insensitive index they may exceed it: the loop asks for all 256 bytes
(FMIndexInl.h:391), so that both cases of a letter are reported, each with the
occurrences of the two. `DocIndex` states the answer as it is given.

**Why the bounds are enough.** The rank structures repeat with the period of a
superblock (a block for `BitVector`). Nine digits reach into the third
superblock with blocks of one word and into the second one with blocks of two;
nine bits reach into the second block, end it in the middle of a word or
exactly at a block boundary, and the counters have no value to spare, so that
every kind of boundary and the largest relative count occur. A corpus of four symbols already has empty documents,
several documents, repeated bytes, the null byte, an upper-case byte and its
lower-case one, a byte that is absent, and no document at all; rates 2 and 3
leave rows unsampled and leave the last position without a sample above it.
The corpus whose Build may throw (`ThrowsOn`) has an upper-case byte, folding, two
documents and an empty one, so that it leaves something in every member for the
Builds that follow; which of its members are set depends on the step it threw in, and
every step in front of the C-table occurs.
Two errors on a pattern of two bytes reach the same interval along paths that
spent different numbers of errors, which is when the memo matters. Three
patterns in tiles of two leave a full and a partial tile; the four patterns
include the empty one, one with a byte that may be absent, and lengths that
differ, so that lanes end in different rounds. With units of four bits a level of
the longest text has two words, the last one partly used, and ids, counts
and the text length come near the ends of their ranges; the values
written over a unit include 0, all the small ids and counts, the sign boundary
and the largest value. In
`IndexFile` three saves give a good file, a torn one over it, and a third that
follows a removal; three sections give a header, a middle and an end.

**Fairness.** `FMIndex` and `FMQueries` assume that a call that was made goes on
(`WF` on the steps of Build and of a query: they are sequential code that
waits for nothing). `LazyIsa` assumes that every thread inside a call is
scheduled (`WF` on each thread's steps); a thread that waits in `call_once` has
no step, and callers need never call. The other modules assume none.

**Deadlock** is checked in every run.

## 4. Proofs

Every theorem has the form `Spec => []Property` (or an action property, or the
steps of an abstract specification) and
holds for every value of the constants that satisfies the assumptions named in
the module; TLC evaluates those assumptions on the instances of the runs. Each
proof has an inductive invariant `IInv`, which TLC found to hold before it was
proved, and one lemma per action. A proof module starts with the arithmetic it
needs: quotients and remainders, counts over adjacent intervals, sets of numbers
closed under successor, initial segments.

| Module | Theorems | For every |
|---|---|---|
| `QuadVectorProofs` | `TypeOK`, `DirectoryExact`, `RankExact`, `ReadsInBounds` | digit set, lanes per word, block and superblock size, stream |
| `BitVectorProofs` | `TypeOK`, `Rank1Exact`, `OnesExact` | word size, block size, length, stray bits |
| `WaveletMatrix4Proofs` | `TypeOK`, `PartitionIsStable`, `DescentExact`, `ResultExact` | alphabet, number of levels, sequence, query, batch |
| `FMIndexProofs` | `TypeOK`, `BuiltExact`, `LFExact`, `IntervalExact`, `WalkExact`, `ExtractExact`, `IsaFresh`; every step is one of `DocIndex` (`RefinesDocIndex`) | corpus, folding, pattern, sampling rate, passage |
| `FMQueriesProofs` | `TypeOK`, `FuzzySound`, `LaneExact`, `WalksKeepPosition`; every step is one of `DocIndex` (`RefinesDocIndex`) | corpus, folding, sampling rate, query, number of errors, batch, tile |
| `LazyIsaProofs` | `TypeOK`, `NoDataRace`, `AnchorExact`, `BuiltOnce` | number of threads, text, rate, failing allocations |
| `IndexFileProofs` | `TypeOK`, `SuccessIsComplete`, `FailureLeavesNoFile`, `FailureHasErrno`, `OpenIsComplete`, `NothingLeaks` | content, number of saves and crashes |

**QuadVector.** `SpanAssumption`, that the symbols of a superblock at the largest
block size are fewer than the values of a `rel_` counter, is the only reason why
`rel_` loses nothing in its narrow type. The invariant adds what the loops know:
`AccExact`, that the running counts are the occurrences before the word the
loop has reached, cut off at `n_`; and `RankLoop`, that the partial result of
`rank` counts the words already passed. `DirectoryExact` is itself part of it: a
`rel_` entry is right because the superblock entry written up to 63 turns
earlier was.

**BitVector.** The same shape: `DirectoryExact`, that the absolute count of every
block begun and the counts within every block completed are the ones before
them, cut off at the length, and `RunningExact` for the totals of the loop.
`count_ones` is exact because the last total is the count at the cut.

**WaveletMatrix4.** The property of a level, that it is a stable partition of the
one before, says nothing of the original sequence, and a descent through `q`
levels needs just that. The invariant therefore speaks of keys: `Before` and
`Alike` compare two symbols by the digits of the levels passed, the last level
first; `PlaceAt` counts the positions ahead in that order (`PlaceIsRank`), which
makes it a bijection (`SpotBijective`), and one level of a descent takes `PlaceAt` of
level `d` to that of level `d + 1` (`PlaceStep`). At the last level the digits
determine the symbol, and the place is `MapPos` (`PlaceIsMapPos`).

**FMIndex.** `FMTextProofs` is about texts and needs no state machine. A text that
ends with the only sentinel (`Ended`, shown of `SymbolText` for every corpus in
`SymbolTextEnded`) has totally ordered suffixes (`SuffixOrder`); `SuffixArray`
sorts them (`SuffixArraySorts`); the step from a row to that of the preceding
position keeps the order among rows with the same preceding symbol
(`BackOrder`), so that counting finds it: LF is that step (`LFBack`), and
`Extend` takes the ends of the interval of a word to the ends of the interval of
the word with one symbol more in front (`ExtendRows`). A sample is found by its
rank among the sampled rows (`SampleIsPosition`). `FMIndexProofs` has three
invariants. `IInv` says what each step of Build has assigned (`BuildHolds`), that
an object with a corpus is the one its corpus determines (`ObjectHolds`), and
where the search and the walk are (`SearchHolds`): `WalkExact` alone is not
inductive, since it does not say why the next step meets no start of the text;
`steps <= sa[i] % rate` does. `ExtractHolds` adds the anchor table and the
walk of Extract. Two assumptions on the constants describe the histories the
code is right for, and the runs `failed_build` and `stale_isa` show that it is
not without them: `ThrowsEarly` (memory runs out, if at all, in Builds of an object
that has no index, be it the first one or one that follows others that threw, and
before the C-table is made) is needed for everything, and
`NoRebuildAfterAnchor` (no Build after an Extract) for `TypeOK`, `ExtractExact`,
`IsaFresh` and the answers. `CallAssumption` says that documents and patterns
consist of bytes and that ids, offsets, lengths and rates are unsigned.

The third invariant, `AnswerHolds`, leads from rows to answers. `Found` says that
the interval at the end of the search holds the rows of the whole pattern;
`Listing`, that what was collected so far is what the rows before `i` give;
`Asked`, that the range of Extract is that of the excerpt; `Answered`, that the
answer is that of `DocIndex`. It rests on the second half of `FMTextProofs`: a
pattern occurs in a document where its word stands in the text, and nowhere
across two documents, since no byte has the separator's id (`WordStands`); with a
separator behind it, the word stands where the pattern ends a document
(`EndStands`); rows and occurrences are in bijection (`RowHits`, `RowCount`,
`DocCount`); and the rows whose preceding symbol is the separator or the
sentinel are those of the documents that start with the pattern (`PrefixCount`,
`PrefixRows`), where document 0 is the sentinel's. `RefinesDocIndex` then goes
through the actions: the last step of Build is the abstract Build, the step that
leads to `done` is the abstract Reply, Return is Done, and all the others leave
corpus, request and answer alone. One more assumption is needed, `NoIdWraps`: no
document id asked for is the largest of its type. The run `doc_id` shows what
happens otherwise.

**FMQueries.** The first invariant is that an object is the one its corpus determines
(`ObjectHolds`), that the call in progress is one of the requests (`PlaceHolds`),
and what its locals mean (`QueryHolds`). `LaneExact` is not inductive alone: in
the middle of a scatter the compact entries that have not been told to their lane
yet must still belong to it, and no two of them to the same one (`EntryHolds`).
`FuzzySound` speaks of the next call of the recursion; the invariant says of
every call on the stack that its interval is that of a word of indexed bytes
whose distance to the pattern's rest behind `i` is at most the errors spent
(`DfsCalls`, `Reached`). `RoundKeeps` says that a round changes neither where a
walk leads nor whose it is (`Target`): `LocateRow` of its row plus its steps.
The lemmas beneath: a byte in front of a word extends its interval (`Prefixed`),
`LocateRow` returns the position of the row (`LocateRowExact`), the recursion of
edit distance has one solution (`DistanceTable`), and a letter in front of one
of two words adds at most one edit to it, the same letter in front of both none
(`EditInFront`, `FoldedDistance`); `DocIndex!Distance` is a table over how much
of each word is left so that this can be proved. `CallAssumption` says that
documents and patterns consist of bytes, that error budgets are unsigned and that
Build has replaced the rate 0.

The second invariant, `AnswerHolds`, says what each loop has found so far, in the
terms of the documents. `LongestAnswers`: `best` beats every match that ends
before the end position reached and, at that position, every one no longer than
the match that is being extended; when the next byte extends it no more, none
longer ends there, since a word occurs only where its parts do (`PartOccurs`).
`NextAnswers`: the bytes tried are counted. `CountAnswers`: the result holds the
count of every pattern whose lane has ended, and 0 for the others. `WalkAnswers`:
the walks of a pattern and its rows are in bijection through `Target`, and the
walks in front of the tile are done, so that the positions reported are those
of the rows, each once.

`FuzzyAnswers` is about a depth-first search with a memo that is right although it
drops calls. `Explored` says that every call which a visited call makes has been
met, which is to hit or to be in the memo with as few errors, or is still to
come; being met is stable because the memo only ever lowers its errors
(`SeenStays`, `ExploredStays`). When no call is left, everything that can be
called has been met. That no document within the budget is missed is then an
induction over the table of edit distances between a substring and the pattern:
`Covered` says that a cell of at most `k` errors is met, for the rows of as many
bytes of the substring as the cell has taken, and each of the three ways to the
cheapest neighbour is one of the calls of `Calls` (`CoveredByte`, `CoveredSkip`,
`CoveredCell`, `CoveredCells`). A cell that has taken the whole pattern may have
been hit with fewer bytes, and then the search does not go on (at `i = 0` nothing is
called); that suffices because the fewer bytes occur in the same document. That
no document too many is found is `FuzzySound`
(`HitIsNear`). `RefinesDocIndex` follows as it does for `FMIndex`, without any
assumption on the history.

**LazyIsa.** `Exclusive` says that whoever works on the table is the one thread
inside `call_once`, and that whoever reads it has seen the flag set; `Filling` and
`Filled` say which slots hold their row. Two sampled rows never share a slot
(`SlotsApart`), so that a later turn of the loop overwrites none.

**IndexFile.** `InFlight` says that every section emitted is in the inode, in
stdio's buffer, or lost, and that none is lost while the call is still ok; `InOrder`
that as long as none is lost, inode and buffer hold the sections in order; `Whole`
that a file of full length is one save's index; `Measured` that what Open has
measured is still there when it is used.

Induction is available only over sets of numbers (`NatSet`), and a recursive
function is known by its equation once a function that satisfies it is shown to
exist (`Pow4Facts`, `BoundsExist`).

Only model-checked: the liveness part of `ImplementsDocIndex` and `EveryCallEnds`
(fairness is out of the prover's reach); `BinaryAgrees`; and the properties of
`FMBlob`, whose round trip goes through powers of the unit size and through the
levels as packed words, for which the provers have no theory.

## 5. Not modelled

* libsais: external; the suffix array is defined by what it is.
* Prefetching, scratch mappings, memory statistics, benchmarks: no effect on
  answers.
* A power failure (the code never calls fsync), and saving over the path of an
  index that is open or mapped: the code has no protection against it, and
  the guard of `FOpen`, an obligation of the callers that is not in the code,
  leaves it out. `OpenIsComplete` and its theorem say nothing of such a save.
* A promise about `new MappedFMIndex` throwing in `Open`: the step is there
  (`NewThrows`), and the descriptor and the mapping stay for the life of the
  process, since nothing owns them at that point. `NothingLeaks` is about the
  calls that return.
* More than one change to a blob, and which wrong answers a change gives that a
  load accepts: the format has no checksum. What a load does establish is
  `AcceptedIsStructured` and `SizesAreKept`. That is less than memory safety of the
  queries: a changed C-table leads them out of the table (run `c_table`), and
  changed digits may spell symbols past the alphabet, which the documents call
  the caller's responsibility.
* The bits of the flags word that the loader ignores.
* Saving an index that was never built, to a file (`FMBlob` has its blob, which is
  refused).

## 6. Plan

Done: the rank structures, both wavelet matrices, Build, all the queries with
their abstract specification, the lazy anchor table, the blob format and its
loading, the file life cycle, and the theorems of section 4.

Next, proofs: the round trip of `FMBlob`; that the
binary wavelet matrix agrees with the four-ary one.
