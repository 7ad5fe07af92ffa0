# Zopfli: a verification project

TLA+ models of the zopfli compressor in this repository (a C library under
`src/zopfli`, the `zopfli` and `zopflipng` programs, the zopflipng library and
the Go bindings), model-checked with TLC on small instances, with proofs in
TLAPS for every value of the constants.  The models are translated from the
source; where a comment or document says something else, the code wins.

## 1. Inventory

Zopfli is a sequential program: no threads, no persisted state.  Its hazards
are ring buffers read after their entries were overwritten, caches that must
agree with the search they replace, counters materialized lazily, limits that
bite only on long or pathological inputs, and phases (greedy run, block
splitting, iterated squeeze runs, block output) that share state in an order
nobody checks.

| component | source | state it keeps | operations |
|---|---|---|---|
| hash chains | `hash.c/h` | rings `prev`, `hashval`, `same`, heads per bucket, twice; rolling value | reset, warm-up, update per byte |
| longest match | `lz77.c` 355-703 | the walk over a chain | `FindLongestMatch`, lookups and stores in the cache |
| longest-match cache | `cache.c/h` | length, distance, offset of runs per position; shared run pool with a budget | init, `SublenToCache`, `CacheToSublen`, `MaxCachedSublen` |
| LZ77 store | `lz77.c` 29-301 | literals, lengths, distances, position checkpoints, lazily materialized cumulative histograms | store, reset, copy, append, histogram, byte range |
| greedy matcher | `lz77.c` 705-791 | a pending lazy match | `LZ77Greedy` |
| squeeze | `squeeze.c` | costs and lengths per position, statistics, best store so far, random state | `GetBestLengths`, `TraceBackwards`, `FollowPath`, `LZ77Optimal`, `LZ77OptimalFixed` |
| block splitter | `blocksplitter.c` | split points, `done` flags | `FindMinimum`, `BlockSplitLZ77`, `BlockSplit`, `BlockSplitSimple` |
| deflate | `deflate.c` | output bytes, bit pointer | bit writer, tree encoding, size estimates, block types, master blocks |
| Huffman lengths | `katajainen.c`, `tree.c` | nodes and lists of the boundary package-merge | `LengthLimitedCodeLengths`, `LengthsToSymbols`, entropy |
| symbols | `symbols.h` | none | length and distance symbols and extra bits |
| containers | `gzip_container.c`, `zlib_container.c`, `zopfli_lib.c` | checksums | gzip, zlib, dispatch |
| options and allocation | `util.c/h`, `zopfli.h` | growable buffers | options, `ZopfliRealloc`, growth policy |
| zopfli program | `zopfli_bin.c` | files | load, save, compress, arguments |
| zopflipng | `zopflipng/*.cc` | best result over strategies, files | filter strategies, chunk policy, verification, saving |
| lodepng | `zopflipng/lodepng` | what is known of a file that is read | conversion of colors, filters, chunks; reading zlib streams |
| Go bindings | `go/` | none | wrappers |

How they interact.  `ZopfliDeflate` cuts the input in master blocks;
`ZopfliDeflatePart` runs the greedy matcher over a master block, lets the block
splitter cut its LZ77 store, and runs the squeeze over each block with that
block's longest-match cache.  Every LZ77 run resets and refills the one hash;
the longest match walks the chains and fills or consults the cache; the store
receives the result and answers histogram queries by which the splitter and the
size estimates choose.  A possible second splitting works on the squeezed
store.  The chosen blocks are written through the bit writer, whose bit pointer
is carried from block to block and from master block to master block.  The
containers put a checksum and a trailer around the stream, `zopfli` does so for
each file it is given.  `zopflipng` decodes an image with lodepng, encodes it
again with one filter strategy after the other, where lodepng calls back into
zopfli for the compression, puts kept chunks back, decodes the result to compare
it with the original, and decides what to do with the file.

What makes each part correct:

- hash chains: a chain visits exactly the earlier positions of its bucket
  inside the window, nearest first; the stored run length is the true one.
- longest match: every reported distance is a true match, the nearest one of
  its length; the walk never leaves the window; a cached answer equals a fresh
  search.
- LZ77 store: a histogram answered from checkpoints equals the counted one at
  any time, whatever mixture of stores, appends, resets and copies came before.
- greedy and squeeze: the output covers the input exactly once; the squeeze
  finds a cheapest path in its cost model; the best run is kept.
- block splitter: points strictly increase, lie inside the store, never exceed
  the maximum, and the search ends.
- deflate: every byte is covered once and in order, only the last block is
  final, blocks begin where a reader expects them, trees decode to the lengths
  they encode.
- Huffman lengths: complete codes within the limit, optimal; canonical codes.
- containers and programs: the stored checksum is that of the whole input,
  whatever a file was said to be long, and a failure shows in the exit status;
  outputs on standard output are in the order of the files named.
- zopflipng: the new file shows the same image and keeps the chunks asked for,
  in their places; no file is replaced by another image or by a larger file.

Hard to test, and therefore what the properties are for (`PROJECT.json` lists
each hazard at its line): entries of the rings that are overwritten a window
later; a match cache that must answer like the search it replaces after it ran
out of memory for some positions; cumulative counts that survive a reset of
their store; a hash that is no longer built in later squeeze passes; a lazy
match that nobody puts after the loop; split points that index bytes in one
phase and symbols in the next; a final flag that passes through three loops;
run lengths at the limits of their codes; a checksum that is reduced late; a
color that becomes the transparent one after it was seen opaque; an index that
outlives the palette it points into.

## 2. Modules

| module | code | status |
|---|---|---|
| `ZopfliHash` (proved about in `LongestMatchProofs`) | `hash.c` | checked, proved |
| `MatchCache`, `MatchCacheProofs` | `cache.c` | operators of `LongestMatch` and `Squeeze`, proved |
| `LongestMatch` (extends `ZopfliHash`, `MatchCache`), `LongestMatchProofs` | `lz77.c` 355-703 | checked, its safety proved |
| `SymbolLog`, `LZ77Store` (implements `SymbolLog`), `LZ77Proofs` | `lz77.c` 29-301 | checked, proved |
| `BlockParse`, `LZ77Greedy` (implements `BlockParse`), `LZ77Proofs` | `lz77.c` 705-791 | checked, proved |
| `Squeeze` (extends `MatchCache`), `SqueezeProofs` | `squeeze.c` 215-465, 496-528 | checked, its safety proved |
| `Statistics`, `SqueezeIterations` (proved about in `SqueezeProofs`) | `squeeze.c` 41-208, 466-681, entropy of `tree.c` | checked, proved |
| `BlockSplitter`, `BlockProofs` | `blocksplitter.c` | checked, its safety proved |
| `BlockStream`, `DeflateStream` (implements `BlockStream`), `DeflateStreamProofs` | `deflate.c` 911-1109, `blocksplitter.c` 282-323 | checked, its safety proved |
| `Katajainen`, `CodeLengths` (proved about in `BlockProofs`) | `katajainen.c`, `tree.c` | checked, `NodesInPool` proved |
| `BlockCoding`, `BlockWriter` (proved about in `BlockProofs`) | `deflate.c` 30-910, `symbols.h`, `tree.c` | checked, `EstimateExact` proved |
| `Inflate`, `DeflateBlock` (extends `BlockWriter`) | `lodepng.cpp` 471-1411 | checked |
| `Containers`, `ZopfliProgram`, `ProgramProofs` | the containers, `zopfli_lib.c`, `zopfli_bin.c` | checked, proved |
| `PngColor`, `PngScanlines`, `PngFile`, `PngOptimize` | `zopflipng_lib.cc`, what it uses of `lodepng.cpp` and `lodepng_util.cpp` | checked, `ChunksKept` proved (`ProgramProofs`) |
| `ZopfliPNG`, `ProgramProofs` | `zopflipng_bin.cc`, the strategies of `zopflipng_lib.cc` | checked, in part proved |
| `NumberLemmas` | | induction up to a number, recursive functions, division: what `LZ77Proofs`, `SqueezeProofs`, `BlockProofs` and `ProgramProofs` share |

`MC...` modules hold the definitions that the `.cfg` files need; three of them
put machines that share nothing side by side, one of which runs in a behavior
while the others are idle: `MCSqueeze` the passes and the iterations,
`MCDeflateBlock` the code lengths and the blocks, `MCPrograms` the two programs
and the encoder.  `\* mutant` marks an operator that nothing uses: it is a
plausible mistake in the definition that follows it, which the property named
for it in `PROJECT.json` finds.

How the modules correspond to the code:

- **ZopfliHash.** `chain` and `chain2` are the two triples `head`, `prev`,
  `hashval`; `same` is the ring of run lengths; `pos` is the next position the
  caller hashes.  `UpdateHash` is `ZopfliUpdateHash` as a whole, `Restart` the
  reset and warm-up that begin a run on the tables another run left.  The hash
  function is a constant of which only its closure and that three bytes push an
  older one out (`HashForgets`) are assumed.
- **MatchCache / LongestMatch.** A search (`Search`, then one `Visit` for each
  candidate of the chain, then `Finish`) reads the hash state and fills or
  consults the cache record; `Advance` and `NextPass` are the caller, greedy or
  squeeze.  Runs that the code packs in three bytes are pairs.  A position
  whose runs were never written reads `Unwritten`, which no property allows.
- **LZ77Store.** Stores are records of arrays with a capacity; memory that is
  grown holds `Garbage`, memory that is reset keeps what it held.
- **LZ77Greedy.** One action is one round of the loop.  What the search answers
  is any length that fits, near or far, because `LongestMatch` shows what it
  really answers and the loop must be right for all of them.
- **Squeeze.** `Greedy` is one position of the run that fills part of the cache
  (`searches` is which ones it searches), `FirstIteration` the first pass under
  its statistics, `Forward` one position of `GetBestLengths` or, in a long
  repetition, the positions left out, `Trace` and `Follow` one symbol, and
  `NextIteration` the next pass under any of the cost models.  The search is
  replaced by what `LongestMatch` shows of it.
- **Statistics / SqueezeIterations.** A round of the loop of `LZ77Optimal`
  finds any of some parses, known by their histograms and sizes; what is kept,
  which size is taken over for a repeated histogram, and the statistics of the
  next pass, blended and perturbed by any random numbers, follow the code.  The
  cost tables are computed in fixed point, logarithms included.
- **BlockSplitter.** A round is `TryAll` or probing (`Probe` once for each
  nine probes of the code), `AddPoint` or `MarkDone`, and `ChooseBlock`.  What a
  block costs is a constant function of its symbols.
- **DeflateStream.** `StartPart` is a round of the loop over master blocks;
  `Split`, `SqueezeBlock`, `SplitAgain` and the blocks are the phases of
  `DeflatePart`; `StoredChunk` is a round of `AddNonCompressedBlock`.  `buf`
  is the size of the output and the bit pointer; `read` is the position a
  reader of the format has come to, kept beside it for `BitsAgree`.  What the
  splitter finds and the squeeze parses is any choice that those modules allow;
  which type is cheapest, and which of two splittings, is left open.
- **Katajainen / CodeLengths.** A step is one run of boundary package-merge.
  A chain of nodes is kept as the counts that the code reads off it.  The runs
  are a recursive function of the list and of what all lists hold, and sorting
  picks the lightest leaf that is left: what a stable order of distinct keys is,
  whichever gaps the shell sort takes.
- **BlockCoding / BlockWriter / DeflateBlock / Inflate.** `BlockCoding` has the
  pure parts: symbols, trees and their sizes.  `BlockWriter` is a block's way
  through `AddLZ77BlockAutoType`: `EstimateCosts` computes the three costs that
  it compares, `WriteEmpty`, `WriteStored` and `WriteCompressed` produce the
  bits of the type chosen.  `DeflateBlock` adds a reader: lodepng's inflator,
  which shares no definition with the writer, reads them back, one symbol per
  step.  Sums and concatenations over a block are folds that halve their range.
- **Containers / ZopfliProgram.** One action for each option and file, one for
  each chunk read from a file (`Read`), and one for each way to write.  Any call
  of the system may fail.  The deflate stream inside a container is not expanded
  again: a container is the stream's input, its header and its trailer.
- **PngColor / PngScanlines / PngFile / PngOptimize.** The first three are pure:
  pixels to and from the bits of a color mode and the choice of the mode; raw
  images to and from filtered lines; files as sequences of chunks.  `PngOptimize`
  takes a file through `DecodeInput`, `LossyOptimizeTransparent`,
  `TryOptimize`, `RetryWithoutPalette` and `InsertKeptChunks`.  What is computed
  by a loop is a recursive function of the rounds, so that it can be reasoned
  about: `GetChunks`, `Stats8`, `UnfilterScanline`.  The compression
  of the lines in between is that of `DeflateBlock` and left out.
- **ZopfliPNG.** One action for each strategy tried and for each thing that may
  become of a file.  An image is an identity, hidden colors apart, and a
  size; the encoder may give any.

## 3. Runs

| run | question | bounds |
|---|---|---|
| `match` | hash chains and run lengths exact in a reused ring; walks end inside the window; answers are the true nearest longest matches, cached or not; with at most 2 candidates, distances are still nearest and passes agree | window 8, 12 bytes, lengths 3-5, a pool of 3 runs |
| `second_chain` | **violated**: the second chain has no effect on the result | one input of 18 bytes |
| `store` | no access outside memory, histograms exact, a store is a list | 2 stores, 4 symbols, chunks of 2 and 3 |
| `greedy` | lazy matching covers the block once and ends | blocks up to 8 bytes, lengths 3-6 |
| `squeeze` | least costs, every index reached (part of `TypeOK`), parse keeps its promise, hash there when needed; the smallest parse kept, costs below the sentinel | 4 cost models, 2 iterations; all short inputs with a pool of 4 runs, and 25 bytes of one byte but for one place; 4 iterations over 4 parses |
| `repetitions` | **violated**: leaving out repetitions has no effect on the result | the latter inputs |
| `split` | points in order and allowed, cost is that of the point, splitting ends | all two-letter lists of 2, 7, 12 symbols |
| `stream` | blocks hold the input once, final flag last, bits agree, stored chunks are full but for the last | 0, 1, 5, 8 bytes, master blocks of 5, stored chunks of 2 |
| `stored_estimate` | **violated**: a stored block costs at most its estimate | 2 and 3 bytes |
| `trees` | code lengths complete, limited and cheapest; nodes stay in the pool; blocks read back and take what was estimated | all histograms of 4 symbols with counts to 4, many of 5 and 6; blocks at every limit of the codes |
| `programs` | what is saved reads back; failures show, and outputs on standard output are in the order of the files; pixels and chunks are kept; no file is lost or grows | buffers from 4 bytes, sizes below 32; images to 9x2 and 6x6 in every mode, palettes of 17; 4 files, 3 strategies |
| `background` | **violated**: a kept background color is the same as before | the images with palettes |

Why the bounds are enough for the cases that matter:

- The rings wrap: inputs are longer than the window, or, where a search must
  look back a whole window, blocks end beyond it.  The caps of run lengths and
  of the search (6 for 65535, 2 for 8192) are reached.
- The pool of runs is smaller than some blocks need, so positions without
  cached runs occur, before and after positions that have them.
- Chunks of two and three symbols are crossed, grown, reset and reused within
  four symbols.
- The blocks of 19 and 25 bytes of `squeeze` are long enough for the shortcut
  for repetitions, which needs more than two longest matches (`MaxMatch` is 4)
  ahead and one behind; a different byte somewhere puts its ends everywhere.
- `CostsFit` has words of 15 bits for 32, 7 bits for what a position may cost
  and blocks of 12 bytes, for which the shift must be below the largest one, as
  it must for a master block in the code.
- Lists of 12 symbols are probed twice or more with two probes a round
  (nine in the code) and lists below `FewPoints` are searched in full.
- 5 is exactly a master block, 8 is two; stored blocks of 1 to 5 bytes are
  less than, exactly and more than a chunk; bodies of 7 and 12 bits bring the
  bit pointer to every value.
- In `trees` the codes have their real limits (15 and 7 bits, repeats of 6, 10
  and 138) and all 286 and 30 symbols; lengths from 3 to 258 and distances at
  both sides of every base occur, and histograms for which the limit binds.
- In `programs` the sums of Adler-32 fit in their half words only if they are
  reduced after every stretch, as in the code; files outgrow their buffer once,
  more often, and until it would wrap.
- Images have lines of less than a byte, of one and more, widths and heights
  for which reduced images are empty, palettes that are at the limit, over
  it, unused in part and with colors twice, keys that are and are not usable,
  and 16-bit samples that need 16 bits or do not.

`CHECK_DEADLOCK` is off for `trees` only, where a task that has been done simply
stops; elsewhere a model that comes to its end stutters by an action of its own,
so stopping early would be found.

**Fairness.** Everything is one sequential call: the steps of the walk, the
rounds of the greedy loop, the steps of splitting and of the stream are never
interrupted, and nothing else runs.  Weak fairness of exactly those steps is
assumed for `SearchEnds`, `EventuallyParsed`, `SplittingEnds` and `StreamEnds`;
what a caller does between searches is not fair.

**What contradicts the comments.**

- `second_chain`: `util.h:147-152` says the second hash has no effect on the
  compression result.  A walk that changes over (`lz77.c:672`) does not spend
  candidates on the positions it skips, so with a limit on the candidates it
  may find a match the first chain alone does not reach.  Nothing is wrong with
  the stream.
- `repetitions`: `util.h:155-158` says the same of the shortcut for long
  repetitions.  It leaves only longest matches on the way through them, and a
  cost model may charge those more than shorter ones, so that the cheapest
  parse is missed.  Building the library without the macro changed the size of
  the output for some input by one byte.
- `stored_estimate`: `deflate.c:675-677` counts five bytes for the header of a
  stored block, "potential less padding for first one ignored".  There may also
  be more: from bit 6 or 7 of a byte the three header bits run into the next
  byte, which is padded too.  The output is correct; the type chosen for a block
  may be one or two bits longer than another.
- `background`: with `--lossy_transparent` and a kept `bKGD` chunk the palette
  is cut (`zopflipng_lib.cc:136-155`) although `zopflipng_lib.cc:386-387` keeps
  the color type because the chunk depends on it.  The chunk is copied as it is,
  so its index means another color.  When it means none, the file does not
  decode, and the program keeps the original.

Seen while modelling, without a run of their own:

- `zopflipng_lib.cc:181` says the original order of the palette is preserved.
  The raw image is given the palette but the type RGBA, so that the test for it
  (`lodepng.cpp:3945`) never holds and the palette is in order of appearance.
- The help text of `zopflipng` says an existing output is not overwritten if it
  is smaller.  That is so with a prefix or in place (`zopflipng_bin.cc:418-420`);
  another name given for the output is overwritten whatever is there.
- A name given twice to `--keepchunks` has its chunks written twice: `KeepChunks`
  copies a chunk once for each name that is its own (`zopflipng_lib.cc:345-347`).  The model has a set of names.
- An index beyond the palette shows black (`lodepng.cpp:2677`), but is written
  with the same palette only if that has a black: else error 82, and the
  original stays.  It takes a color type that is kept.
- The exit status of `zopflipng` is the number of images that could not be
  optimized; a file that could not be written, or only in part, is not counted
  (`zopflipng_bin.cc:445`; `lodepng_save_file` checks only that it opens).

## 4. Proofs

The first part of `LongestMatchProofs` proves of the hash, for every window
size, byte set, input, block and hash function that satisfies the assumptions of
`ZopfliHash`:

- `TypeCorrect`: `Spec => []TypeOK`.
- `SameIsExact`: `Spec => []SameExact`.
- `ChainsAreExact`: `Spec => [](FirstChainExact /\ SecondChainExact)`.

The inductive invariant `IInv` is `TypeOK`, exactness of both chains and of
`same`, and two parts no property asks for: `RollingHash` says that `val` is the
hash of what came before and the next position's first two bytes, to which the
third is yet to be added, and `RunBehind` that all of `same` is zero at the
start of a run, which is needed because the run length is counted on from the
slot before, then one that no position of this run has written.  The first chain's
step follows from one lemma (`LinkKeepsExact`) about a table of chains and any
function of positions, used again for the second chain, whose function needs
`SameExact`.  `SlotApart` and `SlotWrap` are the arithmetic of `%`: live
positions have different slots, and the slot written is the one of the position
that leaves the window.

`LZ77Proofs` proves of the greedy parser, for all blocks and all answers:

- `TypeCorrect` and `HeldBackFits` (the inductive invariant is both together:
  the place of the match held back is what keeps `i` inside the block),
- `NothingIsLost`, which follows from it at `i = end`,
- `GreedyParses`: `Spec => ParseSpec`, each round puts the next symbols of an
  abstract parse or none.

and of the stores, for any number of them and chunks, capacities and alphabets
of any size:

- `StoresInBounds`, `HistogramsAreExact` and `StoresAreLogs`, the refinement of
  `SymbolLog`.  The inductive invariant (`StoresHold`) says three things of every
  store.  `Room`: each array has place for the one capacity, or the counts are
  not allocated and nothing is counted.  `CountsTrue`: a chunk of cumulative
  counts holds what the symbols up to its end contain, or up to the number
  counted if the chunk is not complete; it says nothing of chunks behind that,
  whatever a reset or a growing array has left there.  `Positions`: there is a
  list of positions that go on from symbol to symbol, and the ones kept are its.
- One lemma for each operation says what it does to both: `ReservedIs` and
  `AddedIs`, `EmptiedIs`, `CopyIs`, `AppendedIs`, and `CountedCounts` of
  `EnsureCounts`, whose step is `TallyOne`: a symbol counted, and a chunk opened
  with the totals of the one before.  Loops of the code are recursive functions;
  that these exist and what they give is proved from `StepsExist` and `UpTo`.

The rest of `LongestMatchProofs` proves for every caller of the search, with any
cache and any passes:

- `SearchDrivesHash`: `SearchSpec => Spec`, the hash under a search goes through
  a behavior of `ZopfliHash`, from which
- `SearchSeesRuns` and `SearchSeesChains` follow: what a search reads is exact.
- `WalkStaysInWindow` and `SearchTypeCorrect`.  Their invariant `SearchInv` adds
  two parts to the exact chains.  `HashesOfLast`: the current hashes are those
  entered for the last position, so that the head of their bucket is where the
  walk must begin.  `CacheSound`: a cached match is no shorter than `MinMatch`,
  so that a limit taken from it leaves something to look for.  The lemma
  `GapIsDistance` shows that the gap between two slots, added up by the walk, is
  the distance of their positions as long as both are in one window.
- `MatchesAreNearest` and `PoolStaysInBounds`.  Their invariant `NearestInv` has
  four parts: the pool of the cache fits (`PoolSound`), what is cached has for
  every length the nearest distance (`CacheNearest`), so has what a walk has
  found as far as it got (`WalkNearest`), and what was returned
  (`MatchIsNearest`).  A walk comes to the candidates by rising distance and
  skips those of another hash, which cannot match three bytes; a run length read
  in place of a comparison of bytes says the same because runs are exact.
- `AnswersStayTheSame`.  With few candidates allowed a walk need not find the
  longest match, so that it is not enough that both answers are the best: the
  second walk, limited to the cached length, must go the way of the first.
  `StepOfWalk` is a walk as the input alone determines it, without the tables,
  and `LeadsTo` what some steps of it reach; `LinkIsNext` and `VisitIsStep` show
  that the tables direct every walk so, whatever pass fills them.  The invariant
  `AgreeInv` says that of the walk going on and of everything cached
  (`WalkTraced`, `CacheTraced`), and `LimitedWalkAgrees` that a walk with the
  limit L, which one with a higher limit ended with, takes the same steps until
  it has found L.  Distances then agree because both are the nearest.

`MatchCacheProofs` has the lemmas about the operators of the cache that both
need, up to `SublenToCacheCommits`: a sublen is put into the pool as a whole or
not at all, for every length it gives back the distance put in, and the runs
of other positions stay.  `NaturalsByStep` is induction without an operator
parameter, over a set; with it what a recursive *function* of numbers gives can
be proved (`CheapestIs`, `SpentIs` below).

`SqueezeProofs` proves, for all blocks, cost models, greedy runs and caches,
with four invariants of which each stands on the ones before:

- `HashIsNotMissed`: no pass without a hash comes to a position that must be
  searched.  `IInv` says of a cache that is still complete that whatever a pass
  has gone through is there in full, because a search that does not fit into the
  pool, and a repetition that is left out, both take the completeness away.  It
  needs `MinMatch` to be at least 3: shorter runs are not put into the cache but
  read as if they were.
- `PassFindsLeast`: the costs of a pass are the least there are.  `PassInv` says
  that every reached index was reached by a symbol from a reached index before
  it, at exactly the sum of the costs (`Paths`), that all indices up to the
  position are reached (`Reached`), and, if no position is left out, that no
  symbol of a position gone through could improve on anything (`AllServed`).
  Indices that no match of the model can improve are skipped by the code; they
  are served because `MinMatchCost` is a lower bound.  Behind a repetition the
  indices are reached from the `MaxMatch` positions left out and the two before.
- `StoreKeepsPromise` and `SqueezeTypes`.  `ParseInv` names the indices at which
  the symbols of the path end; `TraceBackwards` puts one in front, `FollowPath`
  comes to the next, and what a symbol on the way costs is the difference of the
  costs of its ends.
- `SmallestIsKept`, for any number of iterations and any parses: the size taken
  over for a repeated histogram is that of the last parse (`IterationsInv`).

`SqueezeAssumption` has a part the code states in comments only: a cost model
charges a match no more than its bytes may cost, and a block of such bytes
stays below the sentinel (`Covers`; squeeze.c:34-38 and 135-142).  In the code a
symbol of a match costs at most 32 bits, twice, and 18 extra bits, less than
its three bytes may, and the shift keeps 32 bits for every byte of the block
within 2^29.  That the models the iterations make keep to this is

- `SymbolCostsFit`, for every block, any parses of it, any number of iterations
  and whatever the random numbers make of the frequencies.  `StatsInv` says that
  the statistics are the costs of frequencies of which none is above twice the
  bytes of the block: blending adds half of the last ones, which are under the
  same bound, and perturbing only copies.  The logarithm, bit by bit squared out
  of the mantissa in the code, never falls as its argument grows (`LogGrows`):
  the greater mantissa stays the greater one, or a bit of its fraction is larger
  already; so no cost is negative, which in unsigned arithmetic would be an
  immense one.  It stays below the number of bits of its argument (`LogBelow`,
  where rounding the last bit up may just reach the bound), and the sum of all
  frequencies has no more than `PositionBits` bits.  `ShiftFits` is the choice of
  the shift.  That the sum fits is `BlockAssumption`: in the code a block is
  at most a master block of 1000000 bytes (deflate.c:1084-1088), and
  288 * 2 * 1000000 is below 2^32, which is also why the sum, kept in 32 bits,
  does not wrap.

`BlockProofs` proves `PointsAreInOrder`, `CostBelongsToPoint` and
`BlocksStayWhole` for all lists of symbols, all costs of blocks and any number
of probes.  The invariant says that the points are in order, that the block of a
round has no point inside, that the blocks given up are blocks, and that
the probes lie inside the block and the best so far is one of them.

`BlockProofs` also proves `PoolIsLargeEnough`, for all frequencies and limits on
the lengths: the boundary package-merge, which never gives a node back, stays
within the `maxbits * 2 * numsymbols` nodes allocated for it.  The number of
nodes in use does not say by itself how they spread over the lists, so the
invariant counts, list by list, the chains ever made (`Counts`, which exist
beside the state and not in it) and ties them to what a list shows: its chains
are the leaves it has passed and the packages.  A package is heavier than every
leaf that the list below has passed, so a list that takes one has passed at
least those leaves, and by induction over the lists each has fewer packages than
leaves (`Counted`), and no more than `2 * numsymbols - 2` chains.
`Fed` says how much a list has asked of the one below: two chains for each
package and the two looked at, unless the list below is the first and has run
out of leaves, when it stays as it is.  `EveryRunWell` carries both through the
recursion, list by list: a package leaves the list below two chains short, and
the two runs there make up for them.

`BlockProofs` proves `EstimateIsExact` as well, for every list of literals and
matches of the ranges that `AddLZ77Data` asserts, and any final flag: the bits
of a compressed block are exactly as many as its type was costed at, the one
figure on which the choice among the types and every block split rests.  The
size is computed over the histogram, some of it made even for the run-length
code, and with a tree chosen out of eight ways to write it; the bits are written
over the symbols in their order.  What makes both the same:

- `TotalIs` and `JoinedIs`: sums and concatenations taken by halves are sums and
  concatenations of prefixes.  `CountedBySymbol` counts the bits in two ways, by
  place and by symbol; it serves for the symbols of a block and again for the
  codes of its trees.
- What is costed with a code is written with a code: `AddLZ77Data` asserts a
  length above 0 for every symbol, and the extra bits follow the code
  (`SymbolCodeIs`, `DataOfLength`).
- `LengthsWithin`: no length is above the limit, for all frequencies, because no
  chain of the package-merge has more links than there are lists (`Short`), and
  none is below 0.  With it 3 bits hold a length of the code of the trees, and
  the numbers of codes fit their fields (`TreeOfLength`, `HclenIs`).
- The tree written is one of those compared (`BestIsOne`), and the counts made
  even end where the counts do, so that the lengths chosen are lengths of codes
  whatever comparison picked them (`OptimizedIs`, `TriedIs`, `DynamicIs`).
- `WriterInv` ties the costs to the block and the dynamic lengths to the one
  store they were computed for: with `expensivefixed` a second store is parsed
  for the fixed tree, and the cost compared is of the store written.

`DeflateStreamProofs` proves `OutputReadable`, `PointsAreCarriedOver`,
`ChunksAreShort` and the refinement `ImplementsBlockStream` for every input,
all points and parses, and all block types.  The invariant ties the size of the
output and the bit pointer to the reader's position, the part to the master
blocks, the squeezed symbols to a chain without gaps whose points are where
the splitter put them in bytes, and the latest block to what has been written.
That no chunk is empty unless its block is (`ChunksAreShort`) rests on a stored
block having bytes left whenever it goes on past its first chunk.
What the symbols of a part and of a block start and end with is the lemmas
`ParseChain`, `ChainJoined` and `BlockOfSymbols`.

`ProgramProofs` proves of `zopfli`, for all lists of arguments, contents of files,
reported sizes and sizes of buffers, and whatever fails:

- `ChecksumsAgree`: the checksum is the same wherever the sums are reduced, as
  long as a stretch cannot make them wrap (`SumsFit`, which 5550 and 5552 bytes
  of 255 do for the base 65521 and 32 bits; for both amounts the module
  `Containers` assumes no more than that).  `InReach` bounds both sums by the
  number of bytes since the last reduction, and below the bound nothing wraps
  (`NothingWraps`), so that the sums stay congruent to those reduced after every
  byte (`AdlerStepIs`); at the end both are reduced, and equal.
- `WhatIsSavedReadsBack`: with it, what is around a stream is what a reader
  checks (`CompressedReads`), and the stream is the whole file.  `LoadedSoFar`
  says that what has been read is the beginning of the file and that there is
  room for a byte more, also where the capacity is computed in arithmetic that
  wraps; a read that gives nothing, without an error, is then at the end.
- `StatusTells`: `Accounted` says of the files done with that each was written
  whole or is known to have failed, that the status is success as long as none
  has, and that until then the k-th file named has the k-th place on standard
  output, which has no more.  With failures there are fewer places, or some are
  not whole: `OutputsOfFiles` has an increasing map from the outputs to the files
  done with (`ComeFrom`), which a new output extends by the file worked on, since
  that one follows all that are done (`StdoutGrows`).  A file that fails
  after another of the same name took the good output away is in `trouble` under
  that name; outputs of other names are different files
  (`OutputNamesAssumption`, which holds of all strings and is assumed because
  the provers know no concatenation of strings).

The same assumption has no output that is also an argument: `zopfli a a.gz`
reads in its second round what the first has written, and `Content`, which is
constant, would not show it.

Of `zopflipng` it proves `NoFileIsLost` and `NoFileGrows` for all files, options
and encoders and whatever fails.  Files are written only from inputs that are
done with, the input worked on is as it was before the run, and the image kept
in memory was made from it.  An output is never a later input, because
several files need a prefix and a name that has the prefix is passed over.  That
the command line gives names at all is `NamesAssumption`, which TLC evaluates
for the commands of the run: the arguments are read by a fold, about which
nothing can be proved here.

`KeptChunksInPlace` proves of the encoder behind it that the chunks to be kept
are in the new file as they were in the old: in the same order, before or after
the palette (where both files have one) and the image data as before, and no
others.  The invariant (`PngInv`) adds that the file made so far has the shape
that the encoder writes (`AsWritten`: `IHDR`, perhaps `PLTE`, perhaps `tRNS`, one
`IDAT`, `IEND`), without which the property says nothing until the last step.
That step is where the work is.  `ChunksSorted` follows `getChunks` through the
old file: after any number of chunks the three groups hold, in order, the chunks
up to the last divider met and after it (`PlacedTo`).  `InsertInWritten` finds
the places where `insertChunks` cuts the new file, the first of `PLTE` and
`IDAT`, `IDAT`, and `IEND`, so that the result is the parts and the groups in
turn (`Rejoined`), and `RejoinedSides` reads off what stands before each
divider.  The files that are read are only assumed to be ones that the header
and the order of `PLTE` allow (`IsPng`), and the names to keep not to be those
of chunks that the encoder writes itself: `JobsAssumption`, which TLC evaluates.

`ScanlinesReadBack` proves that the lines of an image survive the filters: what
`preProcessScanlines` makes of a raw image, whatever the strategy and the types
that it chooses or is told, has the size that the decoder expects and becomes
the same raw image again.  `PaddedAndBack` is about the bits that fill each line
to whole bytes, `BytesOfBits` (from `BitsOfValue` and `ValueOfBits`, by induction
on the number of bits) about bits and bytes.  `LineRestored` is the induction
along a line: the decoder predicts each byte from the bytes it has restored
itself, which are the original ones so far, so that it adds modulo 256 what the
encoder had subtracted; `UnfilterOfFilter` is the one down the lines, each of
which is predicted from the line above.  Interlaced images, which are only ever
read here, are not in it.

`FilesReadBack` goes on to the whole file: of any raw image in any mode that the
encoder may write (`IsMode`), whatever chunks are put into the file, the reader
gets the size, the mode and the raw image that were written.  The mode it gets is
`AsRead`: `PLTE` brings the colors of a palette and `tRNS` their alpha values, up
to the last that is not 255 (`PaletteMetaRead`), or the transparent color
(`KeyMetaRead`).  What a list of chunks makes of a state is stated as a triple,
`Reads(A, chunks, B)`: from a state in `A` the chunks lead to one in `B`.  Triples
are chained (`ReadsBoth`), so that the reading of a file is the chain of its
parts and of the groups of kept chunks between them (`RejoinedReads`).  A kept
chunk changes nothing (`KeptIsRead`), but for a `bKGD` of a palette image whose
index the palette read so far does not have.  That stops the reader with error
103, and the theorem says that there is no other error and that it needs such a
background (`~ BackgroundFits`): as `background` shows, the palette may be cut
while the chunk is copied as it is.

The assumptions on constants are the `ASSUME`s of the modules; TLC evaluates
each of them in a run.

Only model-checked so far: of the trees and blocks whether the code lengths are
the best ones (`LengthsAreBest`) and what is read back from the bits
(`ReadsBack`); of an image whether its pixels are kept (`PixelsKept`).
Only model-checkable here: liveness under fairness (`SearchEnds`,
`EventuallyParsed`, `SplittingEnds`, `StreamEnds`), and what `RECURSIVE`
operators compute, as in `Inflate`.

## 5. Not modelled, and the plan

| next | what |
|---|---|
| proofs | that the code lengths are complete and the best; reading back a block, with what `Inflate` computes by `RECURSIVE` operators written as recursive functions first, as it is in `Katajainen`, `BlockCoding` and the PNG modules; and that the pixels are kept |

Not modelled:

- of lodepng, what zopflipng does not reach or does not depend on: text, color
  profile and time chunks, checksums of chunks, its own compressor, which only
  rates filters, failures of allocation, interlaced writing;
- of the PNG encoder, the effect of the number of iterations, and the test that
  the retry without a palette is for files below 4096 bytes only: it may or may
  not happen;
- `ZopfliBlockSplitSimple`, which nothing calls, and `AutoIterations`, a pure
  function whose value is left open;
- the Go bindings and the C interface of zopflipng (stateless wrappers), option
  defaults, messages, and the printing of split points.

A block's cost is left open in `BlockSplitter` and `DeflateStream` on purpose:
both must be right for any cost.  For the same reason `ZopfliPNG` leaves the
encoder open.
