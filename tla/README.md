# TLA+ specifications of the juruoyun web library

The repository is a C library in two layers: `jbl` (allocator, reference
counting, lists, hash tables, strings, streams, files, encodings) and `jwl`
(sockets, polling, HTTP, websockets, DNS) on top of it.  There are no tests; the
programs under `examples/` show how the operations are called.  The library is
built single-threaded (`JBL_PTHREAD_ENABLE` is 0 and every lock macro is empty),
so what is hard in it is not parallelism but long sequences of legal calls over
shared, hand-managed state: memory that is given out, taken back, reclaimed and
given out again; objects shared by count and copied on write; buffers that
another object points into; and one operation interrupted half-way by another
one that it calls.

## 1. The system

| Component (files) | State it keeps | Operations | What makes it correct |
|---|---|---|---|
| bitset (`jbl_bitset`) | an array of words | `set`, `reset`, `find0`, `find1`, `highbit` | each touches and finds exactly the bits asked for |
| fast allocator (`jbl_malloc_fast`) | main and cached list of 2 MB chunks, per chunk a bitset, a map and a counter; 30 slot lists; list of huge blocks; byte counts | `jbl_malloc`, `jbl_realloc`, `jbl_free`, `__jbl_free_smalls`, `__jbl_free_chunks`, `__jbl_free_cached_chunks`, start, stop | blocks never overlap, nothing in use is given back, nothing is free twice, counts are exact |
| reference counting (`jbl_gc`) | a count and a reference flag in each object | `copy`, `free`, `jbl_refer`, `jbl_derefer`, `jbl_refer_pull` | an object lives exactly as long as somebody holds it |
| values (`jbl_var`, `jbl_var_data`) | operator table of each object | dispatch of `free`, `copy`, compare, print | as reference counting |
| linked list (`jbl_ll`) | nodes, length, count | insert, delete, merge, swap, compare | a holder of a shared list never sees another's change |
| hash table (`jbl_ht`) | nodes in insertion order, chains, length, count | insert, unset, get, rehash, merge | it is a map; chains hold each live node once |
| string (`jbl_string`) | bytes, length, capacity, memoised hash, count; the cache table | about forty edits, hash, cache, stream adaptor | copy on write; the memo is the hash of the contents |
| stream (`jbl_stream`) | buffer, next stream, operator, stop flag | push, do, connect, disconnect | bytes leave in order, none lost or doubled |
| lifecycle (`jbl_ying`, `jbl_exception`, `jwl_ying`) | exit functions, their count, components that are up | start, stop, exit, exception, signal | each component stops once, in the right order |
| socket, poll (`jwl_socket`, `jwl_socket_poll`) | handle, mode, peer; the poll's list and pending events | connect, accept, send, receive, close; add, remove, wait, get | no operation on a closed handle or a removed entry |
| websocket (`jwl_websocket`) | per stream: frame state, mask, remaining length | encode, decode | decode after encode is the identity under every split |
| HTTP (`jwl_http`, `.l`) | head; per stream: scanner's condition, chunk and body counts, buffer | encode and decode heads and bodies | what was sent is read, however it is cut (not everywhere: item 15 of section 3) |
| JSON (`jbl_json`, `.l`) | per stream: stack of values begun, scanner's condition, buffer | encode, decode | decode after encode is the identity under every split |
| time, numbers (`jbl_time`, parts of `jbl_string`, `jbl_stream`) | none | decode, print by a format, read | the calendar; read after print is the identity |
| base64, AES modes (`jbl_base64`, `jbl_aes`) | stream buffers; a key; the vector of the next block | encode, decode | as JSON |
| character conversion (`jbl_string_cc`) | two sorted tables; stream buffers | UTF-8 to GB 2312 and back | as JSON, for characters of the table |
| log, file, file_ct, cmd, rand, dns, ip2region | little or none | thin wrappers, tables | - |
| md5, sha1, the AES block cipher, endian | none | pure functions on bytes | standard functions |
| server (`examples/webserver.c`) | the poll, batch of events, sockets | accept, serve, upgrade, broadcast, close | no event lost, none of a socket that is gone |

Interactions.  Every object is allocated by the allocator, which itself uses the
bitset for its pages and the stream for the statistics that `jbl_malloc_stop`
prints.  Lists, tables, strings and streams share one scheme of counting
(`jbl_gc`): `copy` adds one, `free` takes one away and releases at zero, and a
change of an object with more than one holder first makes a private copy
(`*_extend`).  The string cache is a hash table that owns the strings it caches;
the stream of a string points into that string's buffer.  Streams form chains:
an operator pushes into the next stream and calls its operator in turn; HTTP and
websocket codecs are such operators, and a socket's operator is the end of the
chain.

The hard behaviours, each with its line and the properties on it, are the list
"hazards" in `PROJECT.json`.

## 2. What is modelled

| Module | Stands for | State |
|---|---|---|
| `Bitset` | `jbl_bitset.c` word by word: masks by shifts, highest bit by halving | `bitset`; auxiliary `bits` |
| `BitRange` | the same operations on sets of positions | none (operators) |
| `PageHeap` | chunks, page runs and their map: `__jbl_malloc_chunk`, `__jbl_free_chunks`, `__jbl_free_cached_chunks`, `__jbl_malloc_page`, `__jbl_free_page`, the in-place branch of `jbl_realloc` | `main`, `cached`, `fmap`, `map`, `free_pages`; auxiliary `runs` |
| `MallocFast` | small, large and huge blocks and every entry point | `slot`, `huge_list`, `heap_size`, `applied_size`, and where a call is (`pc`); auxiliary `asked` |
| `Heap` | what a caller may rely on | `blocks` |
| `LinkedList` | the nodes of one list: `jbl_ll.c` | `head`, `tail`, `len`, `pre`, `nxt`, `v`; the walk of a free `i`, `j` |
| `ListView` | the sequence a list stands for | `list` |
| `SharedLists` | `jbl_gc.c`, sharing, copying on write and nesting of lists (`jbl_ll.c`) | `heap` (counted objects), `hold` (variables), `todo` (frees under way); `fault` |
| `Holders` | what variables that hold lists may rely on | `cell`, `val` |
| `HashTable` | `jbl_ht.c`: slots, chains, holes, growth, another holder | `size`, `len`, `nxt`, `slot`, `head`, `sys`; `own`, `frozen` for the other holder; `fault` |
| `Map` | what a table promises | `map` |
| `Strings` | objects, literals, hash and cache of `jbl_string.c` | `obj`, `var`, `cache`; `fault` |
| `Texts` | what variables that hold strings may rely on | `text` |
| `WebSocket` | `jwl_websocket.c`, the socket's and the string's streams, the network | `tx`, `rx`, `wire`, `link`, `sent`, `got`, `todo` |
| `Messages` | what a websocket promises | `sent`, `got` |
| `Server` | `examples/webserver.c`, `jwl_socket_poll.c`, accept and close of `jwl_socket.c`, with clients and the kernel | `peer`, `backlog`, `fds`, `reg`, `ready`, `node`, `poll`, `batch`, `at`; `stale` |
| `Numbers` | printing and reading of whole numbers, and of decimal fractions for doubles | none (operators) |
| `Json`, `Base64`, `Http` | encoders, and streams as functions on records | none (operators) |
| `Aes` | filling and chaining of `jbl_aes.c`, strings and streams | none (operators) |
| `Charset` | `jbl_string_cc.c`, strings and streams, rows of its tables | none (operators) |
| `Time`, `Dates` | `jbl_time_decode`; printing by a format | none (operators) |
| `Codecs` | callers that push values, bytes and messages through those streams, in pieces | `job`, `left`, `json`, `coder`, `sender`, `reader`, `ended` |
| `Powers` | the rounding up of sizes in `jbl_string.c` and `jbl_ht.c` | none (operators) |
| `MCHashTable`, `MCStrings`, `MCCodecs` | keys that collide, literals, inputs for TLC | - |
| `MCMallocFast` | table of bins and symmetry for TLC | - |
| `PageHeapProofs` | proofs about `PageHeap` | - |
| `MallocFastProofs` | proofs about `MallocFast`: its blocks, its use of the page layer, what callers see | - |
| `ServerProofs`, `StringsProofs`, `LinkedListProofs`, `HashTableProofs`, `SharedListsProofs` | proofs about `Server`, `Strings`, `LinkedList`, `HashTable`, `SharedLists` | - |
| `CommonProofs` | lemmas several proofs use: sums over finite sets, recursion by rank, least numbers, `PowerUp` | - |

`MallocFast` extends `PageHeap`, which extends `BitRange`.  Two abstract
specifications stand above `MallocFast`: `Heap` (refinement mapping: the blocks
held, with the length `jbl_malloc_size` reports) and `PageSpec` of `PageHeap`
itself (identity on the page variables).  `PageSpec` is the contract between the
two layers of the allocator: only whole runs that were handed out are given
back, and only large runs grow.

`LinkedList` stands alone: the nodes of one `jbl_ll` that has a single holder.
Its abstract specification is `ListView`, a sequence of payloads; the refinement
mapping reads the payloads along `nxt`.  A call is one action, except
`jbl_ll_free`, which is one action per turn of its loop (`BeginFree`,
`FreeStep`) because the loop reads the next node before it deletes this one.
`jbl_ll_delete` is modelled with its free of the node.  A list freed is the new,
empty list again.

`SharedLists` takes a list for the sequence of its payloads, which `LinkedList`
justifies, and adds what `LinkedList` lacks: counts, references, several holders
and lists in lists.  Above it stands `Holders`; the refinement mapping gives each
variable the reference at the end of its chain, or itself, as its cell, and
writes lists out with the lists in them.  `HashTable` refines `Map` (what a look
along the chains finds), `Strings` refines `Texts` (each variable's characters),
`WebSocket` refines `Messages` (its own `sent` and `got`).

`Codecs` composes `Json` and `Http` (over `Numbers`), `Base64`, `Dates` (over
`Time` and `Numbers`), and, as the instances `A` and `C`, `Aes` and `Charset`: it
chooses a job, pushes its text piece by piece and compares what came out.  The
job's chain of streams is `json`, `coder` (base64, AES or characters) or
`sender` and `reader` (HTTP).  `Server` sees a request as one unit in one or two
parts.  `WebSocket` shows that frames may be cut anywhere, `Codecs` where heads,
chunk heads and JSON may not.

`WebSocket`, `Json` and `Http` have RECURSIVE operators, and `Bitset` and `Aes` use
bitwise ones; they are for TLC only.  The other modules write recursion as
recursive functions and folds, and can be proved about.

### From the code to the model

* **Calls are actions.**  A call of `jbl_malloc` or `jbl_free` is one action;
  `jbl_realloc` of a block that must move is two (`ReallocMove`, then
  `ReallocFreeOld`), since it uses the page layer twice.  `__jbl_free_smalls` is
  one action per turn of its loop: count a block (`ReclaimCount`), give a run
  back and cut the list behind the walk (`ReclaimRun`), finish a bin and clear
  its counts (`ReclaimNextBin`).  `pc` says where the call is; no other call
  begins meanwhile, as there is one thread.
* **Chunk lists are sets.**  Their order decides only which of several equally
  short stretches is taken, and which cached chunk is used first.  The model
  takes any of them.
* **Marks are records.**  The bit fields of `chunk->map[i]` are `kind`, `val`,
  `off` and `cnt`.  The code leaves the entries of a freed run as they are; the
  model clears them, as nothing reads the entry of a free page.
* **The bitset is a set of positions,** with the exact effect of a request of
  zero bits (`Touched`).  Run `bitset` justifies the step from words to sets.
* **`free_pages` is the 16-bit counter of the code**, drift included: it is
  raised by the raw low bits of a mark and not lowered when a run grows.
* **A block is its address**: area and offset.  Offsets are in scaled bytes, and
  `jbl_free` decides by alignment just as the code does.
* **Bits of `jbl_realloc`'s size** that are looked at, `0x1FF`, are `RoundMask`,
  which does not equal `PageBytes`, as in the code.
* **A huge block occupies one area.**  Huge sizes of the runs are one chunk long.
* **mmap** answers any area not in use (external).  When it fails the library
  ends the process, so there is no step.
* **Left out:** the peaks and counts for statistics, and what `jbl_malloc_stop`
  prints with them; logging; the copy of the contents in `jbl_realloc`.
* **Start** is the initial state.  A second start after a stop is not modelled:
  `jbl_malloc_start` (line 144) does not reset `slot`, and the programs start
  the library once.
* **Breaches are recorded, not guarded.**  Some calls that nothing forbids break what
  the others rely on: `jbl_derefer` of a reference that others hold, a list put or
  merged into itself (`SharedLists`); clearing a long text that is shared or a
  literal, adding a literal to an empty text that others hold, deleting from behind
  the end (`Strings`); unsetting a key of a sys table or giving it a new value
  (`HashTable`); a send of a broadcast that fails for a socket with an event pending
  (`Server`).  Each is a step as the code makes it.  A history variable (`fault`,
  `stale`) says that it happened; the properties that it breaks say so in their
  condition; for each but the list put into itself, of which no comment speaks, the
  module also states what a comment promises, as a property that does not hold
  (listed in section 3); and the theorems hold of every step but those.  In `SharedLists` and `Strings` the model
  ends behind such a call, in `HashTable` behind a write beyond the last slot, in
  `Server` when the loop takes an event of a node that was freed, for the code then
  reads or writes memory that is another's.
* **`jbl_ll_free` with its cascade** is one action per call (`FreeStep`); `todo` is
  the C stack of calls.  Every other list operation is one action.
* **A table is a record**, so that a call is composed of the functions it makes:
  `ExtendTo`, then `Put`, `Link` or `Taken`; the loops of the code are recursive
  functions of the number of turns (`Copied`, `Rehashed`, `Puts`).  The heads that the code keeps at
  negative indexes are `head`; "no slot" is a number behind every fill mark.
  Other holders of the table matter only through the count, so one is enough:
  `own` says whether there is one and `frozen` what it saw.
* **A string's memory** is its length, its capacity and whether the text is a
  literal; the code tells literals by `size<len`, and so does `Const`.  The
  cache's table is a set of entries, which `HashTable` justifies.
* **Streams** are buffers with an operator.  A call that fills a buffer runs the
  operator, which runs the next one, within one action, as in the code.  Between
  actions the network delivers any prefix of what is under way, or breaks.
  `Http` and `Json` keep the generated scanner's condition and position: it is
  resumed where the text broke off, as with `yy.state` in the code.
* **Characters** are units: a word that the HTTP scanner knows is two units, so
  that a text can break off inside it.  Texts are cut anywhere.  Where the code loses
  its place the readers count it (`torn` of `Http` and `Json`, history), and a
  message is followed until that happened `TornMost` + 1 times (a bound).  `stuck`
  marks a push into the JSON stream that would turn for ever, `over` a byte written
  behind the buffer of the stream behind the conversion to UTF-8.
* **The socket's buffer** of the HTTP sender (`held`) is what cuts a body into chunks:
  each is as long as the room that is left.  How much of a head is still in it when the
  body comes is left open (`Kepts`), as the head is pushed in many small pieces.
  The frame of a chunk is two ends of line and up to eight digits; a buffer of less
  than `SocketLength` 34 could leave no room (65536 in the code).
* **Numbers** have `Width` bits, 64 in the code, and wrap.  A double is a whole
  number of units of the last digit printed (`FractionDigits`, 5 in the code), so
  sign, carry, point and exponent are the code's and its rounding is left out.
* **The least power of two** that a length fits in, which the code computes from
  its highest bit, is `PowerUp`: the least number all of whose divisors but 1 are even.
* **Sockets closed together** (`Closes`) are those whose sends fail in one
  broadcast, any of the open websockets; one alone is `Close`.  The kernel has a descriptor for a connection
  to accept, as there are as many as clients (a bound), and memory for a node.
* **A block cipher** is a pair of operators (`Encode16`, `Decode16`) on blocks of
  `Block` bytes, 16 in the code; only its being inverse is used.  Bytes are below
  `Radix`.  The key is the same throughout, as the code shares it by a count.
* **The character tables** are sampled; the search, its 17 halvings and the row of
  zeros at the end are the code's.
* **The kernel** gives out the lowest free descriptor, forgets the registration of
  a closed one, and reports an edge once, if there is still something to read.
  The allocator gives out the lowest free node, so that addresses come back.  A
  handler blocks in `recv` until the request is whole or the client is gone.
* `__jbl_free_smalls`, `__jbl_free_chunks` and `__jbl_free_cached_chunks` have no
  caller in the repository.  They are modelled as calls the program may make
  between any two others.

## 3. Runs

| Run | Instance | Checks |
|---|---|---|
| `bitset` | words of 4 bits, 3 of them and one behind; every reachable content | `MasksAgree`, `FindsFirst`, `HighbitRight` |
| `allocator` | 2 areas, chunks of 4 pages, words of 2 bits, 2 bins, small, large (one and three pages) and huge sizes, 2 blocks held, symmetry of areas | `TypeOK`, `RunsBacked`, `RunsDisjoint`, `ChunksSeparate`, `Accounting`, `ImplementsHeap` |
| `reclaim` | 2 areas, chunks of 3 pages, both bins and large blocks, 4 blocks held, fairness | `SmallBlocksBacked`, `NoBlockTwice`, `ImplementsPages`, `CallsEnd` |
| `linked_list` | 4 nodes, 2 payloads, fairness | `WellLinked`, `ImplementsList`, `InPlace`, `FreeEmpties` |
| `shared_lists` | 4 objects, 1 atom, 2 variables, lists of up to 2, fairness | `CountsExact`, `NothingLost`, `ImplementsHolders`, `FreeEnds` |
| `hash_table` | 4 keys (two of one class, a number equal to a hash), 2 values, 2 to 8 slots, 2 to 4 in a table marked by `jbl_ht_set_sys`, merges of 1 | `ChainsExact`, `FrozenKept`, `ImplementsMap` |
| `strings` | 3 objects, 2 variables, 2 literals, lengths up to 3 around `MinLength` 1, `CacheMax` 1, `Page` 3, symmetry of variables | `OwnersCounted`, `HashHonest`, `RoomEnough`, `CacheExact`, `ImplementsTexts` |
| `websocket` | 2 messages of 2, 5 or 17 bytes, masked or not; buffers of 15, 8 and 3, 2 bytes kept back, lengths in three forms | `BuffersHold`, `Delivered`, `ImplementsMessages` |
| `server` | 3 clients, one of them silent, 3 descriptors, 3 nodes, fairness | `OwnHandle`, `PendingLive`, `Answered` |
| `codecs` | numbers of 12 bits, fractions of 2 digits, buffers of 8 (JSON), 4 and 9 (base64), 7 and 9 (AES, blocks of 3 hexadecimal digits), 8, 4 and 16 (characters), 18 and 34 (HTTP, the socket), pieces of 1, 2, 3, 7 and all; 132 JSON values, texts of other programs (escapes, white space, numbers with signs, fractions, exponents and in hexadecimal), 8 wrong texts, every text of up to four of nine characters and some longer, 8 byte strings, 8 secrets, 13 texts in UTF-8, 9 HTTP messages, all numbers, 1754 days | `JsonRight`, `BytesRight`, `NumbersRight`, `CalendarRight`, `HttpRight` |

Two runs each find one property violated; the comment or header line it quotes is
with the finding in `PROJECT.json`.

| Run | Violated | By |
|---|---|---|
| `realloc_size` | `BigEnough` | large sizes of a page and of a page and a half |
| `realloc_leak` | `PagesOwned` | a block that fills a bitset word behind the header |

More of what comments and headers promise is stated in the modules and does not hold.
These properties are no part of a run; checked with the constants of the run named, TLC
finds each of them violated.

| Property | Constants of | Violated by |
|---|---|---|
| `SmallBlocksKept` | `reclaim` | runs of two chunks that begin at the same page |
| `HeldInUse` | `shared_lists` | `jbl_derefer` through one of two variables that hold a reference |
| `MergeEnds` | `shared_lists` | a list merged into itself while nobody else holds it |
| `MergeOverrides` | `hash_table` | a key that is in a sys table and in the table merged in |
| `ForeachMeetsMap` | `hash_table` | a key unset in a sys table |
| `RoomMade` | `hash_table` | keys unset in a sys table, then insertions |
| `CopiesFit` | `strings` | clearing a shared or literal text longer than `MinLength` |
| `CopiesApart` | `strings` | a literal added to one of two copies without text |
| `DeleteShortens` | `strings` | a start behind the end of the text |
| `ServedLive` | `server` | a broadcast whose send fails for a socket with an event in the batch, and an accept in between |
| `ForeignRead` | `codecs` | a blank before the value, cut off from it |
| `PushReturns` | `codecs` | a character no rule knows, and more than the buffer takes |
| `TextBack` | `codecs` | a text that ends in a character of several bytes |
| `SinkHolds` | `codecs` | a run of ASCII longer than the next buffer |
| `HeadsRead` | `codecs` | a head cut inside a word |
| `ChunksRead` | `codecs` | a chunk head of which only three units came |

* `MasksAgree`: the masks write exactly the positions of `BitRange`, also for a
  range of zero bits.  `FindsFirst`: `find0` and `find1` answer the first bit at
  or after `i`, or the length, whatever the word behind the array holds.
  `HighbitRight`: halving finds the highest bit, of numbers up to 12 bits.
* `RunsBacked`, `RunsDisjoint`, `ChunksSeparate`: pages handed out are marked,
  belong to one run, keep their length in the map, and never include a chunk's
  header; no chunk is in use and cached.
* `Accounting`: `size` and `applied_size` are the sums they claim to be, across
  growth in place, moves, huge blocks with their headers, and reclaiming.
* `ImplementsHeap`: seen by callers, blocks never overlap and change only by a
  call about them.
* `SmallBlocksBacked`, `NoBlockTwice`: free and held small blocks, and the
  headers of huge blocks, are blocks of runs still handed out; none is listed
  twice, or listed while held.
* `ImplementsPages`: the allocator keeps the contract of its page layer.
* `CallsEnd`: a reclaim, a move and a stop come to an end; this run has no huge
  sizes, so the turns of `jbl_malloc_stop` over huge blocks are in `allocator` only,
  without liveness.
* `WellLinked`: both directions of the links meet every node once, from end to
  end.  `ImplementsList`, `InPlace`: each call does to the sequence of payloads
  what it says, at the node it was given.  `FreeEmpties`: a list being freed is
  freed to its last node.
* `CountsExact`, `NothingLost`: a count is the number of owners, counted over
  variables, payloads, references and frees under way; what is in use can be
  reached.  `ImplementsHolders`: copying on write is invisible, and a change
  through one variable reaches those that refer to the same cell and no others.
  All three until one of the breaches of section 2, which `ImplementsHolders` excepts
  as a step.
  `FreeEnds`: a free ends, with everything it sets off.
* `ChainsExact`: each chain meets the entries of its class, newest first, after
  insertion, deletion, growth and the closing of holes in place; `len` and the
  fill mark are right, and no write is behind the last slot.  `FrozenKept`: the table
  of another holder does not change.  `ImplementsMap`: looked up through the chains it
  is a map.  In a sys table the first and the last hold until a key it has is unset or
  given a new value.
* `OwnersCounted`: as `CountsExact`, with the cache as a holder.  `HashHonest`: a
  kept hash is that of the present text.  `RoomEnough`: adding, changing letters and
  deleting never write behind the memory of a text, for shared and literal texts
  either.  `CacheExact`: one entry per text, under its hash, and never changed.
  `ImplementsTexts`: no variable sees what another one does.  The first two hold of
  every state; the others except for the breaches, as each of them says.
* `BuffersHold`: no operator writes behind a buffer, its own or the next one's.
  `ImplementsMessages`: messages arrive whole and in order.  `Delivered`: none is
  stuck where everyone waits for more, unless the connection broke.
* `OwnHandle`: descriptors and open sockets stay paired, and each is registered
  under its own node, while both are given out again.  `PendingLive`: a node with
  an event in the batch is freed only if it is a websocket that a failed broadcast
  has closed; accepts, other closes and addresses given out again free none.
  `Answered`: a client that asks is answered or its connection ends, unless the loop
  takes such an event.
* `JsonRight`: what was written is read back under every split into those pieces.  JSON
  as others write it is read, too, unless it begins with white space or has a `0x` and
  is cut there; wrong JSON of eight kinds is refused; and any text at all, refused,
  unfinished or stuck, gives under every split what it gives in one piece.
  `BytesRight`: the same for base64, both modes of AES and the conversion of
  characters, where string functions and streams are compared, too; of the texts
  those must come back that end in six ASCII bytes and whose ASCII fits.  `HttpRight`: heads and
  bodies are read as they were sent, under every split that does not fall inside a
  word of the head or the head of a chunk, and for every way the room in the
  socket's buffer cuts the body.  `NumbersRight`:
  printers and readers agree, at the least and the greatest number too.
  `CalendarRight`: the date is that of a closed formula for the Gregorian calendar,
  and the numbers printed by a format are its fields.

**Bounds.**  Two areas give a full chunk and a new one, a cached one and a reused
one, and a huge block beside a chunk.  Three or four pages with words of two bits
give runs that end and start at word boundaries, stretches that are too short,
and a best fit that is not the first.  One bin has blocks that fill one page; the
other a run of two pages whose middle block crosses the page boundary, as bins
16, 17 and others do.  Held blocks (`MaxLive`) are bounded at 2 where all sizes
occur and at 4 where small blocks must fill several runs of a bin.  Nothing else
is bounded: the counters wrap as in the code (`CounterMod`).  During a move a
caller has one block more than `MaxLive`.  Four nodes give a list's ends, an
inner node, and two inner neighbours; the payloads only need to differ.

Four objects give a list shared by two variables and a list in it, a chain of two
references, and the copy made on a change.  Tables of two to eight slots grow
twice, keep holes and close them; the colliding keys stay in one chain up to four
slots and are parted at eight.  Three string objects are one for each variable and one
in the cache, or the copy made on a change.  The websocket's buffers are shorter
than its messages, so that one message takes several frames, a head is cut
between buffers, and the mask goes on at each of its four places; the lengths
take the one-byte, two-byte and eight-byte forms.  Three clients give a socket
served, one closed in the same batch and one being accepted, which takes the
closed one's descriptor and node.  The JSON buffer of 8 is little longer than the
scanner's look ahead, so that it refills inside every value; the
values reach three levels of nesting.  Secrets of 0 to 23 digits end before, at and
behind the end of a block, and some end like a filling.  The texts mix
characters of one, two and three bytes, so that pieces cut each of them; some end in
a character and some have more ASCII in a row than the buffer behind takes.  The short
texts of JSON are all there are of nine characters, brackets, signs, a digit, a quote
and a letter no rule knows; four of them make every unfinished and every wrong
beginning.  Chunks of up to 21 bytes have sizes of one and of two digits, another
program's of three; the socket's buffer is filled by a head to a half, to a quarter or
not at all, so that a body is sent in one part or in several; a whole head never
fits in the HTTP buffer.  Longest cached texts (`CacheMax`) of 1 put one of the two
literals into the cache and not the other.

**Deadlock** is not checked in the allocator's runs, because after
`jbl_malloc_stop` there is nothing left to do; in `websocket` and `codecs`, where
the work comes to an end; in `server`, which may wait for clients for ever; and
in `shared_lists` and `strings`, where memory for a further step may be used up
(a bound).

**Fairness.**  `FairSpec` has weak fairness on the continuation of a call that
has begun (`ReallocFreeOld`, `ReclaimStep`, `StopHuge`, `StopChunks`): one thread
runs the library, and inside a call it does nothing else.  The same holds for
`FreeStep` of `LinkedList` and of `SharedLists`, and for the steps of the server's
thread (`Serve`).  No fairness is assumed for the callers.  `Answered` needs one
assumption on clients: one that has sent a part of a request sends the rest or
hangs up (`AskRest`); the sockets block, so without it one client stops the
server for all (a hazard, not a property).

### Disagreements between code and comments

1. `jbl_realloc` (line 257) rounds its size with the mask `0x1FF`, and
   `__jbl_malloc_large` (line 508) with `0xFFF`; a large block that is
   reallocated to a multiple of 512 bytes may come back up to 3584 bytes too
   short (run `realloc_size`).
2. `jbl_bitset_set` of zero bits at the start of a word sets two whole words,
   although its header comment promises `cnt` bits; `jbl_realloc` to the same
   number of pages makes that call, and pages are lost (run `realloc_leak`).
3. The comments of `find0` and `find1` describe functions the code does not have.
4. `free_pages` drifts (lines 263-267 and 500).  It costs searches, not safety:
   the properties above hold with the drift in the model.
5. `__jbl_free_smalls` (line 593) compares page indexes without their chunks, so
   blocks of another chunk may leave the slot list and are lost.
   `SmallBlocksKept` states the contrary; it fails with the constants of
   `Reclaim.cfg`, while the safety properties of that run hold.

6. *Lists, tables.*  `jbl_ht_merge_int` (435) frees a slot without taking it out of
   its chain.  Overwriting a value (214) loses the caller's reference.
   `jbl_ht_space_ship` (380) calls tables of one length equal.  The JSON of a table
   (472) may end with a comma.  Freeing a reference to a number
   (`jbl_var_data.c` 22) frees a wrong address.  Tables marked by `jbl_ht_set_sys`: the
   new value of a key is written behind the fill mark and lost (210,
   `MergeOverrides`); an unset slot stays in use (269, `ForeachMeetsMap`); after that an
   insertion may write behind the last slot (126, `RoomMade`).  `jbl_derefer` frees references
   that others hold (`jbl_gc.c` 46, `HeldInUse`).  A list merged into itself grows
   for ever (`jbl_ll.c` 156, `MergeEnds`).
7. *Strings* (`jbl_string.c`).  `jbl_string_if_equal` (422) compares a hash with one
   not computed.  `jbl_string_clear` (146) of a shared or literal text copies it
   into the least buffer (`CopiesFit`).  An empty literal is not known as one
   (117).  Adding a literal to an empty shared string changes the other holder's, or
   the cache's (192, `CopiesApart`).  `jbl_string_delete` (669) does not clip its start
   (`DeleteShortens`).  Bytes pushed into the stream
   of a string that is shared meanwhile are lost (591).  Hexadecimal numbers of
   2^60 and more are shifted by 64 (268).  Zero is padded by strings and not by
   streams (`jbl_stream.c` 160); fractions lose a carry (173).  Between -1 and 0 the sign is
   lost (247); an exponent is read without its sign (655).
8. *JSON* (`jbl_json.l`).  `\u` takes any number of digits, the encoder writes four
   (120).  A character without a rule is neither taken nor refused, and a full stream
   then turns for ever (104, `PushReturns`); so does `0x` cut after its zero (97).
   White space before a value, cut off from it, ends the text, and so does a number at
   the top (261, `ForeignRead`).  The `e` behind an integer drops its sign (136).
9. *Time* (`jbl_time.c`).  Times up to 0 are decoded wrongly (110), and so are `dom`
   in December and `isleap` on the 1st of January; suffixes of days (425);
   milliseconds are filled to two digits (455).
10. *Base64, AES, files.*  The base64 decoder relies on whole groups (128), its tests
    for wrong characters never hold; a CBC decoder called with less than a block
    loses its vector (`jbl_aes.c` 270); a file stream ends at the byte 255
    (`jbl_stream.c` 241).
11. *Characters* (`jbl_string_cc.c`).  The stream to GB 2312 leaves the last six bytes
    as they are (230, `TextBack`); the stream to UTF-8 writes ASCII without asking
    for room (253, `SinkHolds`); a string that moves while ASCII is added is lost (194); the length looked
    at is the whole string's, and codes are cut to 16 bits (167).  Two codes stand
    twice in the table, and the euro sign maps to a lone byte
    (`jbl_string_cc_table.h` 3507, 33).
12. *Websocket* (`jwl_websocket.c`).  Fewer than 16 bytes pushed wrap a count, and
    empty messages are not sent (107, 105); control frames leave their payload in
    the buffer (174); an empty masked frame takes the next one's bytes (183).
13. *Sockets.*  A forced operation with nothing to send receives, and blocks
    (`jwl_socket.c` 355); receiving answers 0 always (227); after a failed connect
    the socket looks open (114).
14. *Server* (`examples/webserver.c`).  Of two requests in one piece the second
    waits (225); of two connections in one event the second waits (252); a socket
    closed by a broadcast while its event is in the batch leaves a dangling node
    (253, `ServedLive`), which the loop then reads; a websocket
    that is gone, or was closed before its event, broadcasts once more (39).
15. *HTTP* (`jwl_http.c`).  Heads cut inside a known word are misread (865,
    `HeadsRead`); chunk heads that come in pieces raise an exception (3546,
    `ChunksRead`); bytes behind
    Content-Length are taken for the body (3571); `ETag` is not read back (296);
    extending a head through a reference copies the reference's fields (128).

## 4. Theorems

Seven modules prove theorems, and `CommonProofs` lemmas they share, for every value
of the constants that the named assumptions of the modules allow; TLC evaluates those on every run.  The list is
"theorems" in `PROJECT.json`.

| Module | Theorems | Properties of the runs they state |
|---|---|---|
| `PageHeapProofs` | `PageTypeCorrect`, `RunsStayBacked`, `RunsStayDisjoint`, `ChunksStaySeparate` | `RunsBacked`, `RunsDisjoint`, `ChunksSeparate` |
| `MallocFastProofs` | `HeapTypeCorrect`, `SmallBlocksStayBacked`, `NoBlockEverTwice`, `PagesImplemented`, `PagesStaySound`, `CallersServed`, `BlocksStayApart`, `BytesStayCounted`, `TypesStayRight` | `SmallBlocksBacked`, `NoBlockTwice`, `ImplementsPages`, `ImplementsHeap`, `Accounting`, `TypeOK`, and the three above in the whole allocator |
| `ServerProofs` | `ServerStaysOrdered`, `DescriptorsHaveOneOwner`, `PendingEventsLive` | `OwnHandle`, `PendingLive` |
| `StringsProofs` | `StringsStaySound`, `CountsAreOwners`, `HashesStayRight`, `TextsHaveRoom`, `CacheStaysExact`, `TextsAreOwn` | `OwnersCounted`, `HashHonest`, `RoomEnough`, `CacheExact`, `ImplementsTexts` |
| `LinkedListProofs` | `NodesStayFollowed`, `ListStaysLinked`, `CallsHitTheirNode`, `ListImplemented` | `WellLinked`, `InPlace`, `ImplementsList` |
| `HashTableProofs` | `TableStaysGood`, `ChainsStayExact`, `SharedTableKept`, `RoomStaysMade`, `TableImplemented` | `ChainsExact`, `FrozenKept`, `ImplementsMap` |
| `SharedListsProofs` | `SharedListsStayGood`, `CountsStayExact`, `NothingStaysLost`, `ListsImplementHolders` | `CountsExact`, `NothingLost`, `ImplementsHolders` |

None of these properties is inductive.  In each module one invariant is, and every
action has a lemma that it keeps it.

Where section 2 lists a breach, no call is excluded from the theorems: each call either
keeps the invariant or is shown to record a breach in the same step, and the invariant
is claimed until then.  What is proved is therefore also that nothing but the breaches
listed breaks these properties.

**Page layer.**  Assumed: a word has at least one bit; a chunk has at least two
pages; a bin's run fits in a chunk behind its header; the counter's modulus is
positive.  No relation between chunks and words is assumed.  That a run stays
disjoint from the others needs its pages to be marked (`RunsBacked`), that its
pages stay marked when another is freed needs disjointness and the length kept
in the map, and that the header is never given out needs its bit.  The
conjunction `PageInv` is inductive.  Bottom up: division by the word width keeps
order (`WordOrder`), so a request of at least one bit touches exactly its range
(`TouchedExact`); what `Places` offers is free and inside the chunk
(`PlaceInMain`, `PlaceInNewChunk`); what a mark says (`MarkedType`,
`PageMarkType`); then the actions.  In `GrowPagesStep` the case of zero new pages
is on its own: the extra bits it sets can only withhold pages, never hand one
out twice.  `free_pages` enters only in the type: it is at least `nums` when
`nums` is taken from it.

**Blocks.**  Assumed of the table of bins: bins are numbered from 0, one of them
is of the largest small size, sizes are positive, and a bin's blocks fit in its
run.  `HeapInv` adds to `PageInv`: each page of a run carries the run's mark and
its own place in it (`MarksSpread`), from which `Father` finds the run of a block;
free blocks and blocks in use lie in runs that are handed out; no block is listed
twice or listed and in use; huge blocks have areas and headers of their own
(`HugeApart`).  What makes reclaiming safe is `CountsBounded`: of each run, the
blocks counted so far by the walk of `__jbl_free_smalls` and the blocks that are
in use or still ahead of the walk are together no more than its blocks.  So when
the count is full nothing of the run is in use, and every block of it that is
left on the list is behind the walk, where it is cut out.  `CountsBounded` is
also what brings the finding about page indexes (item 5) to what it is: blocks
may be lost, but are never given out twice.  `PagesImplemented` follows from the
same lemmas, since each action names its step of the page layer.

**Callers.**  The refinement mapping reads a block's length from its mark or from
the list of huge blocks.  `SizesKept`: a step that is not about a block leaves its
mark.  `HeldApart`: in `HeapInv` the bytes of two held blocks never meet, by cases
on what they are (two blocks of a run at different places, different runs, a
huge area).  Then each action is a step of `Heap` or changes no block.

**Bytes.**  `Accounting` compares the two counters with sums over sets, folds of
the library that pick elements in an order nobody knows.  `CommonProofs` defines the
sum of a finite set as a function on its subsets (`Total`), and proves that it
exists, is the same whichever element is taken first (`SumsTake`), grows by what is
added (`TotalAdd`) and moves with one value (`TotalChange`), each by a least
counterexample in the number of elements; `FoldIs` says the library's fold is that
sum.  `CountInv` adds to the counters being exact that the sets summed over are
finite, which no constant says: it holds as each call adds one block and one
chunk at most.  With `HeapInv`, each action then has one lemma: what it does to the
counters is what it does to the sums.  A block that is freed has the size it
was counted with, as `SizesKept` says of every step between; a bin's size for a small
one, the pages its run got for one that grew in place, the size in the header for a
huge one (`SmallBytes`, `LargeBytes`, `HugeBlockBytes`).  Chunks in use and cached are
summed apart when the cached ones go, which needs `ChunksSeparate`.

**Server.**  Assumed: as many nodes as descriptors, and as many descriptors as
clients may hold (both bounds of the model), different from `HostNode` and `None`.
`OwnHandle` says nothing of sockets that are closed and not yet removed.  They
keep their old number, and `jwl_socket_poll_remove_closed` cancels by it; so the
invariant needs `ClosedFree`: until then nobody has got that number again.  It
holds because whoever takes a descriptor removes the closed sockets before he
registers it (`RemoveThenAdd`).
Nothing is assumed of sends: any of a broadcast may fail.  `QueueOpen` says of the nodes
with an event pending, and not yet freed, that they are open or websockets, as a
handler closes its own node, whose event is taken, and a broadcast only websockets.
So an accept in between frees none but those, which is `PendingLive`, and what it
frees it adds to `stale`; the invariant keeps apart (`QueueLive`) what is in the poll
and what is stale, so that a node whose address was given out again is not taken for
the one the event was of.

**Strings.**  Assumed: finitely many objects and variables, literals not empty,
positive bounds.  `StringsInv` is types, counts, hashes, room and cache together, and
behind a breach what is left of them: counts and hashes.  `AddConstBreaks` and
`DeleteBreaks` are what two of them leave; `Fits` shows that no text is copied into less
memory than it has by anything but clearing.
The argument is a cycle: the count is the number of holders (`Owned`), therefore
an object of count 1 that is written in place is nobody else's (`HolderAlone`),
therefore texts in the cache never change (`Exact`), and a kept hash stays right
as each write clears it (`Honest`); that a copy is counted, once per variable and
entry, gives `Owned` back.  Room rests on `SizeEnough`: `PowerUp(n)` exists and is
at least `n` (`PowerUpIs`: the doubles of a power of two are powers of two, and of
the powers above a number one is the least).  `TextsAreOwn` takes each call to the assignment of `Texts` that it
stands for, where the operations of several steps (`CacheReplace`, `AddString`)
must leave all other variables' texts alone in between.

**Linked lists.**  Assumed only that 0 is no node.  `ListInv` says that there is a
sequence of all nodes in use that `nxt` follows forwards, `pre` backwards, from
`head` to `tail`, `len` long.  Each operation gives the next sequence
(`InsertFollows`, `DeleteFollows`, and swaps with the neighbours' case apart); the
walk that defines the refinement mapping is a recursive function of numbers, and
that it is this sequence is proved by a least counterexample (`OneWalk`), in
place of induction.

**Hash tables.**  Assumed: hashes are numbers, no payload is `NULL`, the least size
is more than one.  Sys tables are included: `TableStaysGood` is claimed until a key of
one is unset or given a new value, which `FaultStays` shows to be recorded; a key that
is new is inserted, copied and merged there as elsewhere.  `RoomStaysMade` says that no
write goes behind the last slot before that.  `HtInv` is `Good(This)`, a predicate of a table taken as a record,
so that it can be said of the tables in the middle of a call: types; nothing in use
behind the fill mark; keys unique; `len` counts the slots in use; and
`HeadsRight`, `LinksRight`: the head of a chain names the highest slot of its class,
and the link in a slot names the highest of its class below it (`Prior`).
`ChainsExact` says what a walk meets, which no single step can be reasoned about;
`Prior` says the same of each link on its own, and a link always goes down.
Each function a call makes keeps `Good` and does to `ContentsOf` what it is for:
`Link`, `Put`, `Taken`, `Copied` turn by turn, `Puts` likewise.  Inside the loop
that closes holes the table is not good: slots above the turn still link to
slots that have moved, and heads are old.  The invariant of that loop (`Closing`) says
which: links below the hole are exact; the head of a class is below the turn, and then
is its highest slot there, or it is not, and then the lowest slot of the class that the
loop has not looked at still links to the highest that it has.  The test `head >= i` of
the code tells these two apart.
At the end of the loop nothing is above the turn, and the table is good again.
That the walk of `Find` ends at the entry if there is one is a least counterexample
over slots (in place of induction), as is that `Chain` meets exactly the class
(`ChainIs`); that the functions defined by recursion exist at all is proved in the
same way, as the prover's library needs operators as parameters for it.
`SharedTableKept` follows since the contents are those of the last step, and a
shared table is copied before it is changed; `TableImplemented` names for each call the
step of `Map` that it is, or none for a rehash.

**Shared lists.**  Assumed: finitely many objects, numbered from 1, and variables;
numbers and variables are no objects and not `NULL`.  `SlInv` is of a heap, the variables and the
frees still due, so that it can be said in the middle of a call: an object in use
is a list or a reference; its count is the number of its owners; an object is in
use as long as its count is positive; and there are ranks, numbers that fall along
every reference and from every list to the lists in it.  Owners are four numbers
(variables, frees due, references, places in lists), each the size of a set, and
each step changes one object and what is due, so lemmas about one object
(`OwningHeap`, `OwningHold`) balance them.  `jbl_ll_extend` is one lemma
(`ExtendIs`) that insertion, deletion, swap and merge share.  In the middle of it
the heap is not good, for the copy's payloads are counted and the copy is nobody's:
`Owed` says whose counts are off, until the variable, or the last reference on the
way, is sent to it (`Handed`).
Ranks are what the rest hangs on.  References end, so `Pull`, `Father` and the set
`Below`, which the model defines by recursion, exist (`RecursionByRank`, by a least
counterexample in place of induction).  A payload that does not lead back to the list
it is put into, or whose list is copied first as it is shared, gives new ranks
(`Raise`); the others are the breach "cycle".  `jbl_derefer` frees each reference on the
way; while their counts are 1 nobody else is left with one (`DereferOnes`), and else it
is the breach "derefer".  And of
`NothingLost`: among the objects in use that nobody can reach one has the highest
rank; somebody owns it, as its count is exact; an owner that is a variable or a free
reaches it, and one that is an object has a higher rank and is reached.

`ListsImplementHolders` compares what variables see before a step and after it.
`Reads` says of a heap what is read through references and in nested lists, as
equations that only one view solves, because ranks fall (`SteadyIs`: two heaps that
differ only in the lists C, which no other list holds, are read alike but for C).  A
call that writes a list writes it at one object, new, its own or a copy that the last
reference or the variable is sent to (`Unshared`), and by the exact counts nobody
else has a way there (`OnlyOwner`): this is where a wrong count would show.  So
everybody sees what was seen but for those at the same cell (`WrittenIs`), and what
these see is one of the ways to change a list (`InsertEdits` and on).  For
`AddInside` two objects differ, the list inside and the list around it (`InwardIs`).
Calls of free and copies change no contents (`QuietIs`).

**Only model-checked,** and why:

* liveness (`CallsEnd`, `FreeEmpties`, `FreeEnds`, `Answered`), which is beyond the
  prover;
* `BuffersHold`, `Delivered`, `ImplementsMessages`, `JsonRight`, `BytesRight`,
  `HttpRight`, `NumbersRight`, `CalendarRight`: recursive over data, some of their
  modules with RECURSIVE operators;
* `MasksAgree`, `FindsFirst`, `HighbitRight`: the module uses bitwise operators,
  which the provers do not have.

## 5. Plan

1. *(done)* Bitset, page layer, allocator, callers' view; page layer proved.
2. *(done)* `LinkedList`; `SharedLists` under `Holders`; `HashTable` under `Map`;
   `Strings` under `Texts`; `WebSocket` under `Messages`; `Server`; the codecs.
3. *(done)* Proofs about `MallocFast`, `Server`, `Strings`, `LinkedList`,
   `HashTable` and `SharedLists`.
4. `Lifecycle`: start, stop, exit and signal over all components.

### Not modelled

* *Generated tables and scanners as such* (`jbl_string_cc_table.h`, the C of
  `jwl_http.c`, `jbl_json.c` and `jbl_scanner.c`, `jbl_file_ct`): near half
  of the lines.  `Http`, `Json` and `Dates` translate the rules, `Charset` the search
  with a few rows; the tables are data.
* *Digests and the block cipher* (md5, sha1, the rounds and keys of AES), byte order,
  random numbers: pure functions over words of 32 and 64 bits, with no state
  between calls.  A definition to check them against would be the same formulas.
* *Wrappers* of files, directories, the command line and the clock; log; DNS and
  ip2region (one request, one look-up).
* *What the build switches off*: threads and locks, the system's allocator;
  Windows and macOS.
* *Lifecycle, exceptions and signals*: start and stop run once and in a fixed order;
  what could go wrong is a signal inside another component, which needs one model
  of all of them.
* *Parts of modelled components*: UDP, connecting, `jwl_socket_poll_remove` (called
  only from a branch that is never taken), control frames, the rounding of
  doubles, times before 1970, layout of JSON, comparing and viewing of lists,
  tables and strings.
