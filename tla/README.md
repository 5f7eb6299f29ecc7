# A verification of lua-reflow in TLA+

lua-reflow compiles HTML templates with directive attributes (`x-data="..."`)
into an intermediate representation (IR). It is a C module for Lua 5.1 to 5.4
and LuaJIT. All its memory, and that of the third-party parsers it uses, comes
from a pool whose blocks are Lua userdata, so that an error or the garbage
collector frees everything. Paths below are relative to the repository.

The code is sequential, but it is not simple: almost every call into Lua can
raise an out-of-memory error that leaves by `longjmp`, step a collector that
clears weak table entries, or run a finalizer (`__gc`) that calls back into the
same code in the middle of an operation. These three are what the models are
about.

## 1. Inventory

| Component | Source | State | Operations | Models | Status |
|---|---|---|---|---|---|
| Block layout | `src/pool.c` 159-191, 378-381, 587-594, 633-637 | none | block size, data pointer, alignment, product test | BlockLayout, BlockMasks, BlockPlacement | modelled, proved |
| Memory pool | `src/pool.c`, `pool.h` | `pool_t` (ref_L, capacity, used), the state table (`used_mem_by_block`, weak `unused_mem_by_size` and `unused_mem_next`), registry references of detached blocks | new, delete, alloc, aligned_alloc, calloc, realloc, free, detach, mem_free; the collector | PoolTables, Pool, PoolPromise, PoolRefinement, PoolReentry | modelled, proved |
| Tokenizer session | `src/html_lexbor.c` 52-246, `reflow_util.c` | static `active_pool`, one context per call, registry references | tokenize: begin, create ... end, hooks, cleanup | LexborSession | modelled, proved but for liveness |
| Pool bridge | `src/pool_lua.c` | the pool's userdata, `pool_mem_t` handles | new, `__gc`, one method per pool call, read, write, is_aligned | PoolOwner, PoolLua | modelled, proved but for liveness |
| HTML event parser | `src/html_lexbor.c` 248-552 | stack of open elements, pending text range | token_done: text, comment, start tag, end tag, end of file; the range of a start tag | Compile, ErrorPlace | partly; proved |
| Compile driver | `src/compile.c` | current parent, pending element, `structured_failure` | the handlers, `compile_lua`, the place of a directive error | Compile, DirectiveParse, ErrorPlace | partly; proved but for liveness |
| IR | `src/ir.c` | node lists, attributes, pool blocks of strings; the owner userdata | set_source, new_*, append_child, append_attr, set_data; ir_new, ir_gc | Construction and IR (used by Compile), PoolOwner | partly; proved with Compile and PoolLua |
| Directives | `src/directive_parse.c` | a temporary pool | directive_parse_attribute, parse_data | DirectivePromise, DirectiveParse | modelled, proved but for liveness |
| JSON5 reader | `src/json5.c` | explicit frame stack | json5_parse, copy_tree | Json5 | modelled, proved with DirectiveParse |
| Values | `src/value.c` | array and object lists | new, append | Construction, Value | modelled, proved with DirectiveParse |
| Snippets | `src/snippet.c` | none | location of an offset, lines and carets of a snippet | Snippet, ErrorPlace | modelled, proved but for liveness |
| Errors | `src/error.h`, `lua/error.lua` | none | format | "object or bare value", message, cause and place | not modelled |
| Lua entry, build, tests | `lua/reflow.lua`, `build_lexbor.lua`, `test/` | | | | not modelled |
| Lexbor, yyjson, Lua | third party | | | environment | external |

How they interact. `compile_lua` makes an IR, whose pool has no capacity, and
gives the template to `reflow_html_parse`, which runs a tokenizer session.
The session makes a temporary pool, points the static `active_pool` at it so
that Lexbor's process-wide allocator hooks draw from it, and feeds the template
to Lexbor. Lexbor calls back `html_token_done` with each token, which calls the
compile handlers, which build the IR and parse directives. An `x-data` value is
read by yyjson in a second temporary pool and copied into the pool of the IR; a
directive that cannot be handled is reported with a snippet of the template. The
IR belongs to a userdata whose finalizer deletes its pool. Any of these may
raise a Lua error; it crosses Lexbor and is caught by `reflow_pcall_ex`, whose
cleanup destroys the tokenizer and deletes the pool.

What makes each component correct, and hard to test:

- *Layout.* Sizes near `SIZE_MAX` and `PTRDIFF_MAX` never wrap into a block
  that is too small, and nothing that fits is refused.
- *Pool.* `used` is exact; the capacity holds; a block has one owner; chains of
  unused blocks survive the collector clearing weak entries at any moment,
  caching that fails half way, and calls that fail anywhere; a finalizer that
  calls the pool between two table writes does no harm (two kinds do, see 4).
- *Session.* One session at a time owns the hooks, every path gives them up,
  the caller is never told OK for a template that was not read to its end.
- *Parser, driver, IR.* Two stacks kept by different code agree, text that is
  reported late lands in the right place, a failure anywhere leaves an error
  object for the caller, and the code forgets no block.
- *Directives, JSON5, values.* An element gets the whole document or nothing,
  the temporary pool is given up on every path, and `errno`, which travels
  through calls that free and delete pools, names the failure that happened.
- *Snippets.* Lines, columns, carets and gutter are right at line breaks, empty
  ranges, the end of the source and contexts near `SIZE_MAX`.
- *Owners.* A pool is not deleted by its reference count: whatever fails in the
  creation of its owner, a finalizer must find it, once, while it is alive.

## 2. Modules

Names follow the source. An operator named `X_change` is a *mutant* of `X`: the
same operator with one plausible mistake. It is used by no specification; a
property is listed with a mutant that violates it, which shows that the run
would notice the mistake.

**BlockLayout** is the arithmetic of `size_t`, with `SizeMax`, `PtrdiffMax`,
`Header` and `DefaultAlignment` as constants. It says with divisors and
remainders what the code says with bit masks, so that it can be proved about;
**BlockMasks** has the masks and two assumptions, which TLC evaluates over every
`size_t` of the instance, that the two agree. **BlockPlacement** serves requests
from a small address space: a userdata goes to any address, odd ones included,
where none overlaps it, the collector frees one and its place is used again. The
outcome is compared with integers without a width, and with powers of two made
by doubling.

**PoolTables** gives the state table after each group of raw writes: a hit in
`take_unused_block` (`TakeUnused`), `RegisterUsed`, `ForgetUsed`, the two halves
of `cache_unused_block_protected` (`LinkUnused`, `PushUnused`), what best-effort
caching may leave (`Released`) and what the collector clears (`Collected`). A
block stands for its userdata and its data pointer; the theorem
`DataPointersDistinct` is why one name is enough.

**Pool** has one action per function of `pool.h` and one for the collector. An
action covers the whole call, error paths included; `status` is the errno.
`held` and `handles` (ghost) are the pointers the caller owns: `Free`, `Realloc`
and `Detach` take *any* pointer, as the code validates it, while `MemFree` takes
a handle, as its contract says. `Collect(D)` takes any unreachable set, since an
incremental collector may already have marked the others. Without finalizers a
collection inside a call has the effect of one before or after it: it removes
only what nothing reaches, and a call keeps its blocks on the Lua stack.
`NilKeyAllocates` says whether `lua_rawset(t, absent_key, nil)` may run out of
memory; it may in Lua 5.1 to 5.4.2 and LuaJIT, where it creates the key first.

**PoolPromise** is the allocator that `pool.h` describes, without tables or
collector; **PoolRefinement** maps the pool to it. The promise says who owns a
block and what may fail, and grants a block of any class; that its class is the
one the caller asked for is said elsewhere, by `UsedIsHeldBytes`, `ChainsSound`
(a chain has blocks of its class only) and BlockPlacement's `GrantedInFull`.

**PoolReentry** cuts a call at the points where a finalizer can run
(`lua_pushlstring`, `lua_newuserdata`) and lets finalizers make whole pool calls
there, of which `allocations` (bounded by `MaxAllocations`) are allocations and
resizes. Lua stops the collector while a finalizer runs, so those calls are not
cut again. A finalizer does not delete the pool, whose owner is in the middle of
a call of it, and does not release or resize the block that this call was given
(`Others`). `old` is that block, and `OnStack` what the call keeps on its Lua
stack. `held` and `handles` are sets and know one holder of a block; the ghost
`shared` has the blocks that were handed out while somebody had them.

**Construction** is how the constructors of `ir.c` and `value.c` fail. A
constructor is a sequence with one entry per pool block that it asks for; the
entry has the earlier blocks that the code releases when this one is refused.
`Refusals` gives every outcome: the blocks `left` because the code does not
release them, those `stuck` because the pool does not take them back although it
does, and whether an error of Lua's leaves the constructor. A block is stuck
where the refused `pool_alloc` has registered one itself (`NilKeyAllocates`, the
violation of `pool_leak`) and where `pool_free` fails, raises, or is not reached
since `pool_alloc` has raised (`CallsRaise`).

**LexborSession** has a stack of calls in progress; only the top one moves, and
finalizers push another. A frame goes through `pcall`, `new`, `ref` (begin_session),
`create` to `end` (tokenize_operation), `destroy` and `clear`
(cleanup_operation), and each step may fail with a status or raise.
`CFunctionAllocates` says whether `lua_pushcfunction` allocates (Lua 5.1, LuaJIT).

**IR** has the nodes, the child lists, the constructors and the number of pool
blocks a node has; strings and values are not modelled. **Compile** is one
`compile_lua` call: Lexbor delivers any sequence of tokens, each with the flush,
the loops and the handler calls that `html_token_done` makes for it, and every
allocation of every constructor may fail. `blocks` are the blocks in the pool that
the code has not released, `stuck` those that the pool has kept. A token's
*position* in `tokens` is its source range; `dropped` is source text that gives
no token, which is why text may not be contiguous. Its `Directive` step, which
sets an element's data or fails, is what DirectivePromise promises.

**Value** has the values of a JSON5 document, with the lists of arrays and
objects as the code keeps them (items, tail, count), the constructors, and the
number of blocks in the pool. **Json5** is `json5_parse` on top of it: `frames`
is the explicit stack, one iteration of `copy_tree`'s loop is one step
(`VisitChild`, `LeaveContainer`), `PushFrame` doubles the stack. A document is a
sequence of nodes in the order of the text, each with its parent, and
`DocumentTree` builds from it the tree that the copy is compared with.
**DirectiveParse** is one element with any sequence of directive attributes:
`on_attribute`, `directive_parse_attribute` and `parse_data` around `Json5`.
`errno` is state: every call into Lua that succeeds may leave ENOMEM in it
(`MayTouchErrno`), as an allocation does that succeeds after an emergency
collection. `Raise` is an error that crosses `parse_data`. **DirectivePromise**
is the element alone: it has no data, then all of it, in one step; and
DirectiveParse implements it.

**Snippet** is `snippet.c`, one action per iteration of each loop, on a
`size_t` of few values; a row is the padding, the number and the text after the
bar. **ErrorPlace** puts `html_start_tag_range` before it: the tag of a
directive error is found from the spans Lexbor gives for its name and
attributes, and then shown. Calls of the snippet with free arguments start
beside it (`NoTag`).

**PoolOwner** adds to Pool what owns it: `ir_new` in four steps, after each of
which the collector may run, `new_lua` in two, and their finalizers. `alive`,
`stack`, `kept` and `links` are the Lua objects and what reaches them, `armed` and
`due` those with a finalizer to come. **PoolLua** adds the methods of the bridge,
with any block, stale or foreign, as the pointer, and `answer` for what the
method tells its caller. A detached block is at hand (`moving`) between the pool's
reference and the Lua value that takes its place, and a collection may come
between.

## 3. What is checked

| Run | Instance | Shows |
|---|---|---|
| block_placement | 6-bit size_t, sizes on both sides of PTRDIFF_MAX, 12 alignments, 4 addresses | requests are refused exactly when they overflow or the alignment is not a power of two; granted regions are aligned and disjoint, with gaps between userdata and after reuse of a place |
| pool | 3 blocks, sizes 0, 1, 2 and an impossible 9, alignments 0, 3, 4, capacities 0 and 3 | accounting, capacity, ownership, no dangling pointer, well-formed chains, failed calls change nothing, and the pool implements PoolPromise |
| pool_old_lua | PoolLua with NilKeyAllocates, 2 blocks, one owner at a time, offsets and lengths 0, 1, 2 and SIZE_MAX | where a nil assignment may fail, chains stay well formed; a pool is deleted after its owner is given up, however its creation ended, and by someone who knows it until then; detached blocks pass from pool to Lua without a gap; accesses stay in blocks in use; methods tell failure from success |
| pool_reentry | 3 blocks, any number of pool calls by finalizers, at most one of them an allocation or a resize | no block that is worked on or has one holder is collected; none gets a second holder, and accounting, capacity and chains hold at every point of a call, while finalizers only release |
| lexbor_session | 3 pools, 2 finalizers per call, 2 hook blocks, Lua 5.1, whose behaviours include those of later versions | hooks reach the right pool, one tokenizer, nothing is left behind unless a cleanup is cut short, OK means read to the end, every call returns |
| compile | up to 4 tokens, 1 attribute, two elements with content and one void, any Lua | the tree is the one the tokens describe, no text is lost, the two stacks agree, lists are sound, no constructor leaves a block behind, errors are objects |
| directive_parse | every document of up to 4 nodes and two of nesting depth 4 and 5, 2 keys, frame stack of 1 that grows to 4, any Lua | the element's data is the whole document or nothing, in every state; the frame stack fits and follows the document; no constructor leaves a block behind; the temporary pool is given up on every path that returns; the error names the failure; every parse ends; the header's promise is kept |
| snippet | every source of up to 5 bytes, offsets and contexts 0 to 5, SIZE_MAX - 1 and SIZE_MAX; start tags of up to 2 attributes | a start tag's range ends at its own ">"; locations, lines, carets and gutter are right; every call returns |
| pool_leak, pool_reentry_capacity, pool_reentry_heads, lexbor_session_raise | | violations, see 4 |

Properties that say one thing of one structure are parts of one invariant:
`AccountsExact` is `OwnershipExact`, `UsedIsHeldBytes` and `CapacityRespected`;
`StructureSound` is `ChainsSound`, `NoStaleLink`, `NoDangling` and `OneOwner`;
`HooksGuarded`, `StacksAgree`, `RepresentationSound`, `FramesSound`,
`SnippetRight`, `OwnersSound` and those of PoolReentry and BlockPlacement are
made in the same way, each defined after its parts.

The bounds, and why they are enough:

- *Four addresses*, 1, 14, 35 and 44, put a userdata at every remainder of the
  alignments up to 4, the lower one of two with and without a gap behind it. Two
  userdata at a time are enough for a property of pairs.
- *Any Lua* is the oldest, with `NilKeyAllocates` and `CallsRaise`: what may fail
  in later versions may fail in it, so its behaviours include theirs.

- *Three blocks* make a chain of two with a third in use, a resize into a
  non-empty chain, and a collection of the middle of a chain. Size 0 is a legal
  block that adds nothing to `used`; 9 cannot be represented when `SizeMax` is 15;
  alignment 3 is refused; capacity 3 makes a resize succeed only because the old
  size is taken off first. `pool_old_lua` has two blocks, enough for a head with
  and one without successor, which is all the failing assignment tells apart,
  and for a detached block beside one in use; sizes are 0 and 2, capacities 0
  and 1, so that a resize and an allocation are each refused and granted.
- *One owner at a time*: owners share nothing but the registry, where each pool
  has a key of its own. Position 15 is SIZE_MAX, so `offset + len` wraps.
- *Documents of four nodes* nest three containers in the root, or give a
  container members before and after a nested one; a container of three
  elements is what a list with a stale tail needs to go wrong. The first frame
  stack holds one frame and the largest four (16 and
  `SIZE_MAX / sizeof(json5_frame_t)` in the code): it doubles twice, and two more
  documents, of four and of five containers in each other with members after
  them, fill it and exceed it.
- *Sources of five bytes*, of an ordinary byte and line breaks, have up to six
  lines, with empty ones at both ends. Line numbers are to base 3, so that the
  gutter widens between lines 2 and 3. Contexts 30 and 31 with SIZE_MAX = 31 make
  every sum with a line number wrap. Start tags have attributes without value,
  with a ">" and with a line break in the value, in either order, and text with
  a ">" on both sides.
- *Three pools and two finalizers* nest sessions three deep: a finalizer's
  session at each point of the outer one, and another within or after it. There
  is never need for more pools than calls. Two hook blocks let one be returned
  while another is outstanding.
- *Four tokens* give crossed end tags (`<a><b></a></b>`), a close that closes two
  elements, text split by a dropped range, and every other token after each.
- The `MaxX` constants bound inputs, in guards; nothing else is cut.
- One allocation by a finalizer is enough for both violations of section 4;
  after it the conditional properties of pool_reentry say nothing. Of
  `NothingUsedIsCollected` remains that a block with one holder is alive: of one
  that was handed out twice it is not known whether somebody still has it.
- Blocks and ordinary tags are interchangeable and the runs of safety
  properties use that as symmetry; the run with a liveness property uses none.

Deadlock is checked in every run: `Compile` has an explicit `Returned` step for
its end, as DirectiveParse (`Ended`) and Snippet (`Returned`) have; the other
systems always have a step (PoolOwner's `Elsewhere` is a program that does
something else).

Fairness. `LexborSession` assumes `WF_vars(Step)`: the C code of the innermost
call goes on running until it returns. Nothing is assumed of the program or of
finalizers, neither that they call nor that they stop; that finalizers do not
run forever is `MaxFinalizers`, a bound per outermost call. `DirectiveParse`
(`WF_vars(Step)`) and `ErrorPlace` (`WF_placeVars(PlaceStep)`) assume the same of
a single thread of C; nothing makes an attribute arrive. `BridgeSpec` assumes
of Lua that its collector completes a cycle again and again and calls the
finalizers that are due; it assumes nothing of the program, which need not call
any method or ever give up its pool.

## 4. Where code and documents disagree

Each is a run in which TLC finds the counterexample.

1. `pool_leak`. `take_unused_block` registers a block as used and promotes its
   successor, then removes its link by assigning nil (`src/pool.c:346`). Where
   that can fail (Lua 5.1 to 5.4.2, LuaJIT), the call fails with the block
   registered and nobody to release it, against `pool.h:114` and `pool.c:796`.
   It takes a head without successor, since otherwise the key exists.
2. `pool_reentry_capacity`. The capacity test (`pool.c:561`) and the accounting
   are separated by points where a finalizer may allocate; `used` can pass the
   limit, and `capacity - used` then wraps.
3. `pool_reentry_heads`. Between the two halves of
   `cache_unused_block_protected` (`pool.c:232`) a finalizer that allocates takes
   the old head; the released block is then cached with a link to a block in
   use, and a later allocation hands that one out again. It has two holders then,
   and when one of them gives it up it may be collected while the other uses it.
4. `lexbor_session_raise`. Where `lua_pushcfunction` allocates, `pool_free` may
   raise inside `cleanup_operation`, which nothing protects; `active_pool` stays
   set and the pool stays in the registry, against `html_lexbor_internal.h:49`
   and `reflow_util.h:35`.

An error that leaves `parse_data` between `pool_new` and `pool_delete` keeps the
temporary pool's state table in the registry, as `pool.h:40` makes the caller
release it. That takes an error of a finalizer before Lua 5.4, or
`lua_pushcfunction` out of memory on Lua 5.1 and LuaJIT. No document speaks of
that case, so it is not a run; `ReleasedUnlessRaised` says exactly how far the code
goes.

2 and 3 need a finalizer that allocates from a pool that is in the middle of a
call; in this repository no `__gc` does so, but `pool.h` does not forbid it.

## 5. What is proved

The proofs hold for every value of the constants that satisfies the named
assumptions (`LayoutAssumption`, `TablesAssumption`, `PoolAssumption`,
`ReentryAssumption`, `PositionsAssumption`, `SessionAssumption`,
`CompileAssumption`, `KeysAssumption`, `Json5Assumption`,
`ConstructionAssumption`, `PlacementAssumption`, `SnippetAssumption`,
`StartTagAssumption`), which TLC evaluates in every run of the modules that
state them. They say what kind of thing a constant is and how sizes are ordered,
with three exceptions: PoolReentry takes Lua 5.4.3 and later
(`~NilKeyAllocates`), and the theorems named below for those versions say so in
their statement; no template is within two bytes of `SIZE_MAX` (`Sized`); and
`StartTagAssumption` is what the code relies on in Lexbor's tokens, that the
ends of names and values lie in the tag and that each ">" before the tag's own is
inside one of them. Each inductive
invariant was checked by TLC on the instance of the component's run before it
was proved.

**BlockLayoutProofs.** `BlockSizeExact`: the block size is the mathematical sum,
or 0 exactly when that exceeds the limits. `RegionInsideBlock`: the usable
region is aligned and inside the userdata. `DataPointersDistinct`: disjoint
userdata have distinct data pointers, size 0 included. `CallocCheckExact`: the
division refuses exactly the products that do not fit. From these follow, for
behaviours of any length and every word size, `RegionsAlwaysSound` (with
`PlacementInv`: userdata are apart, wherever Lua has put them and whichever it
has freed) and `RequestsAlwaysJudged`, for which `PowersAgree` says that
`PowerOfTwo` and doubling give the same numbers.

**PoolProofs.** None of the properties is inductive. `StructInv` is what
makes the tables' part so: it adds to the type that every owned block is alive,
used blocks and references are disjoint, links belong to idle live blocks, and
*some* set of idle blocks contains all chains (`ChainsOver`). The set is needed
because an idle block whose caching failed may still link into a chain without
being on one; it is chosen anew after each step (`TakeUnused` removes the head
from it, `PushUnused` adds the block, `Collected` removes the dead), in one lemma
per operation on the tables. `TypesCorrect` and `StructureSafe`
(`StructureSound`) follow, on every Lua version. With `~NilKeyAllocates`,
`AccountInv` adds that the pool owns what the caller holds, that `used` is the
cardinality of the held bytes and that it is within capacity and the address
space; the last is why the wrapping `+` and `-` of `size_t` are exact, also in
the middle of a resize, when both blocks count. `AccountingExact`,
`FailureAtomic` and `PoolKeepsPromise` follow, the last step by step: every call
of the pool is the call of PoolPromise with the same answer, and a collection is
a stutter. The lemmas on the tables are stated for any set of pinned blocks
(`SoundOver`), because three other modules keep more alive than `refs`.

**PoolLuaProofs**, on every Lua version. `OwnerInv` says, for each point of a
creation, which objects exist, which is armed and who reaches whom; its core is
that an owner that knows the pool has its whole chain alive and is the only
object with a finalizer, while before that the pool's own userdata has one.
`BridgeInv` is the pool's structure over `refs` *and* the values Lua has made of
detached blocks: a block at hand between the two is in both, which is why no
collection in that gap can take it. `BridgeTypeCorrect`, `OwnersAlwaysSound`,
`DetachedBecomesLuas`, `AccessStaysInside`, `AnswersAlwaysTrue`, `ReuseAlwaysSound`.

**PoolReentryProofs.** Two invariants, for what finalizers may break and what
they may not. `LooseInv` holds whichever of the modelled calls they make, with
allocations and resizes: no table names a dead block, and the interrupted
call's block is alive. `CalmInv` holds until a finalizer
allocates, that is, while they only release: the tables are sound *without* the
link that `CacheLink` has written and *with* the block being cached pinned
(`Plain`, `Pinned`), the head that was read before the second key is the first
of a rest that nobody has taken (`RestOf`), and the capacity test that was made
before the interruption still holds (`StillFits`), since releases only lower
`used`. These are exactly the two windows in which section 4 finds its
violations. `SharedInv`, that no block has been handed out while somebody had it,
holds as long: the head of a chain is unused then, and what is unused is neither
held nor a handle. `ReentryTypeCorrect`, `UsedNeverCollected`,
`ReleasesDoNoHarm`.

**LexborSessionProofs**, for any number of pools, any nesting and any bound on
finalizers. `SessionInv` says what a call in progress has, by the point it has
reached (`FrameInv`), that all calls but the top one are still without hooks and
no two share a pool (`StackInv`), that `active_pool` and the registry have what
the calls need (`GlobalInv`) and, while no cleanup has been cut short, nothing
else (`NothingElse`). The interesting step is `Enter`: a call can only be
interrupted successfully while `active_pool` is NULL, so a session with a
tokenizer is always on top. The actions are of three kinds, one lemma each: the
top call moves on, a call is pushed, the top call returns. `SessionTypeCorrect`,
`HooksExclusive`, `NothingLeft`, `VerdictTrue` and, where `lua_pushcfunction`
does not allocate, `NothingLeftSince52`.

**CompileProofs**, for templates of any number of tokens and any depth.
`TreeMatchesTokens` compares each node's parent with the start tags that the
tokens before it leave open, which the code never computes; `CompileInv` is the
bridge. Its parts:

- the tree: a node is younger than its parent, only the last may be unlinked,
  and each child list is given by its head, its tail and the next greater child
  of every child (`TreeShape`, `ListOf`);
- the tokens of the nodes are apart and in order (`Placed`), and each linked node
  has the parent that the tokens say (`Nested`);
- the stack: *some* sequence of nodes, each the parent of the next, has the tags of
  `open_element`, ends in `current_parent`, and its first elements, without those
  that the end tag at hand is still closing, have exactly the start tags that are
  open (`StackIs`). That is what an end tag's loop, the parent chain and the
  tokens have in common; while a start tag waits for its attributes the last
  token does not count yet, and before `PushOpen` the stack has one entry to come
  (`Counted`, `Stack`);
- the pending text lies after all nodes and nothing was opened or closed since
  its first token (`PendingText`), so that reporting it late puts it where it was
  read; and each text, comment and start tag is in a node or in the pending text;
- `blocks` is the sum over the nodes (`Total`), which rests on `NothingLeft`:
  every constructor releases all its earlier blocks, so that a failure anywhere
  in it leaves `blocks` as it was. What the pool keeps is counted apart
  (`stuck`): nothing unless `NilKeyAllocates` or `CallsRaise`, and nothing as long
  as the compile has not failed (`StuckInv`).

There is one lemma for each operation on the sequence of nodes (append, link,
change the last), on the stack (push, pop, match) and one per action.
`CompileTypeCorrect`, `TreeIsTheTemplates`, `NoTokenLost`,
`ParserAndHandlersAgree`, `RepresentationAlwaysSound`, `ErrorsAlwaysObjects`.

**DirectiveParseProofs**, for any set of documents, however wide and deep.
`CopyInv` says that the values copied so far are the nodes of the document up to
the one at hand, with the right parents, keys, order and list ends, that the
frames are the path to it, and that `blocks` is what these values need; a
constructor that fails leaves the same heap (`NothingLeft`, from the blocks it
releases), and what the pool keeps of it, on the versions of Lua where it does,
belongs to a parse that fails (`StuckInv`). `DataInv` makes `status = 0` equivalent to
data being attached, by the point of the call; `ErrorInv` relates `errno`,
`cause`, `reason` and `message` from the failure to the raise. `StackSound`,
`ValuesSound`, `PoolGivenUp`, `ErrorsTold`, `DirectiveTypeCorrect`, and
`PromiseKept`, the refinement of DirectivePromise: the step that sets
`element_data` is the promise's step, and all others stutter.

**SnippetProofs**, for any source, range, context and base. The properties
compare with sets: the line breaks before an offset, the offsets of a line. The
loops never see these, so `SnippetInv` says for each of them what is behind the
cursor: a scan at offset `i` has met `LineIn(Text, i) - 1` line breaks and its
`lineStart` is right after the last of them (`ScanInv`, `PlacesInv`), the counter of
lines is the number of breaks so far plus one (`BoundsInv`), the cursor of the rows
is at the beginning of `line`, and the rows so far are those of the lines above it,
each with its carets (`RowsInv`). That the sums with `context` do not wrap, or are
cut where they do, needs that no line number exceeds `SIZE_MAX` - 1; that
`decimal_width`, which divides, gives the number of digits, which `snprintf`
writes, is `WidthIsDigits`. Before the snippet, `RangeInv`: the cursor has passed
the ends of the attributes so far and has not passed the tag's own ">"; since every
other ">" is before one of these ends, the search from the last of them stops at
the right one. `SnippetTypeCorrect`, `PlaceTypeCorrect`, `ErrorRangeIsTheTag`,
`LocationsAlwaysRight`, `SnippetAlwaysRight`.

Induction. The library's induction theorems take an operator as a parameter and
cannot be used. `LeastElement`, a set of naturals that is not empty has a least
element, follows from `NatLessThanWellFounded` and `WFMin`, which take none, and
`Induction` over sets from it. A recursive function is by definition a CHOOSE
of a solution of its equation; that one exists is proved by `Induction` on its
domain (`OpenExists`, `TotalExists`, `PathExists`, `PowerDefined`), and then the equation
can be used like any other.

Only model-checked: that the code's bit masks are BlockLayout's divisors and
remainders (BlockMasks), because no module with a theorem can use Bitwise; and
liveness (`EveryCallReturns` of the sessions and of the snippet, `EveryParseEnds`,
`DeletedInTheEnd`), which the prover does not reach. Every safety invariant, action
property and refinement that a passing run checks is also a theorem.

## 6. Plan

Done, in this order: BlockLayout and its proofs, PoolTables and Pool, PoolProofs,
PoolPromise and the refinement, PoolReentry, LexborSession and its proofs, IR and
Compile; then Value, Json5 and DirectiveParse with its promise, Snippet and
ErrorPlace, PoolOwner and PoolLua; then the proofs of DirectiveParse, of the
pool's refinement, of PoolLua, PoolReentry, Compile, Snippet with ErrorPlace,
and BlockPlacement.

Next, proofs: what fairness rests on, as far as it is safety, namely that each
step of a call in progress goes down in a well-founded order (the scan and the
lines of a snippet, the nodes of a document, the steps of a session), which with
the fairness stated is the liveness that TLC checks; and shorter proofs, where
the parts of an invariant turn out to need less of each other.

## 7. Not modelled

- Threads: one Lua state per process is assumed; `active_pool` is static and
  unsynchronized, so that every interleaving of two threads is a data race.
- The contents of strings and numbers, the bytes that the bridge writes, the
  positions of text and attribute values beyond their order, the wording of
  messages.
- `lua_checkstack` failures as a reason of their own: they answer ENOMEM like
  any other.
- `error.h` and `lua/error.lua`, constructors without state; `lua/reflow.lua`,
  the build and the tests.
- Two calls that a finalizer could make inside a call of the same pool:
  `pool_delete`, although the owner is in the middle of using the pool, and a
  release or resize of the very block that this call is releasing or resizing.
- A pool's userdata that a finalizer brings back to life after its own `__gc`
  has run, which `pool.h` does not allow.
- Everything inside Lua, Lexbor and yyjson except what the code relies on.
