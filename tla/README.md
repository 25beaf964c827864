# TLA+ models of the hadron JIT back end and heap

This directory models the parts of hadron (a SuperCollider-language compiler
and runtime) that have state and ordering worth model checking:

- the SSA **Resolver**, which places moves on control-flow edges after
  register allocation;
- the **MoveScheduler**, which orders simultaneous moves;
- the current LIR **Resolver** (src/src/hadron/Resolver.cpp) and its
  location encoding;
- the **Heap**'s stack-segment allocator and its size-class allocator;
- the LSP request handlers of **HadronServer**;
- the **SymbolTable**, which interns strings by hash.

## The system and how its parts interact

`Materializer::materialize` (src/src/hadron/Materializer.cpp) drives
compilation of one frame. It works in these stages:

1. Compile inner blocks first.
2. `BlockSerializer`: produce the linear frame.
3. `LifetimeAnalyzer`: compute the value lifetime intervals.
4. `RegisterAllocator`: assign each interval a register or a spill slot.
5. `Resolver`: add moves on control-flow edges where a value's location
   changes.
6. `Emitter`: emit into a JIT buffer. The `MoveScheduler` orders the moves
   of each branch and label there.

`HadronServer` (src/src/server) runs the same stages for LSP diagnostics and
stops at a requested stage. The `Heap` (src/src/hadron/Heap.cpp) provides:

- sized pages for objects and JIT code;
- stack segments for frames.

It tracks every page's end address in `m_pageEnds` for `findPageContaining`.

The tree contains two Resolvers:

- `src/src/Resolver.cpp` is the complete algorithm over a `LinearBlock` of
  HIR.
- `src/src/hadron/Resolver.cpp` is the current version over a
  `LinearFrame` of LIR. Its live-in loop is commented out.

`MoveScheduler` and `RegisterAllocator` exist only as headers.

## Inventory

| Part | Source | Module | Status |
|---|---|---|---|
| Resolver (HIR) | src/src/Resolver.cpp | Resolver, MCResolver | modelled |
| Resolver (LIR) | src/src/hadron/Resolver.cpp, JIT.hpp | ResolverLIR, MCResolverLIR, MCFrame | modelled |
| MoveScheduler | src/src/hadron/MoveScheduler.hpp | MoveScheduler, ParallelMoves, MCMoveScheduler | modelled from the header's contract |
| RegisterAllocator, LifetimeAnalyzer | RegisterAllocator.hpp | abstracted in Resolver as `Allocations` | not modelled: declaration only |
| Heap stack segments | Heap.cpp 28-58 | HeapStack, Heap, MCHeap | modelled |
| Heap sized pages | Heap.cpp 9-26, 78-160 | HeapSized, Heap, MCHeap | modelled |
| Heap as a whole, getAllocationSize | Heap.cpp 9-160 | Heap, Page, MCHeap | modelled (Page.hpp from its use) |
| Materializer | Materializer.cpp, Kernel.hpp (FunctionDef setters) | Materializer, MCMaterializer | modelled: stages and Emitter abstracted |
| HadronServer | server/HadronServer.cpp, library/Symbol.hpp | HadronServer, MCHadronServer | modelled: file contents abstracted to outcomes and class/method nodes |
| SymbolTable | SymbolTable.cpp, library/Symbol.hpp | SymbolTable, MCSymbolTable | modelled |
| JIT, Emitter, LIR emit | JIT.hpp, LighteningJIT.hpp, Emitter.hpp, lir/*.hpp | — | not modelled: interfaces only |
| Frame, HIR, Runtime, Kernel declarations | *.hpp | — | not modelled: data declarations |
| hashkw, FileSystem | hashkw.cpp, FileSystem.cpp | — | not modelled: build-time I/O |
| Parser tests | Parser_unittests.cpp | — | not modelled: tests of code not in the tree |

`PROJECT.json` lists each hazard with its source line and the properties
that cover it.

## Modules

### ParallelMoves (abstract)

This module is the meaning of a set of SSA moves, as the header comment
describes it: "assumed to happen all simultaneously".

- `moves` is a function from origin to destination.
- `Schedule` applies the moves to `memory` in one step.
- `Reject` refuses a set where two origins share a destination, which
  `scheduleMoves` is documented to reject.

### MoveScheduler

This module implements the contract by emitting one `move(destination,
origin)` at a time.

- `EmitMove` emits a pending move whose destination no other pending move
  still reads (`IsSafe`).
- `BreakCycle`:
  - copies a blocked destination into the `Scratch` location;
  - redirects the moves that read it to read from `Scratch` instead.
- `Finish` completes the schedule once nothing is pending.

`Abstract == INSTANCE ParallelMoves WITH ...` maps the scheduler onto the
abstract module. While moves are pending, its result is "pending". The
scratch location is hidden.

### Resolver

This module models `Resolver::resolve` and `findAt` of src/src/Resolver.cpp.

- **Constants: the frame.** These are the blocks, their line ranges,
  successors, predecessors (whose order indexes the phi inputs), live-ins,
  phis and the per-line liveness.
- **`valueLifetimes`: the allocator's output.** Init picks one
  non-aliasing allocation from `Allocations`.
- **`ndebug`: the build mode.**
  - In a debug build a failed `assert` aborts (`AssertionFailure`).
  - In a release build an operand that `findAt` did not fill holds an
    arbitrary `MoveOperand`.
- **`ResolveEdge` is one iteration of the successor loop.** It runs in
  these steps:
  1. Compute the moves from the live-ins and phi inputs, with moveFrom
     taken at the predecessor's last line and moveTo at `blockRange.first`,
     as the code does.
  2. Drop the no-op moves.
  3. Place the rest on the branch (only successor, or last successor) or
     on the label (a successor with one predecessor). Otherwise it is a
     critical edge: `assert(false)` in a debug build, and in a release
     build the moves go nowhere.
- **`NextBlock` and `Finish`** are the outer loop's steps.
- **History variables.** `visited` and `edgeMoves` record what each edge
  computed.

### Page

Page.hpp is not in the tree; `Page` holds what Heap.cpp uses of it. A
Page is a record of object size, total size, start address (`Null`, 0,
when `map()` failed) and the number of objects handed out. `allocate()`
hands out `start + used * objectSize` while objects are left.

### HeapStack

This module models `allocateStackSegment` and `freeTopStackSegment`, with
addresses and offsets in the same units as the sized pages. Its variables
correspond to the Heap's fields:

- `pages` is the sequence of Page objects created, shared with HeapSized.
- `mapped` is the set of addresses currently mapped; `map()` returns an
  address not in it, and a page destroyed by `pop_back()` gives its
  address back.
- `stackSegments` models `m_stackSegments`, as Page identities.
- `stackPageOffset` models `m_stackPageOffset`, in bytes.
- `pageEnds` models `m_pageEnds`.
- `segments` is a history variable: the stack of segments handed out and
  not freed. `destroyed` is the set of Pages popped.

It has these actions:

- `AllocateOnNewPage`, `MapFailure` and `AllocateOnBackPage` are the three
  paths through `allocateStackSegment`.
- `FreeTopStackSegment` models both of its branches.
- The debug-build assert failures lead to `crashed`. In a release build,
  `pop_back()` on an empty vector is undefined; the model lets the process
  either fail there or go on with the vector unchanged.

### ResolverLIR

This module models `Resolver::resolve` and `findAt` of
src/src/hadron/Resolver.cpp. The frame constants and the allocation are
those of Resolver, reached through `HIR == INSTANCE Resolver WITH ...`
whose move lists are the empty ones this resolver writes; MCFrame holds
the frame both MC modules share.

- `ResolveEdge` is one iteration of the successor loop: the search for
  the block among the successor's predecessors (a debug build stops at the
  `assert` of line 51 when it fails) and an always-empty `moves`, so the
  placement code of lines 94-115 is never entered.
- `Location` is `findAt`'s int encoding: the register number, or
  `-1 - spillSlot`.
- `NextBlock` and `Finish` are the outer loop.

### HeapSized

This module models `allocateNew`, `allocateJIT`, `allocateSized`,
`getSizeClass`, `getSize` and `findPageContaining` of Heap.cpp.

- `pages` and `mapped` are those of HeapStack.
- `sizedPages` holds the page lists of `m_youngPages` and
  `m_executablePages` by size class; `pageEnds` is `m_pageEnds`.
- `AllocateSized(heap, size)` has the four paths of the code: the oversize
  `assert(false)` of a debug build; the oversize page of a release build
  (with its own `map()` failure); the first page of the class with
  capacity; and a new page, whose `map()` failure asserts or returns
  nullptr and leaves the page in the list.
- `findPageContaining` is `upper_bound` on `m_pageEnds`, with -1 standing
  for the failed `assert(addressValue >= startAddress)`.
- `objects` is a history variable of the addresses returned, each with its
  page and the number of the call that returned it.

### Heap

The composition. `Stack == INSTANCE HeapStack` and `Sized == INSTANCE
HeapSized` share `ndebug`, `pages`, `mapped`, `pageEnds` and `crashed`;
each step of `Next` is a step of one of them with the other's own
variables unchanged, as the Heap's single thread runs one call at a time.
`getAllocationSize` is the Heap's lookup of an address's object size over
`findPageContaining`. MCHeap gives the constants.

### HadronServer

This module models the handlers of src/src/server/HadronServer.cpp. The
transport hands the server one request at a time and every handler runs to
completion, so each handler is one action. The client follows the LSP
lifecycle: `initialize` first, other requests only after it succeeded.

- `mState` is `m_state`; `errors` is whether anything was ever added to
  the shared `m_errorReporter` (ErrorReporter has no way to clear it).
- A file is abstracted to the outcome of reading, lexing and parsing it
  (`FileOutcome`), to whether its name ends in ".sc", and for a class file
  to its class nodes and their method nodes (`ClassNodes`: a name, and per
  method its name, whether it is a class method and whether it has a
  primitive). `Library` is the compiled class library: the method names
  of each class and metaclass, in order. `hash` is the Symbol hash
  function, chosen in `Init` as in SymbolTable; `ndebug` is the build.
- The class-file loop (lines 99-154) is `ClassUnits`: `Steps` walks the
  class and method nodes in order, `Compiled` skips methods with a
  primitive, `MethodClass` picks the metaclass for a class method, and
  `FindMethod` is the search over `methods()` that stops at the first
  method whose name Symbol is `==` (`SameSymbol`, a hash comparison).
  `ClassLoopCrashes` collects the ways the loop ends the server: in a debug
  build `assert(!classDef.isNil())`, the assert in `addSymbol` when
  `fromView` interns a colliding method name, or `assert(false)` for a nil
  methodDef; in a release build only the dereference of a nil methodDef.
  `Initialize` also stops a debug build when the library's own method
  names collide, as compiling the library interns them.
- `Initialize`, `SemanticTokensFull` and `HadronCompilationDiagnostics`
  are the three handlers, with every early return of the code.
  `StagesFor` is the stage selection of `addCompilationUnit` (`>=` for each
  stage, `>` for emission). No property checks it: with the enum's values
  not in the tree it would restate the if-chain.
- `symbols` are the method names interned so far: the library's at
  `initialize`, then those `fromView` interns in the class-file loop.
  `InternCollides(v, interned)` checks a name against all of them and
  against the names interned earlier in the same loop
  (`MethodNamesBefore`).
- `log`, `responses`, `stagesRun` and `units` are histories of requests,
  messages sent, stages run and the methodDefs of the units sent.

### SymbolTable

This module models `preloadSymbols`, `addSymbol` and `getString` of
src/src/hadron/SymbolTable.cpp, and `Symbol::fromView` as a call of
`addSymbol`.

- `hash` is the hash function, any function from the strings to the
  hashes, chosen in `Init` and fixed for the run (Hash.hpp is not in the
  tree). `symbolMap` is `m_symbolMap`; `members` are `m_Array`, `m_at`, ...
- `AddSymbolTo` is `addSymbol`: `Intern` emplaces the view only when
  `find()` missed, and `Collides` is the failing `assert(compare(v))`,
  which stops a debug build.
- `PreloadSymbols` folds `AddSymbolTo` over the preloaded names with the
  RECURSIVE `Preload`. `FromView(v)` is a later `fromView`.
- `asked` and `interned` are histories: the views interned and the
  Symbols handed out.

### Materializer

This module models `Materializer::materialize`. Its recursion is an
explicit call stack, `stack`, of `[frame, i]` records, where `i` is the
index of the next inner block.

- `inner` is `frame->innerBlocks` (as the blocks' Frames), chosen in
  `Init` from the nestings `Shapes`; `selectors` is `frame->selectors`;
  `functionDef` is `innerBlock->functionDef` with the fields `setCode`,
  `setSelectors` and `setPrototypeFrame` write.
- `CompileInner` is `FunctionDef::alloc` and the recursive call;
  `Materialize` is the pipeline, the byte-code array requested with 16
  bytes per instruction and `bytecodeSize` re-read as its capacity (any
  of `Capacities`, up to `CapacitySlack` bytes over the request, since the
  allocator is not in the tree), emission and `assert(finalSize < bytecodeSize)`, and the
  return; `Resume` is the caller's lines 23-30 after the call returns.
- The stages and the Emitter are not in the tree: the pipeline is one step
  and the emitted size is any size in `EmittedSizes`, up to 16 bytes per
  instruction.
- `compiled` is a history of the Frames whose pipeline ran.

## Runs

| Run | Expect | What it shows |
|---|---|---|
| resolver_placement | pass | In every build mode and for every allocation, moves placed on a branch or label run only on the edge they were computed for (`MovesStayOnTheirEdge`). |
| resolver_critical_edge | violation | A release build computes moves for the critical edge B3→B5 and inserts them nowhere (`NoComputedMoveDropped`). |
| resolver_wrong_destination | violation | A release build that completes leaves a live-in value somewhere other than its allocated location at the successor (`LocationsCorrect`). |
| movescheduler | pass | Sequential emission with a scratch location never clobbers a pending origin (`NoSourceClobbered`) and refines ParallelMoves (`ImplementsParallelMoves`), including rejection of ambiguous sets. |
| heap | pass | In the composed Heap, `m_stackPageOffset` follows the stack depth (`OffsetTracksDepth`); sized objects never overlap (`ObjectsDisjoint`) and are found in their own page (`FindsOwnPage`); and `getAllocationSize` of a live segment in a mapped stack page is the segment size (`SegmentsFound`), also after stack pages were unmapped and their addresses mapped again. |
| heap_overlap | violation | A free at offset 0 pops and unmaps the page that still holds the segment below it; a sized allocation maps the same address again and hands out an object over that live segment (`SegmentsAndObjectsDisjoint`). |
| heap_leak | violation | Alternating one `allocateStackSegment` and one `freeTopStackSegment` at a page boundary maps a new stack page per allocation and never unmaps the emptied one, against the TODO's expectation of one map and unmap per oscillation (`StackPagesBounded`). |
| resolverlir | pass | On the MCFrame frame, under every allocation and build mode, the resolver's loop indices stay in range (`TypeOK`). With the move loop commented out there is nothing more to check; the run keeps the module's actions exercised. |
| server | pass | In a build with asserts, every unit of a class file is compiled against the library method its source method defines, on the metaclass exactly for a class method, with every non-primitive method present and every primitive skipped (`UnitsCompileTheirMethods`). |
| symboltable | pass | Under every hash function of four strings into three hashes, preload and later `fromView` calls keep `m_symbolMap` a map from hashes to strings (`TypeOK`). What collisions do to callers is checked in the server run, through the method lookup. |
| materializer | pass | For every nesting of three block literals, every inner block is compiled before the Frame around it (`InnerCompiledFirst`), and every FunctionDef gets the FunctionDefs of its own inner blocks, in order, as selectors (`SelectorsMirrorBlocks`). |
| server_sticky_errors | violation | After one request whose file fails to read (with the read reporting its error), a diagnostics request for a clean script gets no answer (`CleanFileGetsDiagnostics`); a lex or parse error does the same. |

Some disagreements the models reach are not given runs of their own; each
is listed as a hazard in PROJECT.json with a note:

- a debug build of the HIR Resolver aborts at `assert(found)` on this frame,
  a consequence of the wrong lookup `resolver_wrong_destination` shows;
- `m_pageEnds` keeps the entries of stack pages that `pop_back()`
  destroyed;
- the current LIR resolver, with its move loop commented out, finishes
  with live-in values in the wrong location;
- `assert(finalSize < bytecodeSize)` also fails when the code fills its
  array exactly;
- a read failure is answered with a null id, and a lex or parse failure
  gets no response at all;
- a class file with a method the compiled library lacks reaches
  `assert(false)` at HadronServer.cpp:144, and a release build dereferences
  the nil methodDef;
- in a release build, the method lookup of the class-file loop compares
  only hashes, so when "size" and "new" share a hash, Foo's source method
  `size` is compiled as `Foo:new` (`UnitsCompileTheirMethods` without its
  debug-build guard);
- spill slot 0 encodes as -1, the JIT's stack pointer register (only the
  commented-out move loop calls `findAt`);
- `allocateJIT` reports an allocated size of 0 for a release-build
  oversize object;
- in a release build, a size-class page whose `map()` failed stays in its
  list and is allocated from;
- `findPageContaining` on an oversize object below a sized page fails its
  assert;
- a release build hands a string whose hash is taken the Symbol of the
  other string;
- `mark()` and `sweep()` are empty, so size-class lists only grow.

The findings in PROJECT.json explain each violation against the source.

### Bounds and why they suffice

**MCResolver** uses a five-block frame:

- B1 branches to B2 and B3.
- B3 branches to B5 and B4.
- B2 and B3 both join at B4, which has a phi `p = φ(x, a)`.
- B4 falls through to B5, whose predecessors are B4 and B3.
- Value `a` is live throughout. `x` lives only in B2.

This single frame has every placement:

- a branch with one successor;
- a last successor;
- a non-last successor with a single-predecessor label (B1→B2);
- a critical edge (B3→B5).

It also has a phi input and a value defined in a block. One register and one
spill slot are enough for a value to change location across an edge. Two
registers grew the state space 450-fold without adding a placement case.

**MCMoveScheduler** uses three registers and a spill slot. Every move set
over them is enumerated, which covers:

- chains;
- 2-cycles and 3-cycles;
- a cycle with a tail;
- fan-out;
- ambiguous sets.

**MCHeap** uses object sizes 1, 2 and 4 in pages of 8, so a stack page
holds two segments of 4; requests of 1, 2, 4 and 5 (5 is oversize); two
page addresses, 8 and 16, so that one page's end is the next page's start
and an address a popped stack page gave up can be mapped again; up to
three Page objects and three sized calls. This is enough to fill a stack
page, wrap the offset, free across a page boundary, fail a map, open a
second page of a class, and reuse a stack page's address for a sized
page.

**MCFrame/MCResolverLIR** reuse the Resolver frame: it has an edge into
every kind of successor, so the predecessor search succeeds at the first
and at the last index of a predecessor list.

**MCSymbolTable** uses four strings, two of them preloaded, and three
hash values. All 81 hash functions are tried, so collisions happen inside
the preload, between a preloaded and a later string, and between later
strings, and a string is interned again after a collision.

**MCHadronServer** uses seven files: a script and a class file that are
clean, an unreadable one, one with a lex error, one with a parse error, a
class file with a method the library lacks and one extending a class the
library lacks. The clean class file has a class method `new`, an instance
method `size` and a primitive `new` of Foo; the library's Foo has `new`
and `size` and Meta_Foo has `new`, so picking the wrong class, compiling a
primitive or matching a colliding name each compiles a different method.
Three method names over two hash values give every collision pattern. The
bounds also include four stopping points
(kAST, kFrame, kResolution, kEmission, which include both sides of the
emission threshold) and four requests, enough for an error followed by a
clean request.

**MCMaterializer** uses a method R with three block literals A, B and C
nested in every one of the 16 ways (each inside R or inside another),
from flat to a chain of depth three, with emitted sizes from 0 to exactly
the requested array size and capacities up to 8 bytes over it, so the
assert both holds and fails.

### Fairness

- **MoveScheduler** is a single sequential procedure, so
  `WF_vars(Next)`, the procedure continuing to run, is all the code
  justifies; `ImplementsParallelMoves` includes its termination.
- **ResolverLIR** is checked for safety only and has no fairness.
- **Resolver** (HIR) is checked for safety only and has no fairness.
- **Heap, SymbolTable, Materializer and HadronServer** have no fairness: callers may
  stop allocating, and the client may stop sending requests, at any time;
  their properties are safety properties.

CHECK_DEADLOCK is FALSE where the procedure really stops:

- the Resolver after `Finish` or an abort;
- the MoveScheduler after its result;
- the Heap when a debug build has crashed or the bound on Page objects or
  calls is reached;
- the Materializer when the outermost call returned or a debug build
  stopped at its assert;
- the SymbolTable when a debug build stopped at a collision;
- the server when the client has sent its last request or the server
  crashed.

## Plan for the coming work

1. A violation run for the release-build method lookup, which needs a run
   slot that the project does not have now.
2. Requests sent before `initialize`: the server would use an
   uninitialised Runtime, whose code (Runtime.cpp) is not in the tree.

## Not modelled

The RegisterAllocator and LifetimeAnalyzer are left out because only the
43-line declaration of RegisterAllocator is in the tree. A linear scan
written from the cited paper would model the paper, not this code; the
Resolver models its output as the nondeterministic `Allocations`.

These are left out because they have no state or ordering to check:

- JIT and Emitter interfaces;
- LIR emit bodies;
- data declarations;
- the keyword hash generator;
- file reading;
- the parser tests (Parser_unittests.cpp, 3750 lines): they test a parser
  whose source is not in the tree, and a test has no behaviour of its own
  to model.

The model does not use the parser and lexer at all: the frames they produce
are constant inputs.
