---------------------------- MODULE Materializer ----------------------------
(***************************************************************************)
(* Materializer::materialize of src/hadron/Materializer.cpp.  It compiles  *)
(* a Frame's inner blocks first, each by a recursive materialize of the    *)
(* block's own Frame, wraps each result in a new FunctionDef (setCode,     *)
(* setSelectors, setPrototypeFrame of src/hadron/library/Kernel.hpp) and   *)
(* appends it to the Frame's selectors; then it runs the pipeline on the  *)
(* Frame itself and emits into a byte-code array of 16 bytes per LIR       *)
(* instruction.                                                            *)
(*                                                                         *)
(* The recursion is an explicit call stack of [frame, i] records, i the   *)
(* index of the next inner block.  The pipeline stages (BlockSerializer    *)
(* to Resolver) are one step; the Emitter is not in the tree, so the size *)
(* it emits is any size up to MaxBytesPerInstruction per instruction.  A   *)
(* FunctionDef is named by the Frame of its inner block.                   *)
(***************************************************************************)
EXTENDS Naturals, Sequences, FiniteSets, TLC

CONSTANTS
  Frames,                 \* the Frames of one method: the root and its blocks
  Root,                   \* the Frame materialize is called on
  Shapes,                 \* block nestings: [Frames -> Seq(Frames)] trees
  Instructions,           \* [Frames -> Nat]: linearFrame->instructions.size()
  MaxBytesPerInstruction, \* the most the Emitter writes for one instruction
  CapacitySlack,          \* the most arrayAlloc's capacity exceeds the request
  Nil                     \* a nil slot, as in a fresh FunctionDef

ASSUME /\ Root \in Frames
       /\ Shapes \subseteq [Frames -> Seq(Frames)]
       /\ Instructions \in [Frames -> Nat]
       /\ CapacitySlack \in Nat
       /\ Nil \notin Frames

VARIABLES
  ndebug,       \* TRUE in a release build
  inner,        \* frame->innerBlocks, as the Frames of the blocks
  stack,        \* the materialize calls in progress, innermost last
  functionDef,  \* innerBlock->functionDef: inner Frame -> FunctionDef fields
  selectors,    \* frame->selectors: Frame -> Seq of FunctionDefs
  returned,     \* the Int8Array the innermost finished call returned
  compiled,     \* history: Frames whose pipeline has run
  crashed       \* assert(finalSize < bytecodeSize) stopped a debug build

vars == <<ndebug, inner, stack, functionDef, selectors, returned, compiled, crashed>>

Top == stack[Len(stack)]

Init ==
  /\ ndebug \in BOOLEAN
  /\ inner \in Shapes
  /\ stack = <<[frame |-> Root, i |-> 1]>>
  /\ functionDef = [f \in {} |-> Nil]
  /\ selectors = [f \in Frames |-> <<>>]
  /\ returned = Nil
  /\ compiled = {}
  /\ crashed = FALSE

(* Mutant: the inner-block loop stops before its last block.              *)
InnerLoopDoneEarly(call) == call.i >= Len(inner[call.frame])

(* The range-for over frame->innerBlocks has no block left.                *)
InnerLoopDone(call) == call.i > Len(inner[call.frame])

(* FunctionDef::alloc for the next inner block, then the recursive call    *)
(* materialize(context, innerBlock->frame.get()) (lines 20-22).            *)
CompileInner ==
  LET c == inner[Top.frame][Top.i] IN
  /\ ~crashed
  /\ stack # <<>>
  /\ returned = Nil
  /\ ~InnerLoopDone(Top)
  /\ functionDef' = (c :> [code |-> Nil, selectors |-> Nil, prototype |-> Nil])
                      @@ functionDef
  /\ stack' = Append(stack, [frame |-> c, i |-> 1])
  /\ UNCHANGED <<ndebug, inner, selectors, returned, compiled, crashed>>

(* The sizes jit.end(&finalSize) may report after begin(buffer, size) and *)
(* the Emitter's calls for the frame's instructions.                       *)
EmittedSizes(f) == 0..Instructions[f] * MaxBytesPerInstruction

(* The capacities Int8Array::arrayAlloc may give an array requested with *)
(* size bytes (at least the request; Kernel's allocator is not in the      *)
(* tree).                                                                    *)
Capacities(size) == size..size + CapacitySlack

(* The pipeline on the Frame once its inner blocks are done, the byte-code *)
(* array requested with instructions.size() * 16 bytes and bytecodeSize   *)
(* re-read as its capacity, emission, and assert(finalSize < bytecodeSize) *)
(* (lines 33-59).  The call returns the array, named by its Frame.         *)
Materialize ==
  LET f == Top.frame IN
  /\ ~crashed
  /\ stack # <<>>
  /\ returned = Nil
  /\ InnerLoopDone(Top)
  /\ compiled' = compiled \cup {f}
  /\ \E bytecodeSize \in Capacities(Instructions[f] * 16),
       finalSize \in EmittedSizes(f) :
       IF ~ndebug /\ finalSize >= bytecodeSize
       THEN /\ crashed' = TRUE
            /\ UNCHANGED <<stack, returned>>
       ELSE /\ stack' = SubSeq(stack, 1, Len(stack) - 1)
            /\ returned' = f
            /\ UNCHANGED crashed
  /\ UNCHANGED <<ndebug, inner, functionDef, selectors>>

(* Mutant: the selectors of the inner Frame are not stored.               *)
SetFieldsNoSelectors(c) == [code |-> c, selectors |-> Nil, prototype |-> c]

(* setCode, setSelectors(innerBlock->frame->selectors) and                 *)
(* setPrototypeFrame on the inner block's FunctionDef (lines 23-25).       *)
SetFields(c) == [code |-> c, selectors |-> selectors[c], prototype |-> c]

(* Mutant: the loop index is advanced twice, skipping a block.            *)
AdvanceTwice(call) == [call EXCEPT !.i = @ + 2]

(* The range-for moves on to the next inner block.                         *)
Advance(call) == [call EXCEPT !.i = @ + 1]

(* The caller resumes after the recursive call: fills in the FunctionDef,  *)
(* records it in innerBlock->functionDef and appends it to its own         *)
(* selectors with typedAdd (lines 23-30).                                  *)
Resume ==
  LET c == returned IN
  /\ returned # Nil
  /\ stack # <<>>
  /\ functionDef' = [functionDef EXCEPT ![c] = SetFields(c)]
  /\ selectors' = [selectors EXCEPT ![Top.frame] = Append(@, c)]
  /\ stack' = [stack EXCEPT ![Len(stack)] = Advance(@)]
  /\ returned' = Nil
  /\ UNCHANGED <<ndebug, inner, compiled, crashed>>

(* The outermost call has returned its byte code.                          *)
Done == stack = <<>>

Next == CompileInner \/ Materialize \/ Resume

Spec == Init /\ [][Next]_vars

-----------------------------------------------------------------------------
TypeOK ==
  /\ ndebug \in BOOLEAN
  /\ inner \in Shapes
  /\ stack \in Seq([frame : Frames, i : Nat])
  /\ \A k \in DOMAIN stack : stack[k].i \in 1..Len(inner[stack[k].frame]) + 1
  /\ DOMAIN functionDef \subseteq Frames
  /\ \A c \in DOMAIN functionDef :
       functionDef[c] \in [code : Frames \cup {Nil},
                           selectors : Seq(Frames) \cup {Nil},
                           prototype : Frames \cup {Nil}]
  /\ selectors \in [Frames -> Seq(Frames)]
  /\ returned \in Frames \cup {Nil}
  /\ compiled \subseteq Frames
  /\ crashed \in BOOLEAN

(* Every FunctionDef that has its code also has, as its selectors, the     *)
(* FunctionDefs of all of its own Frame's inner blocks in their order: the *)
(* inner Frame's selectors are read only after the recursive call that     *)
(* fills them has returned.                                                *)
SelectorsMirrorBlocks ==
  \A c \in DOMAIN functionDef :
    functionDef[c].code # Nil => functionDef[c].selectors = inner[c]

(* A Frame's own pipeline runs only after the pipelines of all Frames      *)
(* nested in it, so that their FunctionDefs exist when its code refers to *)
(* them.                                                                   *)
InnerCompiledFirst ==
  \A f \in compiled : \A k \in DOMAIN inner[f] : inner[f][k] \in compiled

=============================================================================
