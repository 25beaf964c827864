---------------------------- MODULE HadronServer ----------------------------
(***************************************************************************)
(* The LSP request handlers of src/server/HadronServer.cpp.  The transport *)
(* run loop hands the server one request at a time and every handler runs *)
(* to completion, so each handler is one action.  The client follows the  *)
(* LSP lifecycle: initialize first and once, further requests only after  *)
(* a successful initialize result.                                         *)
(*                                                                         *)
(* One ErrorReporter (m_errorReporter) is shared by the runtime and by the *)
(* SourceFile, Lexer and Parser of every request; ErrorReporter           *)
(* (src/ErrorReporter.hpp) can only add errors, and ok() means no error   *)
(* has been added.  File contents are abstracted to the outcome of        *)
(* reading, lexing and parsing them and, for a class file, to its class   *)
(* and method nodes.  A Symbol is compared by its hash (Symbol.hpp), and  *)
(* the hash function is chosen in Init, as in the SymbolTable module.     *)
(***************************************************************************)
EXTENDS Naturals, FiniteSets, SequencesExt, TLC

CONSTANTS
  Files,           \* paths the client may ask about
  FileOutcome,     \* [Files -> Outcomes]
  IsClassFile,     \* [Files -> BOOLEAN]: the ".sc" extension test
  StopPoints,      \* the DiagnosticsStoppingPoint values the client may send
  MaxRequests,     \* bound on the number of requests of a behaviour
  ClassNames,      \* the class names a class file may define or extend
  MethodNames,     \* the method names of the files and of the library
  Hashes,          \* the values of hash()
  Library,         \* [class, meta] -> Seq(MethodNames): classDef.methods()
  ClassNodes,      \* [Files -> Seq(Node)]: parser->root() of a class file
  Nil              \* a nil methodDef

(* What reading, lexing and parsing a file produce.                        *)
Outcomes == {"unreadable", "lexError", "parseError", "ok"}

(* A ClassNode or ClassExtNode, both of which the loop treats alike: the  *)
(* class it names and its MethodNodes, in order.                           *)
MethodNode == [name : MethodNames, classMethod : BOOLEAN, primitive : BOOLEAN]
Node == [name : ClassNames, methods : Seq(MethodNode)]
Owners == [class : ClassNames, meta : BOOLEAN]

(* DiagnosticsStoppingPoint in the order its >= comparisons use; the AST  *)
(* is always built, emission runs only past kResolution.                   *)
kAST == 0
kFrame == 1
kHIROptimization == 2
kHIRFinalization == 3
kLowering == 4
kLifetimeAnalysis == 5
kRegisterAllocation == 6
kResolution == 7
kEmission == 8
Stages == kAST..kEmission

ASSUME /\ FileOutcome \in [Files -> Outcomes]
       /\ IsClassFile \in [Files -> BOOLEAN]
       /\ StopPoints \subseteq Stages
       /\ ClassNodes \in [Files -> Seq(Node)]
       /\ DOMAIN Library \subseteq Owners
       /\ \A c \in ClassNames :
            [class |-> c, meta |-> TRUE] \in DOMAIN Library
              <=> [class |-> c, meta |-> FALSE] \in DOMAIN Library
       /\ \A o \in DOMAIN Library : Library[o] \in Seq(MethodNames)
       /\ Nil \notin Owners

Ids == 1..MaxRequests
NullId == 0                \* std::nullopt in sendErrorResponse
Kinds == {"initializeResult", "error", "semanticTokens", "diagnostics"}

VARIABLES
  ndebug,        \* TRUE in a release build: asserts are compiled out
  hash,          \* the hash function of Symbols
  symbols,       \* the method names interned in the SymbolTable so far
  mState,        \* m_state
  errors,        \* TRUE once any error was added to m_errorReporter
  nextId,        \* id of the next request the client sends
  log,           \* history: the requests handled, by id
  responses,     \* the messages sent to the client
  stagesRun,     \* history: stages addCompilationUnit ran, by request id
  units,         \* history: the methodDefs of the units sent, by request id
  crashed        \* a failed assert or a nil dereference ended the server

vars == <<ndebug, hash, symbols, mState, errors, nextId, log, responses, stagesRun,
          units, crashed>>

Request == [kind : {"initialize", "semanticTokens", "diagnostics"},
            file : Files \cup {"none"}, stopAfter : Stages]

Init ==
  /\ ndebug \in BOOLEAN
  /\ hash \in [MethodNames -> Hashes]
  /\ symbols = {}
  /\ mState = "kUninitialized"
  /\ errors = FALSE
  /\ nextId = 1
  /\ log = [i \in {} |-> {}]
  /\ responses = {}
  /\ stagesRun = [i \in {} |-> {}]
  /\ units = [i \in {} |-> <<>>]
  /\ crashed = FALSE

(* mutant: the response carries the id of the following request *)
RespondToNext(id, kind) ==
  responses' = responses \cup {[id |-> id + 1, kind |-> kind]}

Respond(id, kind) == responses' = responses \cup {[id |-> id, kind |-> kind]}

(* The client sends request r with the next id; the server handles it.    *)
Receive(r) ==
  /\ ~crashed
  /\ nextId <= MaxRequests
  /\ log' = log @@ (nextId :> r)
  /\ nextId' = nextId + 1

(* Client side of the LSP lifecycle.                                       *)
MayRequest == nextId > 1 /\ mState = "kRunning"

(* The method names the compiled class library interned.                  *)
LibraryNames == UNION {ToSet(Library[o]) : o \in DOMAIN Library}

(* SymbolTable::addSymbol's assert(compare(v)) fails on interning v: its  *)
(* hash is already taken by a different string of the interned ones.       *)
InternCollides(v, interned) == \E w \in interned : w # v /\ hash[w] = hash[v]

(* HadronServer::initialize: initInterpreter may fail; compiling the      *)
(* class library interns its names, where a debug build stops at a        *)
(* collision.                                                               *)
Initialize ==
  /\ nextId = 1
  /\ Receive([kind |-> "initialize", file |-> "none", stopAfter |-> kAST])
  /\ IF ~ndebug /\ \E v \in LibraryNames : InternCollides(v, LibraryNames)
     THEN crashed' = TRUE /\ UNCHANGED <<symbols, mState, responses>>
     ELSE /\ symbols' = LibraryNames
          /\ \E ok \in BOOLEAN :
               IF ok THEN mState' = "kRunning" /\ Respond(nextId, "initializeResult")
                     ELSE UNCHANGED mState /\ Respond(nextId, "error")
          /\ UNCHANGED crashed
  /\ UNCHANGED <<ndebug, hash, errors, stagesRun, units>>

(* SourceFile::read fails; whether it reports to the ErrorReporter is not *)
(* in the tree, so both are allowed.  The error carries no request id.    *)
ReadFailure(f) ==
  /\ FileOutcome[f] = "unreadable"
  /\ Respond(NullId, "error")
  /\ \E reported \in BOOLEAN : errors' = (errors \/ reported)

(* !lexer->lex() || !m_errorReporter->ok(): return without a response.    *)
LexStops(f) ==
  /\ FileOutcome[f] # "unreadable"
  /\ FileOutcome[f] = "lexError" \/ errors
  /\ errors' = TRUE
  /\ UNCHANGED responses

(* Reached only when lexing succeeded with no error reported so far.       *)
Lexed(f) == FileOutcome[f] \notin {"unreadable", "lexError"} /\ ~errors

(* HadronServer::semanticTokensFull                                        *)
SemanticTokensFull ==
  /\ MayRequest
  /\ \E f \in Files :
       /\ Receive([kind |-> "semanticTokens", file |-> f, stopAfter |-> kAST])
       /\ \/ ReadFailure(f)
          \/ LexStops(f)
          \/ Lexed(f) /\ Respond(nextId, "semanticTokens") /\ UNCHANGED errors
  /\ UNCHANGED <<ndebug, hash, symbols, mState, stagesRun, units, crashed>>

(* HadronServer::addCompilationUnit: the stages run for stopAfter.         *)
RunsStage(stopAfter, s) == s <= stopAfter
EmitsCode(stopAfter) == stopAfter > kResolution
StagesFor(stopAfter) ==
  {s \in Stages \ {kEmission} : RunsStage(stopAfter, s)}
    \cup (IF EmitsCode(stopAfter) THEN {kEmission} ELSE {})

(* The methods the loop compiles: if (!methodNode->primitiveIndex).        *)
Compiled(node) == SelectSeq(node.methods, LAMBDA m : ~m.primitive)

(* The nodes of class file f paired with the methods compiled from them,  *)
(* in the order of the two while loops (lines 104-154).                    *)
Steps(f) ==
  LET nodes == ClassNodes[f] IN
  FlattenSeq([k \in DOMAIN nodes |->
                [j \in DOMAIN Compiled(nodes[k]) |->
                   [node |-> nodes[k], m |-> Compiled(nodes[k])[j]]]])

(* Mutant: a class method is looked up on the class, not its metaclass.   *)
MethodClassIgnoringMeta(node, m) == [class |-> node.name, meta |-> FALSE]

(* methodNode->isClassMethod ? metaClassDef : classDef                     *)
MethodClass(node, m) == [class |-> node.name, meta |-> m.classMethod]

(* Symbol::operator==: a Symbol wraps the Hash of its string, and two    *)
(* Symbols are equal when their slots, the hashes, are.                    *)
SameSymbol(v, w) == hash[v] = hash[w]

(* The for loop over methodClass.methods() that breaks at the first       *)
(* method whose name Symbol is == methodName, a hash comparison; Nil when *)
(* none is, or when findClassNamed found no class (lines 111-139).        *)
FindMethod(owner, v) ==
  LET hits == IF owner \in DOMAIN Library
              THEN {i \in DOMAIN Library[owner] : SameSymbol(Library[owner][i], v)}
              ELSE {}
  IN IF hits = {} THEN Nil ELSE [owner |-> owner, name |-> Library[owner][Min(hits)]]

(* The methodDef of each compilation unit of class file f.                 *)
ClassUnits(f) ==
  [k \in DOMAIN Steps(f) |->
     FindMethod(MethodClass(Steps(f)[k].node, Steps(f)[k].m), Steps(f)[k].m.name)]

(* The method names Symbol::fromView interned before the k-th compiled   *)
(* method of class file f.                                                  *)
MethodNamesBefore(f, k) == {Steps(f)[j].m.name : j \in 1..k - 1}

(* The class-file loop stops the server: a debug build at                  *)
(* assert(!classDef.isNil()), at the assert in addSymbol when fromView     *)
(* interns a colliding method name, or at assert(false) for a nil          *)
(* methodDef; a release build only by dereferencing the nil methodDef     *)
(* (methodDef.ownerClass() in addCompilationUnit).                          *)
ClassLoopCrashes(f) ==
  \/ /\ ~ndebug
     /\ \/ \E k \in DOMAIN ClassNodes[f] :
             [class |-> ClassNodes[f][k].name, meta |-> FALSE] \notin DOMAIN Library
        \/ \E k \in DOMAIN Steps(f) :
             InternCollides(Steps(f)[k].m.name, symbols \cup MethodNamesBefore(f, k))
  \/ \E k \in DOMAIN Steps(f) : ClassUnits(f)[k] = Nil

(* The interpreter context, the methodDef of a script's one unit.          *)
InterpreterContext == "interpreterContext"

(* Parsed cleanly: the methodDefs of the units, one per compiled method of *)
(* a class file, or the interpreter context for a script.                  *)
UnitsOf(f) == IF IsClassFile[f] THEN ClassUnits(f) ELSE <<InterpreterContext>>

(* HadronServer::hadronCompilationDiagnostics: parse as a class file or a  *)
(* script, compile every unit with addCompilationUnit and send them all.   *)
HadronCompilationDiagnostics ==
  /\ MayRequest
  /\ \E f \in Files, stop \in StopPoints :
       /\ Receive([kind |-> "diagnostics", file |-> f, stopAfter |-> stop])
       /\ \/ ReadFailure(f) /\ UNCHANGED <<symbols, stagesRun, units, crashed>>
          \/ LexStops(f) /\ UNCHANGED <<symbols, stagesRun, units, crashed>>
          \/ /\ Lexed(f)
             /\ FileOutcome[f] = "parseError"
             /\ errors' = TRUE
             /\ UNCHANGED <<symbols, responses, stagesRun, units, crashed>>
          \/ /\ Lexed(f)
             /\ FileOutcome[f] = "ok"
             /\ IsClassFile[f] /\ ClassLoopCrashes(f)
             /\ crashed' = TRUE
             /\ UNCHANGED <<symbols, errors, responses, stagesRun, units>>
          \/ /\ Lexed(f)
             /\ FileOutcome[f] = "ok"
             /\ ~(IsClassFile[f] /\ ClassLoopCrashes(f))
             /\ stagesRun' = stagesRun @@ (nextId :> StagesFor(stop))
             /\ units' = units @@ (nextId :> UnitsOf(f))
             /\ symbols' = IF IsClassFile[f]
                           THEN symbols \cup MethodNamesBefore(f, Len(Steps(f)) + 1)
                           ELSE symbols
             /\ Respond(nextId, "diagnostics")
             /\ UNCHANGED <<errors, crashed>>
  /\ UNCHANGED <<ndebug, hash, mState>>

Next == Initialize \/ SemanticTokensFull \/ HadronCompilationDiagnostics

Spec == Init /\ [][Next]_vars

-----------------------------------------------------------------------------
TypeOK ==
  /\ mState \in {"kUninitialized", "kRunning"}
  /\ errors \in BOOLEAN
  /\ nextId \in 1..MaxRequests + 1
  /\ DOMAIN log = 1..nextId - 1 /\ \A i \in DOMAIN log : log[i] \in Request
  /\ responses \subseteq [id : Ids \cup {NullId}, kind : Kinds]
  /\ DOMAIN stagesRun \subseteq DOMAIN log
  /\ \A i \in DOMAIN stagesRun : stagesRun[i] \subseteq Stages
  /\ DOMAIN units = DOMAIN stagesRun
  /\ \A i \in DOMAIN units :
       IF IsClassFile[log[i].file]
       THEN units[i] \in Seq([owner : Owners, name : MethodNames])
       ELSE units[i] = <<InterpreterContext>>
  /\ ndebug \in BOOLEAN
  /\ hash \in [MethodNames -> Hashes]
  /\ symbols \subseteq MethodNames
  /\ crashed \in BOOLEAN

(* A diagnostics request for a script that reads, lexes and parses        *)
(* cleanly gets its diagnostics, whatever requests came before it; the    *)
(* shared ErrorReporter is never cleared between requests.  (A script     *)
(* never enters the class-file loop, so nothing but an earlier error can  *)
(* keep its answer back.)                                                  *)
CleanFileGetsDiagnostics ==
  \A i \in DOMAIN log :
    /\ log[i].kind = "diagnostics"
    /\ FileOutcome[log[i].file] = "ok"
    /\ ~IsClassFile[log[i].file]
    => [id |-> i, kind |-> "diagnostics"] \in responses

(* In a build with asserts, every unit a class file's diagnostics carry   *)
(* is compiled against the library method its source method defines: the  *)
(* metaclass's for a class method, the class's otherwise, found under the *)
(* method's own name although the lookup compares only hashes; every       *)
(* non-primitive method of every class node has its unit and no primitive  *)
(* does.                                                                    *)
UnitsCompileTheirMethods ==
  ~ndebug =>
    \A i \in DOMAIN units : IsClassFile[log[i].file] =>
      LET methodDefs(n) ==
            {[owner |-> [class |-> n.name, meta |-> m.classMethod], name |-> m.name] :
               m \in {x \in ToSet(n.methods) : ~x.primitive}}
      IN ToSet(units[i]) = UNION {methodDefs(n) : n \in ToSet(ClassNodes[log[i].file])}

=============================================================================
