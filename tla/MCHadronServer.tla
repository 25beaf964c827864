--------------------------- MODULE MCHadronServer ---------------------------
EXTENDS HadronServer

CONSTANTS h1, h2

(* One file of each outcome: a script and a class file that compile, one   *)
(* that cannot be read, one with a lexer error, one with a parse error, a  *)
(* class file with a method the compiled library lacks and one extending a *)
(* class the library lacks.                                                 *)
MCFiles == {"script", "class", "missing", "badLex", "badParse", "newMethod",
            "newClass"}

MCFileOutcome ==
  [f \in MCFiles |->
     CASE f = "missing" -> "unreadable"
       [] f = "badLex" -> "lexError"
       [] f = "badParse" -> "parseError"
       [] OTHER -> "ok"]

MCIsClassFile == [f \in MCFiles |-> f \in {"class", "newMethod", "newClass"}]

(* The AST only, the frame, the last stage before emission, and emission. *)
MCStopPoints == {kAST, kFrame, kResolution, kEmission}

MCClassNames == {"Foo", "Bar"}
MCMethodNames == {"new", "size", "value"}

(* Two hash values: "new", "size" and "value" may all collide.            *)
MCHashes == {h1, h2}

(* Foo has new and size, Meta_Foo has new: a class method new and an       *)
(* instance method new are different methods.                              *)
MCLibrary ==
  ([class |-> "Foo", meta |-> FALSE] :> <<"new", "size">>)
    @@ ([class |-> "Foo", meta |-> TRUE] :> <<"new">>)

Method(n, cm, p) == [name |-> n, classMethod |-> cm, primitive |-> p]

(* class: *new, size and a primitive new of Foo; newMethod: Foo's value,   *)
(* which the library lacks; newClass: a primitive of Bar.                  *)
MCClassNodes ==
  [f \in MCFiles |->
     CASE f = "class" ->
            <<[name |-> "Foo",
               methods |-> <<Method("new", TRUE, FALSE), Method("size", FALSE, FALSE),
                             Method("new", FALSE, TRUE)>>]>>
       [] f = "newMethod" ->
            <<[name |-> "Foo", methods |-> <<Method("value", FALSE, FALSE)>>]>>
       [] f = "newClass" ->
            <<[name |-> "Bar", methods |-> <<Method("size", FALSE, TRUE)>>]>>
       [] OTHER -> <<>>]
=============================================================================
