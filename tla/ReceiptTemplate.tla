---------------------------- MODULE ReceiptTemplate ----------------------------
(***************************************************************************)
(* A receipt template on its way to a job: renderDocumentJson              *)
(* (dsl/src/pipeline.cpp) binds a document to the caller's model (bind,    *)
(* dsl/src/bind.cpp), and pd_print_document_json (capi/src/pd_capi.cpp)    *)
(* submits what came out.  The model of the caller is the input called     *)
(* `data' here.                                                            *)
(*                                                                         *)
(* A document is a sequence of blocks: a leaf that prints one path, `each' *)
(* over a path with a body, `if' and `unless' a path with a body.  An      *)
(* object maps names to values; a list holds objects.                      *)
(*                                                                         *)
(* Abstracted: what a leaf is (text, cells, qr, image) and its formatters. *)
(***************************************************************************)
EXTENDS Integers, Sequences, FiniteSets, SequencesExt

CONSTANTS
    MaxBlocks,   \* BindOptions::max_blocks
    MaxDepth     \* BindOptions::max_depth

VARIABLES
    doc,         \* [blocks, marked]: marked is "template": true
    data,        \* the caller's model, or NoData
    stage,       \* "given", "parsed", "bound", "refused", "printed"
    bound,       \* the blocks after binding, each with the value it prints
    notes        \* RenderReport: [kind, where]

vars == <<doc, data, stage, bound, notes>>

-----------------------------------------------------------------------------
(* Inputs *)

Leaf(p) == [k |-> "leaf", path |-> p, body |-> <<>>]
Group(k, p, body) == [k |-> k, path |-> p, body |-> body]

Leaves == {Leaf("a"), Leaf("@index")}
Bodies(blocks) == {<<b>> : b \in blocks} \cup {<<b, Leaf("a")>> : b \in blocks}
Groups(bodies) == {Group("each", "list", b) : b \in bodies}
                  \cup {Group(k, "a", b) : k \in {"if", "unless"}, b \in bodies}
Inner == Groups(Bodies(Leaves))
Blocks == Leaves \cup Inner \cup Groups(Bodies(Inner))

Text(id) == [t |-> "text", id |-> id, items |-> <<>>]
Falsy == [t |-> "null", id |-> "", items |-> <<>>]
List(items) == [t |-> "list", id |-> "", items |-> items]
Items == {<<>>, [a |-> Text("item")], [a |-> Falsy],
          [list |-> List(<<[a |-> Text("inner")]>>)]}
Lists == {List(<<>>)} \cup {List(<<o>>) : o \in Items}
         \cup {List(<<o, [a |-> Text("second")]>>) : o \in Items}
Objects == {<<>>} \cup {[a |-> v] : v \in {Text("root"), Falsy}}
           \cup {[list |-> v] : v \in Lists \cup {Text("scalar")}}
           \cup {[a |-> Text("root"), list |-> v] : v \in Lists}

NoData == [none |-> TRUE]

-----------------------------------------------------------------------------
(* bind *)

Scope(object, i, n) == [object |-> object, index |-> i, count |-> n]
Absent == [t |-> "absent", id |-> "", items |-> <<>>]

\* Mustache scoping: the nearest scope that knows the name owns it; scopes run outward.
Scoped(scopes, name) ==
    LET i == SelectInSeq(scopes, LAMBDA s : name \in DOMAIN s.object)
    IN  IF i = 0 THEN Absent ELSE scopes[i].object[name]

\* @index is the nearest iteration's.
Iteration(scopes) ==
    LET i == SelectInSeq(scopes, LAMBDA s : s.index >= 0)
    IN  IF i = 0 THEN Absent ELSE Text(ToString(scopes[i].index))

Resolve(scopes, path) == IF path = "@index" THEN Iteration(scopes) ELSE Scoped(scopes, path)

Truthy(v) == CASE v.t = "text" -> TRUE [] v.t = "list" -> v.items # <<>> [] OTHER -> FALSE

Noted(acc, kind, where) ==
    [acc EXCEPT !.report = Append(@, [kind |-> kind, where |-> where])]

\* bindLeaf: a missing path prints nothing and is declared; a structure prints as JSON
\* and is declared too.
BindLeaf(b, scopes, where, acc) ==
    LET v == Resolve(scopes, b.path)
        said == CASE v.t = "absent" -> Noted(acc, "MissingPath", where)
                  [] v.t = "list" -> Noted(acc, "UnformattableValue", where)
                  [] OTHER -> acc
    IN  [said EXCEPT !.out = Append(@, [where |-> where, value |-> v])]

TooDeep(acc, where) == Noted(acc, "MalformedTemplate", where)

Full(acc, limit) == Len(acc.out) >= limit

\* The limit is declared once.
Overflowed(acc, where) ==
    IF acc.over THEN acc ELSE [Noted(acc, "MalformedTemplate", where) EXCEPT !.over = TRUE]

RECURSIVE BindBlocks(_, _, _, _, _, _)
BindBlocks(blocks, scopes, where, depth, limits, acc0) ==
    LET At(i) == Append(where, i)
        Each(b, w, acc) ==
            LET v == Resolve(scopes, b.path)
                Item(a, i) == BindBlocks(b.body,
                                  <<Scope(v.items[i], i - 1, Len(v.items))>> \o scopes,
                                  Append(w, i), depth + 1, limits, a)
            IN  IF v.t # "list" THEN Noted(acc, "EmptyIteration", w)
                ELSE FoldLeftDomain(Item, acc, v.items)
        If(b, w, acc) ==
            IF Truthy(Resolve(scopes, b.path)) # (b.k = "unless")
            THEN BindBlocks(b.body, scopes, w, depth + 1, limits, acc) ELSE acc
        One(acc, i) ==
            LET b == blocks[i] IN
            CASE Full(acc, limits.blocks) -> Overflowed(acc, At(i))
              [] ~Full(acc, limits.blocks) /\ b.k = "each" -> Each(b, At(i), acc)
              [] ~Full(acc, limits.blocks) /\ b.k \in {"if", "unless"} -> If(b, At(i), acc)
              [] OTHER -> BindLeaf(b, scopes, At(i), acc)
    IN  IF depth > limits.depth THEN TooDeep(acc0, where)
        ELSE FoldLeftDomain(One, acc0, blocks)

Nothing == [out |-> <<>>, report |-> <<>>, over |-> FALSE]

Bind(blocks, object, limits) ==
    BindBlocks(blocks, <<Scope(object, -1, 0)>>, <<>>, 0, limits, Nothing)

Limits == [blocks |-> MaxBlocks, depth |-> MaxDepth]

-----------------------------------------------------------------------------
(* renderDocumentJson, pd_print_document_json *)

Init ==
    /\ doc \in [blocks : {<<b>> : b \in Blocks} \cup {<<b, Leaf("a")>> : b \in Blocks},
                marked : BOOLEAN]
    /\ data \in Objects \cup {NoData}
    /\ stage = "given" /\ bound = <<>> /\ notes = <<>>

\* A structural failure of the document throws, and the caller gets an error.
ParseFails ==
    /\ stage = "given" /\ stage' = "refused"
    /\ notes' = Append(notes, [kind |-> "MalformedTemplate", where |-> <<>>])
    /\ UNCHANGED <<doc, data, bound>>

Parse ==
    /\ stage = "given" /\ stage' = "parsed"
    /\ UNCHANGED <<doc, data, bound, notes>>

\* A template without a model is refused; any other document goes on as it is, its
\* control blocks left out by the layout and declared there.
Unbound == ~doc.marked

Unmodelled ==
    /\ stage = "parsed" /\ data = NoData
    /\ IF Unbound
       THEN /\ stage' = "bound"
            /\ bound' = [i \in DOMAIN doc.blocks |->
                            [where |-> <<i>>, value |-> [Absent EXCEPT !.t = doc.blocks[i].k]]]
            /\ notes' = notes \o [i \in 1..Len(SelectSeq(doc.blocks, LAMBDA b : b.k # "leaf"))
                                      |-> [kind |-> "UnsupportedBlock", where |-> <<i>>]]
       ELSE /\ stage' = "refused" /\ bound' = <<>>
            /\ notes' = Append(notes, [kind |-> "MalformedTemplate", where |-> <<>>])
    /\ UNCHANGED <<doc, data>>

\* The model's text is not JSON.
ModelRejected ==
    /\ stage = "parsed" /\ data # NoData /\ stage' = "refused"
    /\ notes' = Append(notes, [kind |-> "MalformedTemplate", where |-> <<>>])
    /\ UNCHANGED <<doc, data, bound>>

Binding ==
    /\ stage = "parsed" /\ data # NoData /\ stage' = "bound"
    /\ LET b == Bind(doc.blocks, data, Limits)
       IN  bound' = b.out /\ notes' = notes \o b.report
    /\ UNCHANGED <<doc, data>>

Submit ==
    /\ stage = "bound" /\ stage' = "printed"
    /\ UNCHANGED <<doc, data, bound, notes>>

Next == ParseFails \/ Parse \/ Unmodelled \/ ModelRejected \/ Binding \/ Submit

Spec == Init /\ [][Next]_vars

-----------------------------------------------------------------------------
Declared(kind) == \E i \in DOMAIN notes : notes[i].kind = kind

\* The expansion with no limit.
Whole == Bind(doc.blocks, data, [blocks |-> 1000, depth |-> 1000])

(***************************************************************************)
(* bind's limits: whatever the data, a bound document holds at most        *)
(* max_blocks blocks, in the order and with the values of the unlimited    *)
(* expansion, and anything that is missing from it has been declared.      *)
(***************************************************************************)
LimitsAreDeclared ==
    stage = "bound" /\ data # NoData =>
        /\ Len(bound) <= MaxBlocks
        /\ bound = SelectSeq(Whole.out, LAMBDA e : e \in ToSet(bound))
        /\ bound # Whole.out => Declared("MalformedTemplate")

(***************************************************************************)
(* Inside `each' an item's own field is what its body prints: a name of    *)
(* the item hides the same name further out, in nested lists too.          *)
(***************************************************************************)
ItemOwnsItsNames ==
    stage = "bound" /\ data # NoData =>
        \A i \in DOMAIN bound :
            /\ LET at == bound[i].where IN
               bound[i].value.id = "root" /\ Len(at) > 1 /\ doc.blocks[at[1]].k = "each" =>
                   "a" \notin DOMAIN data["list"].items[at[2]]
            /\ bound[i].value.t = "absent" =>
                  Cardinality({r \in DOMAIN notes :
                      notes[r].kind = "MissingPath" /\ notes[r].where = bound[i].where}) = 1

(***************************************************************************)
(* renderDocumentJson: a document that cannot be printed says so in the    *)
(* same report as its degradations, and a template that was given no model *)
(* does not reach the printer.                                             *)
(***************************************************************************)
RefusalIsDeclared ==
    /\ stage = "refused" => Declared("MalformedTemplate")
    /\ stage = "printed" /\ doc.marked => data # NoData
    /\ stage = "printed" /\ data = NoData =>
          \A i \in DOMAIN doc.blocks : doc.blocks[i].k # "leaf" => Declared("UnsupportedBlock")
=============================================================================
