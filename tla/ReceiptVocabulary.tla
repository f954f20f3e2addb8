--------------------------- MODULE ReceiptVocabulary ---------------------------
(***************************************************************************)
(* Reading and writing a receipt document: parseBlock, parseBody, Reader   *)
(* and blockToJson, and the cascade of named styles: Document::resolve and *)
(* applyChain (dsl/src/document.cpp).                                      *)
(*                                                                         *)
(* A block's JSON object maps keys to values: "v" (a value the key knows), *)
(* "dflt" (the default, written out), "odd" (of the right type, but        *)
(* nothing the key knows; of a style, a name nobody defined), "type" (of   *)
(* another type), or the blocks of a body.                                 *)
(*                                                                         *)
(* Abstracted: what the values are, styles to two attributes.              *)
(*                                                                         *)
(* Warned_Options is a faulty variant, kept to show that the properties    *)
(* can fail.                                                               *)
(***************************************************************************)
EXTENDS Integers, Sequences, FiniteSets, SequencesExt, TLC

CONSTANTS
    Registered,    \* block kinds a registered handler owns
    MaxNesting     \* the deepest block parseBlock accepts (32 in the code)

VARIABLES
    json,          \* what is read: [what, object | styles, ref]
    read           \* what became of it: [state, block, warned, again | resolved, reference, notes]

vars == <<json, read>>

-----------------------------------------------------------------------------
(* Blocks *)

\* The key that decides a block's kind, in the order they are tried.
Discriminators == <<"each", "if", "unless", "text", "columns", "divider", "feed", "cut",
                    "drawerKick", "raw", "qr", "barcode", "image">>
Control == {"each", "if", "unless"}

BodyKeys == {"block", "blocks"}
QrKeys == {"size", "ec", "align"}
BarcodeKeys == {"symbology", "height", "moduleWidth", "hri", "align"}
ImageKeys == {"width", "align", "dither"}
Options(kind) ==
    CASE kind \in {"text", "divider"} -> {"style"} [] kind = "qr" -> QrKeys
      [] kind = "barcode" -> BarcodeKeys [] kind = "image" -> ImageKeys [] OTHER -> {}

\* An unknown word is warned about for these, and is the default without a word elsewhere.
Words == {"ec", "symbology", "divider"}

KindOf(object) ==
    LET i == SelectInSeq(Discriminators, LAMBDA k : k \in DOMAIN object)
        custom == DOMAIN object \cap Registered
    IN  CASE i > 0 -> Discriminators[i] [] i = 0 /\ custom # {} -> "custom" [] OTHER -> "none"

\* parseCellWidth and parseBytes throw on what they do not know, others on another type.
Rejects(key, value) ==
    \/ key \in {"width", "raw"} /\ value \in {"odd", "type"}
    \/ key \in {"style", "columns", "feed", "cut", "image", "divider"} /\ value = "type"

\* Any name of a style is kept; Document::resolve reports the unknown one.
Value(object, key) ==
    IF key \in DOMAIN object /\ (object[key] = "v" \/ key = "style") THEN object[key] ELSE "dflt"

\* Reader::finish: the keys nobody took.
Warned_Options(object, taken) == {k \in DOMAIN object \ taken : k \notin {"align", "style"}}
Warned(object, taken) == DOMAIN object \ taken

Failure == [ok |-> FALSE, block |-> [kind |-> "none"], warned |-> {}]

RECURSIVE ParseBlock(_, _)
ParseBlock(object, depth) ==
    LET kind == KindOf(object)
        \* unless, when both are there, decides; reading `if' took it already.
        decided == IF kind = "if" /\ "unless" \in DOMAIN object THEN "unless" ELSE kind
        body == IF "block" \in DOMAIN object THEN <<object["block"]>> ELSE object["blocks"]
        inner == [i \in DOMAIN body |-> ParseBlock(body[i], depth + 1)]
        taken == {kind} \cup (IF kind = "if" THEN {"unless"} ELSE {})
                 \cup (IF kind \in Control THEN BodyKeys ELSE Options(kind))
        words == {k \in taken \cap Words \cap DOMAIN object : object[k] = "odd"}
    IN  CASE depth > MaxNesting \/ kind = "none" -> Failure
          [] depth <= MaxNesting /\ kind = "custom" ->
                [ok |-> TRUE, block |-> [kind |-> "custom", payload |-> object], warned |-> {}]
          [] depth <= MaxNesting /\ kind \in Control ->
                IF DOMAIN object \cap BodyKeys = {} \/ \E i \in DOMAIN inner : ~inner[i].ok
                THEN Failure
                ELSE [ok |-> TRUE,
                      block |-> [kind |-> decided, path |-> Value(object, decided),
                                 single |-> "block" \in DOMAIN object,
                                 body |-> [i \in DOMAIN inner |-> inner[i].block]],
                      warned |-> Warned(object, taken) \cup UNION {inner[i].warned : i \in DOMAIN inner}]
          [] OTHER ->
                IF \E k \in taken \cap DOMAIN object : Rejects(k, object[k]) THEN Failure
                ELSE [ok |-> TRUE,
                      block |-> [kind |-> kind,
                                 opts |-> [k \in {kind} \cup Options(kind) |-> Value(object, k)]],
                      warned |-> Warned(object, taken) \cup words]

\* blockToJson: three options are written only when they differ from the default.
Sparing == {"align", "style", "width"}

RECURSIVE BlockToJson(_)
BlockToJson(b) ==
    CASE b.kind = "custom" -> b.payload
      [] b.kind \in Control ->
            LET body == [i \in DOMAIN b.body |-> BlockToJson(b.body[i])]
            IN  (b.kind :> b.path) @@ IF b.single /\ Len(body) = 1 THEN [block |-> body[1]]
                                      ELSE [blocks |-> body]
      [] OTHER ->
            LET unset == {k \in Sparing \cap Options(b.kind) : b.opts[k] = "dflt"}
            IN  [k \in DOMAIN b.opts \ unset |-> b.opts[k]]

-----------------------------------------------------------------------------
(* Styles *)

Attributes == {"bold", "align"}

\* A style maps the attributes it sets to itself, so that a result names its origin.
Overlay(into, style) == style @@ into

\* acc: [into, visited, notes]
RECURSIVE ApplyChain(_, _, _)
ApplyChain(styles, name, acc) ==
    IF name \notin DOMAIN styles THEN [acc EXCEPT !.notes = @ \cup {"UnknownStyle"}]
    ELSE IF name \in acc.visited THEN [acc EXCEPT !.notes = @ \cup {"StyleCycle"}]
    ELSE LET seen == [acc EXCEPT !.visited = @ \cup {name}]
             up == IF styles[name].extends = "none" THEN seen
                   ELSE ApplyChain(styles, styles[name].extends, seen)
         IN  [up EXCEPT !.into = Overlay(@, [a \in styles[name].sets |-> name])]

Resolve(styles, ref) ==
    LET start == [into |-> <<>>, visited |-> {}, notes |-> {}]
        base == IF "default" \in DOMAIN styles THEN ApplyChain(styles, "default", start) ELSE start
        named == IF ref.name = "none" THEN base ELSE ApplyChain(styles, ref.name, base)
        inline == IF ref.extends = "none" THEN named ELSE ApplyChain(styles, ref.extends, named)
    IN  [inline EXCEPT !.into = [a \in ref.sets |-> "inline"] @@ @]

\* The reference: every chain from its farthest ancestor, each named once per chain.
RECURSIVE Ancestry(_, _, _)
Ancestry(styles, name, seen) ==
    IF name \notin DOMAIN styles \/ name \in seen THEN <<>>
    ELSE Append(Ancestry(styles, styles[name].extends, seen \cup {name}), name)
Cascade(styles, ref) ==
    LET order == Ancestry(styles, "default", {}) \o Ancestry(styles, ref.name, {})
                 \o Ancestry(styles, ref.extends, {})
        Sets(a) == {i \in DOMAIN order : a \in styles[order[i]].sets}
        Latest(a) == CHOOSE i \in Sets(a) : \A j \in Sets(a) : j <= i
    IN  [a \in ref.sets |-> "inline"]
        @@ [a \in {b \in Attributes : Sets(b) # {}} |-> order[Latest(a)]]

-----------------------------------------------------------------------------
Leaf(k) == (k :> "v")
Values == {"v", "dflt", "odd", "type"}
Numbers == {"size", "height", "moduleWidth"}     \* any number is one the key knows
Tried == [text |-> {"style", "zz"}, divider |-> {"style", "zz"}, qr |-> {"size", "ec", "align", "zz"},
          barcode |-> {"symbology", "height", "hri", "align"}, image |-> {"width", "align", "dither"}]
WithOptions(keys) == {o \in UNION {[ks -> Values] : ks \in SUBSET keys} :
                          \A k \in DOMAIN o \cap Numbers : o[k] # "odd"}
Objects ==
    UNION {{(k :> v) @@ o : v \in {"v", "type"}, o \in WithOptions(Tried[k])} : k \in DOMAIN Tried}
    \cup {[k \in ks |-> "v"] : ks \in SUBSET {"columns", "feed", "cut", "drawerKick", "raw", "stamp", "zz"}}
    \cup {(k :> v) : k \in {"divider", "columns", "feed", "cut", "drawerKick", "raw"}, v \in {"type"}}
    \cup {(k :> v) : k \in {"divider", "feed", "cut", "drawerKick", "raw"}, v \in {"odd"}}
    \cup {(k :> "type") @@ [block |-> Leaf("text")] : k \in Control}
Small == {Leaf("text"), [text |-> "v", zz |-> "v"], Leaf("zz"), [cut |-> "v", stamp |-> "v"]}
Bodies == {[block |-> b] : b \in Small} \cup {[blocks |-> bs] : bs \in {<<>>} \cup {<<a, b>> : a \in Small, b \in Small}}
          \cup {[block |-> a, blocks |-> <<b>>] : a \in Small, b \in Small} \cup {<<>>}
Groups == {[k \in ks |-> "v"] @@ b : ks \in (SUBSET (Control \cup {"style"})) \ {{}, {"style"}}, b \in Bodies}
Nested == {(k :> "v") @@ [block |-> g] : k \in Control, g \in {h \in Groups : DOMAIN h \cap Control = {"if"}}}

Names == {"default", "a", "b"}
StyleTables == UNION {[ns -> [extends : Names \cup {"none", "zz"}, sets : {{}, {"bold"}}]
                              \cup [extends : {"none", "a"}, sets : {{"align"}}]] : ns \in SUBSET Names}
Refs == [name : {"none", "a", "b"}, extends : {"none", "a", "b"}, sets : {{}, {"align"}}]

NotRead == [state |-> "pending"]

Init ==
    /\ \/ json \in [what : {"block"}, object : Objects \cup Groups \cup Nested]
       \/ json \in [what : {"style"}, styles : StyleTables, ref : Refs]
    /\ read = NotRead

ReadBlock ==
    /\ json.what = "block" /\ read.state = "pending"
    /\ LET p == ParseBlock(json.object, 0)
       IN  read' = [state |-> IF p.ok THEN "read" ELSE "rejected", block |-> p.block, warned |-> p.warned,
                    again |-> IF p.ok THEN ParseBlock(BlockToJson(p.block), 0) ELSE p]
    /\ UNCHANGED json

ResolveStyle ==
    /\ json.what = "style" /\ read.state = "pending"
    /\ LET r == Resolve(json.styles, json.ref)
       IN  read' = [state |-> "resolved", into |-> r.into, notes |-> r.notes]
    /\ UNCHANGED json

Next == ReadBlock \/ ResolveStyle

Spec == Init /\ [][Next]_vars

-----------------------------------------------------------------------------
(***************************************************************************)
(* serializeDocument and parseDocument: a block written out and read back  *)
(* is the same block, and reading it back warns of nothing.                *)
(***************************************************************************)
RereadsTheSame ==
    read.state = "read" /\ read.block.kind # "custom" =>
        read.again.ok /\ read.again.block = read.block /\ read.again.warned = {}

(***************************************************************************)
(* Document::resolve: an attribute comes from the nearest style that sets  *)
(* it (inline, then the named style and its ancestors, then the default    *)
(* and its ancestors), or the report says that a chain was cut.            *)
(***************************************************************************)
CascadeOrDeclared ==
    read.state = "resolved" =>
        \/ read.into = Cascade(json.styles, json.ref)
        \/ read.notes # {}

\* Where the code takes the default and says nothing: an unknown word of an alignment, of
\* a symbol's text, of a dithering or of a cut, an object of a feed or a drawer kick
\* without a key they know, and an option, a text or a path of another type.
DefaultInSilence(k, v) ==
    \/ v = "odd" /\ k \in {"align", "hri", "dither", "cut", "feed", "drawerKick"}
    \/ v = "type" /\ k \in {"align", "hri", "dither", "ec", "symbology", "drawerKick",
                            "text", "qr", "barcode"} \cup Numbers \cup Control

(***************************************************************************)
(* Reader: "anything left over can be reported rather than silently        *)
(* ignored": a key of a block is warned of, or its value is part of what   *)
(* was read just as it stands, in the blocks of a body too, and a          *)
(* registered kind never hides a built-in one.  The exceptions are the two *)
(* pairs read together, `if' beside `unless' and `blocks' beside `block',  *)
(* and the values of DefaultInSilence.                                     *)
(***************************************************************************)
LeftoversAreNamed ==
    read.state = "read" /\ read.block.kind # "custom" =>
        LET b == read.block
            TakenOver(k) ==
                CASE k \in BodyKeys -> b.kind \in Control
                                      /\ (b.single = (k = "block") \/ "block" \in DOMAIN json.object)
                  [] k \notin BodyKeys /\ b.kind \in Control ->
                        \/ k = b.kind /\ (b.path = json.object[k] \/ DefaultInSilence(k, json.object[k]))
                        \/ k = "if" /\ b.kind = "unless"
                  [] OTHER -> /\ k \in DOMAIN b.opts
                              /\ b.opts[k] = json.object[k] \/ DefaultInSilence(k, json.object[k])
        IN  \A k \in DOMAIN json.object \ read.warned : TakenOver(k)
=============================================================================
