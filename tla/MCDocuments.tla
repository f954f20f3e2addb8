---------------------------- MODULE MCDocuments -----------------------------
(***************************************************************************)
(* How a receipt becomes bytes: the JSON reader, the vocabulary of the     *)
(* receipt DSL, the binding of a template, the formatters and symbols, the *)
(* layout of text and rows, the page the printer's registers make of it,   *)
(* the Star transcoder and the raster encoder. They share no state: a      *)
(* behaviour is a behaviour of one of them, on every input within its      *)
(* bounds, and `part' says of which. The properties are the promises they  *)
(* all make; each component states its share.                              *)
(***************************************************************************)
EXTENDS Naturals, Sequences

VARIABLE part   \* which component this behaviour is of

\* ReceiptTemplate
VARIABLES doc, data, stage, bound, notes
\* ReceiptPage
VARIABLES features, phase, reg, core, memory, clear, line, cuts, blocksLeft
\* ReceiptLayout
VARIABLES input, laid
\* ReceiptVocabulary
VARIABLES json, read
\* ReceiptValues
VARIABLES given, text, todo, said
\* ReceiptJson
VARIABLES source, reading, edits
\* StarDocument
VARIABLES content, options, payload, dropped, built
\* RasterImage
VARIABLES request, packed, commands

\* Thousandths: around a half, a rounding that carries, a group of digits.
Amounts == {0, 4, 5, 449, 450, 500, 1499, 1500, 99500, 999499, 999500, 999999, 1234567,
            100050}

Binding == INSTANCE ReceiptTemplate WITH
    MaxBlocks <- 3, MaxDepth <- 1

Page == INSTANCE ReceiptPage WITH
    Width <- 20, HeadToCutter <- 3, MaxBlocks <- 2

Layout == INSTANCE ReceiptLayout WITH
    MaxText <- 4, Columns <- {1, 2, 3, 5}

Vocabulary == INSTANCE ReceiptVocabulary WITH
    Registered <- {"stamp"}, MaxNesting <- 1

Values == INSTANCE ReceiptValues WITH
    MaxData <- 7, MaxDataBytes <- 12, Body <- 2, Amounts <- Amounts,
    Years <- {0, 1, 1900, 1999, 2000, 2024}, MaxChain <- 2

Json == INSTANCE ReceiptJson WITH
    MaxText <- 5, MaxJsonDepth <- 2, MaxEdits <- 2

StarPayload == INSTANCE StarDocument WITH
    MaxCommands <- 2

Image == INSTANCE RasterImage WITH
    MaxWidth <- 5, MaxHeight <- 3, MaxPixels <- 5, Targets <- {1, 2, 3, 5}, MaxRows <- 6

bindingVars == <<doc, data, stage, bound, notes>>
pageVars == <<features, phase, reg, core, memory, clear, line, cuts, blocksLeft>>
layoutVars == <<input, laid>>
vocabularyVars == <<json, read>>
valuesVars == <<given, text, todo, said>>
jsonVars == <<source, reading, edits>>
starPayloadVars == <<content, options, payload, dropped, built>>
imageVars == <<request, packed, commands>>
vars == <<part, bindingVars, pageVars, layoutVars, vocabularyVars, valuesVars, jsonVars,
          starPayloadVars, imageVars>>

\* A component the behaviour is not of stands still.
BindingOff ==
    /\ doc = "off" /\ data = "off" /\ stage = "off" /\ bound = "off" /\ notes = "off"
PageOff ==
    /\ features = "off" /\ phase = "off" /\ reg = "off" /\ core = "off" /\ memory = "off"
    /\ clear = "off" /\ line = "off" /\ cuts = "off" /\ blocksLeft = "off"
LayoutOff ==
    /\ input = "off" /\ laid = "off"
VocabularyOff ==
    /\ json = "off" /\ read = "off"
ValuesOff ==
    /\ given = "off" /\ text = "off" /\ todo = "off" /\ said = "off"
JsonOff ==
    /\ source = "off" /\ reading = "off" /\ edits = "off"
StarPayloadOff ==
    /\ content = "off" /\ options = "off" /\ payload = "off" /\ dropped = "off"
    /\ built = "off"
ImageOff ==
    /\ request = "off" /\ packed = "off" /\ commands = "off"

-----------------------------------------------------------------------------
Init ==
    /\ part \in {"template", "page", "layout", "vocabulary", "values", "json", "star",
                "image"}
    /\ IF part = "template" THEN Binding!Init ELSE BindingOff
    /\ IF part = "page" THEN Page!Init ELSE PageOff
    /\ IF part = "layout" THEN Layout!Init ELSE LayoutOff
    /\ IF part = "vocabulary" THEN Vocabulary!Init ELSE VocabularyOff
    /\ IF part = "values" THEN Values!Init ELSE ValuesOff
    /\ IF part = "json" THEN Json!Init ELSE JsonOff
    /\ IF part = "star" THEN StarPayload!Init ELSE StarPayloadOff
    /\ IF part = "image" THEN Image!Init ELSE ImageOff

BindingOnly == UNCHANGED <<part, pageVars, layoutVars, vocabularyVars, valuesVars, jsonVars,
                            starPayloadVars, imageVars>>
PageOnly == UNCHANGED <<part, bindingVars, layoutVars, vocabularyVars, valuesVars, jsonVars,
                         starPayloadVars, imageVars>>
LayoutOnly == UNCHANGED <<part, bindingVars, pageVars, vocabularyVars, valuesVars, jsonVars,
                           starPayloadVars, imageVars>>
VocabularyOnly == UNCHANGED <<part, bindingVars, pageVars, layoutVars, valuesVars, jsonVars,
                               starPayloadVars, imageVars>>
ValuesOnly == UNCHANGED <<part, bindingVars, pageVars, layoutVars, vocabularyVars, jsonVars,
                           starPayloadVars, imageVars>>
JsonOnly == UNCHANGED <<part, bindingVars, pageVars, layoutVars, vocabularyVars, valuesVars,
                         starPayloadVars, imageVars>>
StarPayloadOnly == UNCHANGED <<part, bindingVars, pageVars, layoutVars, vocabularyVars,
                                valuesVars, jsonVars, imageVars>>
ImageOnly == UNCHANGED <<part, bindingVars, pageVars, layoutVars, vocabularyVars,
                          valuesVars, jsonVars, starPayloadVars>>

BindingSteps == part = "template" /\ Binding!Next /\ BindingOnly
PageSteps == part = "page" /\ Page!Next /\ PageOnly
LayoutSteps == part = "layout" /\ Layout!Next /\ LayoutOnly
VocabularySteps == part = "vocabulary" /\ Vocabulary!Next /\ VocabularyOnly
ValuesSteps == part = "values" /\ Values!Next /\ ValuesOnly
JsonSteps == part = "json" /\ Json!Next /\ JsonOnly
StarPayloadSteps == part = "star" /\ StarPayload!Next /\ StarPayloadOnly
ImageSteps == part = "image" /\ Image!Next /\ ImageOnly

Next ==
    \/ BindingSteps \/ PageSteps \/ LayoutSteps \/ VocabularySteps \/ ValuesSteps
    \/ JsonSteps \/ StarPayloadSteps \/ ImageSteps

Spec == Init /\ [][Next]_vars

-----------------------------------------------------------------------------
\* Done as asked, or declared: what a limit, a missing field, a cut chain of styles, an
\* unread key, a formatter that failed, a printer without the feature or a command without a
\* Star equivalent takes from the receipt is in the report, and nothing else is taken, except
\* the values that Page!ClampedInSilence and Vocabulary!DefaultInSilence name.
DeclaredOrDone ==
    /\ part = "template" => Binding!LimitsAreDeclared /\ Binding!RefusalIsDeclared
    /\ part = "page" => Page!AsAskedOrDeclared
    /\ part = "vocabulary" => Vocabulary!CascadeOrDeclared /\ Vocabulary!LeftoversAreNamed
    /\ part = "values" => Values!AppliedOrReported
    /\ part = "star" => StarPayload!MissingIsNamed

\* What is printed fits the paper: lines fit the area and the columns they were laid out for,
\* no cut clips the last line, and a flat image stays flat at every scale.
FitsThePaper ==
    /\ part = "page" => Page!LineFitsItsArea /\ Page!NothingIsClipped
    /\ part = "layout" => Layout!LinesFit
    /\ part = "image" => Image!FlatStaysFlat

\* What is written reads back as it was meant: by the parsers that read it again, by the
\* scanner of a symbol, by the reader of an amount or a date, by the Star printer.
ReadBackAsMeant ==
    /\ part = "template" => Binding!ItemOwnsItsNames
    /\ part = "layout" => Layout!DecodeResynchronises
    /\ part = "vocabulary" => Vocabulary!RereadsTheSame
    /\ part = "values" =>
       Values!ScansAsAsked /\ Values!ReadsBackRounded /\ Values!SameInstant
    /\ part = "json" =>
       Json!AcceptsExactlyJson /\ Json!WrittenReadsBack /\ Json!NamesAreUnique
    /\ part = "star" => StarPayload!ReadAsMeant

\* No glyph is lost in wrapping, no dot in scaling and no row in banding.
NothingLost ==
    /\ part = "layout" => Layout!NothingLostInWrapping
    /\ part = "image" => Image!FaintestInkSurvives /\ Image!BandsAreTheImage
=============================================================================
