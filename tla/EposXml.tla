------------------------------ MODULE EposXml ------------------------------
(***************************************************************************)
(* The namespace-aware scanner that finds the ePOS <response> in a reply   *)
(* (parseResponse, core/src/epos.cpp).  A reply is a sequence of tags, cut *)
(* off anywhere; the tags are well nested as far as they go.  A tag is     *)
(* what parseStartTag reads of it: prefix, local name, xmlns declarations  *)
(* and the attribute that says whether the job succeeded.                  *)
(***************************************************************************)
EXTENDS Naturals, Sequences, FiniteSets, SequencesExt

CONSTANT MaxElements   \* elements in the reply

VARIABLES reply,       \* the tags received
          scan         \* what the scanner found: "none yet", or parseResponse's result

vars == <<reply, scan>>

Epos == "epos-print"
Soap == "soap"

\* xmlns declarations of an element: a prefix ("" for the default) and its URI, or nothing.
Declarations == {<<>>, <<"", Epos>>, <<"e", Epos>>, <<"e", Soap>>}

Tag(kind, prefix, local, xmlns, attribute) ==
    [kind |-> kind, prefix |-> prefix, local |-> local, xmlns |-> xmlns, attribute |-> attribute]
Elements(kind) ==
    {Tag(kind, "", "body", d, "") : d \in Declarations}
    \cup {Tag(kind, p, "response", d, a) : p \in {"", "e"}, d \in Declarations, a \in {"success", "e:success"}}
Noise == Tag("comment", "", "", <<>>, "")   \* a comment, <?xml ...?> or <!DOCTYPE ...>

-----------------------------------------------------------------------------
(* Replies *)

\* The elements open after the first n tags, outermost first.
RECURSIVE OpenAfter(_, _)
OpenAfter(r, n) ==
    IF n = 0 THEN <<>>
    ELSE LET before == OpenAfter(r, n - 1)
         IN  CASE r[n].kind = "open" -> Append(before, n)
               [] r[n].kind = "close" -> Front(before)
               [] OTHER -> before

Begun == Cardinality({i \in DOMAIN reply : reply[i].kind \in {"open", "self"}})

Init == reply = <<>> /\ scan = [at |-> "none yet"]

Receive ==
    /\ scan.at = "none yet"
    /\ \/ Begun < MaxElements /\ \E t \in Elements("open") \cup Elements("self") : reply' = Append(reply, t)
       \/ /\ OpenAfter(reply, Len(reply)) # <<>>
          /\ reply' = Append(reply, Tag("close", "", reply[Last(OpenAfter(reply, Len(reply)))].local, <<>>, ""))
       \/ Noise \notin {reply[i] : i \in DOMAIN reply} /\ reply' = Append(reply, Noise)
    /\ UNCHANGED scan

-----------------------------------------------------------------------------
(* parseResponse *)

\* The innermost scope that binds the prefix, or no URI at all.
Lookup(scopes, prefix) ==
    LET binding == {i \in DOMAIN scopes : scopes[i].xmlns # <<>> /\ scopes[i].xmlns[1] = prefix}
    IN  IF binding = {} THEN "" ELSE scopes[CHOOSE i \in binding : \A j \in binding : i >= j].xmlns[2]

Closed(scopes, tag) ==
    IF scopes # <<>> /\ Last(scopes).local = tag.local THEN Front(scopes) ELSE scopes

Found(tag) == [at |-> "parsed", success |-> tag.attribute = "success"]

RECURSIVE Scan(_, _, _)
Scan(r, i, scopes) ==
    IF i > Len(r) THEN [at |-> "not parsed"]
    ELSE LET tag == r[i]
             inner == Append(scopes, tag)
         IN  CASE tag.kind = "comment" -> Scan(r, i + 1, scopes)
               [] tag.kind = "close" -> Scan(r, i + 1, Closed(scopes, tag))
               [] OTHER ->
                    IF tag.local = "response" /\ Lookup(inner, tag.prefix) = Epos THEN Found(tag)
                    ELSE Scan(r, i + 1, IF tag.kind = "self" THEN Front(inner) ELSE inner)

ParseResponse ==
    /\ scan.at = "none yet"
    /\ scan' = Scan(reply, 1, <<>>)
    /\ UNCHANGED reply

Next == Receive \/ ParseResponse
Spec == Init /\ [][Next]_vars

-----------------------------------------------------------------------------
(* Properties *)

\* The URI an element's prefix stands for, by the rule of XML namespaces: the nearest of the
\* element and its ancestors that declares it.
Uri(i) ==
    LET around == Append(OpenAfter(reply, i - 1), i)
        declaring == {k \in DOMAIN around : /\ reply[around[k]].xmlns # <<>>
                                            /\ reply[around[k]].xmlns[1] = reply[i].prefix}
    IN  IF declaring = {} THEN ""
        ELSE reply[around[CHOOSE k \in declaring : \A m \in declaring : m <= k]].xmlns[2]

Responses == {i \in DOMAIN reply : /\ reply[i].kind \in {"open", "self"}
                                   /\ reply[i].local = "response" /\ Uri(i) = Epos}

\* The scanner reads the first element that is a response of the ePOS namespace, whatever
\* prefix the sender chose and whatever other vocabularies surround it, and takes its success
\* from an attribute that is not namespaced; without one nothing is parsed (parseResponse).
FindsTheResponse ==
    scan.at # "none yet" =>
        IF Responses = {} THEN scan.at = "not parsed"
        ELSE scan = Found(reply[CHOOSE i \in Responses : \A j \in Responses : i <= j])

=============================================================================
