------------------------------ MODULE Requests ------------------------------
(* How the invokers of service.rs find an operation in a document, fill in  *)
(* the address of a request and read the body of its answer.                *)
EXTENDS Naturals, Sequences, FiniteSets, SequencesExt

None     == "none"             \* no text
Nothing  == <<>>               \* no result
NoObject == [not |-> "object"]

-----------------------------------------------------------------------------
(* OpenAPI: paths in their order, each with the operation of each method,   *)
(* or NoObject where the document has something else than an object.        *)

Methods == <<"get", "post", "put", "patch", "delete", "options", "head">>
Operation(item, method) == IF method \in DOMAIN item THEN item[method] ELSE None

\* The search ends at the first path that is no object.
find_operation(paths, id) ==
    LET hits == {i \in DOMAIN paths : \E m \in ToSet(Methods) : Operation(paths[i].item, m) = id}
        bad  == {i \in DOMAIN paths : paths[i].item = NoObject}
        i    == Min(hits \cup bad)
        m    == Min({k \in DOMAIN Methods : Operation(paths[i].item, Methods[k]) = id})
    IN  IF hits \cup bad = {} \/ i \in bad THEN Nothing ELSE <<Methods[m], paths[i].path>>

-----------------------------------------------------------------------------
(* Templates: texts of characters with names in braces.                     *)

Braced(name) == <<"{">> \o name \o <<"}">>
Occurs(s, i, t) == i + Len(t) - 1 <= Len(s) /\ SubSeq(s, i, i + Len(t) - 1) = t
Has(s, t) == \E i \in DOMAIN s : Occurs(s, i, t)

\* Every occurrence, from the left (str::replace); t is not empty.
RECURSIVE Replace(_, _, _)

\* Mutant: the first occurrence only (str::replacen).
ReplaceFirst(s, t, with) ==
    IF ~Has(s, t) THEN s
    ELSE LET i == Min({k \in DOMAIN s : Occurs(s, k, t)})
         IN  SubSeq(s, 1, i - 1) \o with \o SubSeq(s, i + Len(t), Len(s))

Replace(s, t, with) ==
    IF s = <<>> THEN <<>>
    ELSE IF Occurs(s, 1, t) THEN with \o Replace(SubSeq(s, Len(t) + 1, Len(s)), t, with)
    ELSE <<s[1]>> \o Replace(Tail(s), t, with)

\* OpenAPI: a parameter that the path names is replaced in the server's url and
\* the path, in the order of a map; the others make the query.  The server's url
\* comes without slashes at its end.
path_and_query(server, path, order, values) ==
    LET named == SelectSeq(order, LAMBDA name : Has(path, Braced(name)))
    IN  [url   |-> FoldLeft(LAMBDA url, name : Replace(url, Braced(name), values[name]), server \o path, named),
         query |-> {name \in ToSet(order) : name \notin ToSet(named)}]

\* HTTP: each name in braces of the address that the workflow's input has, one
\* after the other, is replaced in all of what the address has become.
RECURSIVE expand_from(_, _, _, _)
expand_from(uri, i, out, input) ==
    LET ends == {k \in i + 1 .. Len(uri) : uri[k] = "}"}
        name == SubSeq(uri, i + 1, Min(ends) - 1)
    IN  IF i > Len(uri) THEN out
        ELSE IF uri[i] # "{" \/ ends = {} THEN expand_from(uri, i + 1, out, input)
        ELSE expand_from(uri, Min(ends) + 1,
                         IF name \in DOMAIN input THEN Replace(out, Braced(name), input[name]) ELSE out, input)
expand_uri_template(uri, input) == expand_from(uri, 1, uri, input)

-----------------------------------------------------------------------------
(* AsyncAPI: channels in their order, with the operation ids of publish and *)
(* subscribe and the path of an HTTP binding; "" filters nothing.           *)

resolve_asyncapi_operation(channels, id, channel) ==
    LET fits(i, kind) == /\ channel \in {"", channels[i].name}
                         /\ channels[i][kind] # None /\ id \in {"", channels[i][kind]}
        hits == {i \in DOMAIN channels : fits(i, "publish") \/ fits(i, "subscribe")}
        i    == Min(hits)
    IN  IF hits = {} THEN Nothing
        ELSE <<channels[i].name, IF fits(i, "publish") THEN "publish" ELSE "subscribe", channels[i].path>>

\* Where a message goes: the call's own address, else the first HTTP server with
\* the path of the channel, else a path made of the channel's name.
asyncapi_uri(override, servers, target) ==
    LET web == SelectSeq(servers, LAMBDA s : s.http)
    IN  IF override # "" THEN <<override>>
        ELSE IF web # <<>> THEN <<web[1].url, target[3]>> ELSE <<target[1], "/">>

-----------------------------------------------------------------------------
(* Bodies: what their bytes decode as, by content type and output mode.     *)

Bodies == [json : BOOLEAN, text : BOOLEAN]
deserialize_body(body, type) ==
    IF type = "json" THEN IF body.json THEN "value" ELSE None
    ELSE IF body.text THEN "text" ELSE None

shape_response(body, type, status, output) ==
    LET content == IF deserialize_body(body, type) = None THEN "null" ELSE deserialize_body(body, type)
    IN  IF output = "response" THEN <<"response", status, content>> ELSE <<"content", content>>

\* HTTP and OpenAPI calls have a third mode: the bytes themselves.
http_content(body, type, status, output) ==
    IF output = "raw" THEN <<"raw", body>> ELSE shape_response(body, type, status, output)

\* MCP: the texts of a result's content in lines, or the result if it has none.
mcp_content(items) ==
    LET texts == SelectSeq(items, LAMBDA item : item.type = "text" /\ item.text # None)
    IN  IF texts = <<>> THEN <<"result", items>> ELSE <<"text", [i \in DOMAIN texts |-> texts[i].text]>>

-----------------------------------------------------------------------------
\* The reference: all names replaced at once, each piece of the text once.
RECURSIVE AtOnce(_, _)
AtOnce(s, values) ==
    LET ends == {k \in DOMAIN s : s[k] = "}"}
        name == SubSeq(s, 2, Min(ends) - 1)
    IN  IF s = <<>> THEN <<>>
        ELSE IF s[1] = "{" /\ ends # {} /\ name \in DOMAIN values
             THEN values[name] \o AtOnce(SubSeq(s, Min(ends) + 1, Len(s)), values)
        ELSE <<s[1]>> \o AtOnce(Tail(s), values)

\* Braces in order: each one that opens closes before the next one opens, and
\* in a value each one that closes was opened in it.
Flat(s) == \A i \in DOMAIN s : s[i] = "{" =>
               \E k \in i + 1 .. Len(s) : s[k] = "}" /\ \A j \in i + 1 .. k - 1 : s[j] # "{"
Whole(s) == /\ Flat(s)
            /\ \A k \in DOMAIN s : s[k] = "}" =>
                  \E i \in 1 .. k - 1 : s[i] = "{" /\ \A j \in i + 1 .. k - 1 : s[j] # "}"

\* No value has the name of a parameter that is replaced behind it.
NoneTaken(names, values) ==
    \A i, j \in DOMAIN names : i < j => ~Has(values[names[i]], Braced(names[j]))

\* The names in braces of a template, in their order.
NamesIn(s) ==
    LET Name(i) == SubSeq(s, i + 1, i + Min({k \in DOMAIN s : k > i /\ s[k] = "}"}) - i - 1)
    IN  [n \in 1 .. Cardinality({i \in DOMAIN s : s[i] = "{"}) |->
            Name(CHOOSE i \in DOMAIN s : s[i] = "{" /\ n = Cardinality({k \in 1 .. i : s[k] = "{"}))]

\* Addresses are filled in as if at once, unless a value has the name of a
\* parameter in braces that is replaced behind it, and values without braces
\* leave no such name behind, in the server's url neither: the replacements of
\* service.rs are made one after the other, in all of what the address has become.
AddressFilled(server, template, values) ==
    (Flat(server \o template) /\ \A n \in DOMAIN values : Whole(values[n])) =>
        /\ NoneTaken(SelectSeq(NamesIn(template), LAMBDA n : n \in DOMAIN values), values) =>
              expand_uri_template(template, values) = AtOnce(template, values)
        /\ \A order \in SetToSeqs(DOMAIN values) :
              LET p == path_and_query(server, template, order, values)
                  named == SelectSeq(order, LAMBDA n : n \notin p.query)
              IN  /\ NoneTaken(named, values) =>
                        p.url = AtOnce(server \o template, Restrict(values, ToSet(named)))
                  /\ (\A n \in ToSet(named) : "{" \notin ToSet(values[n])) =>
                        \A n \in ToSet(named) : ~Has(p.url, Braced(n))

\* An operation that a document of objects has is found, and it is one that has
\* the id; in another document one found is the first of all.
OperationFound(paths, id) ==
    LET r == find_operation(paths, id)
        having == {i \in DOMAIN paths : \E m \in ToSet(Methods) : Operation(paths[i].item, m) = id}
    IN  /\ (\A i \in DOMAIN paths : paths[i].item # NoObject) => ((r # Nothing) = (having # {}))
        /\ r # Nothing => \E i \in having : paths[i].path = r[2] /\ Operation(paths[i].item, r[1]) = id
                                         /\ \A j \in having : i <= j

\* What is found fits both filters, and nothing is found only if nothing fits;
\* a message never goes elsewhere than to a given address.
ChannelFound(channels, id, channel, servers, override) ==
    LET r == resolve_asyncapi_operation(channels, id, channel)
        Fits(i, kind) == channels[i][kind] # None /\ channel \in {"", channels[i].name}
                         /\ id \in {"", channels[i][kind]}
    IN  /\ (r = Nothing) = \A i \in DOMAIN channels : \A kind \in {"publish", "subscribe"} : ~Fits(i, kind)
        /\ r # Nothing => /\ \E i \in DOMAIN channels : Fits(i, r[2]) /\ channels[i].name = r[1]
                          /\ override # "" => asyncapi_uri(override, servers, r) = <<override>>

=============================================================================
