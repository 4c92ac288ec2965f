------------------------------ MODULE Restful ------------------------------
(* Package restful: bindings are added to a router, and a request is       *)
(* routed to one of them, transcoded into the method's message, passed     *)
(* through the service's filters to the method, and answered.  A server    *)
(* on net/http ("std") routes by the trie, one on fasthttp ("fast") tries  *)
(* the bindings in turn, and a handler of the user's own may be wrapped    *)
(* around the first ("wrapped").                                           *)
EXTENDS HttpRule

CONSTANTS
  Bindings,     \* the bindings a service may register
  Requests,     \* the requests
  MaxBindings,
  Schema,       \* the message: a path of field names to its kind
  JSONNames,    \* the fields' JSON names, where they differ
  Ranks,        \* the names in the order of their spelling
  Accepted,     \* the values each kind of field parses
  httpStatusMap, OK, NoContent, InternalError

VARIABLES
  routerTrie,    \* a node, named by the segments that lead to it, to the binding that ends there
  transcoders,   \* the bindings in the order they were added
  req,           \* the request under way
  message,       \* what the method will get: a path of field names to its values
  reply          \* what the client gets
restfulVars == <<routerTrie, transcoders, req, message, reply>>

NoReply == [status |-> 0]
Init ==
  /\ routerTrie = <<>> /\ transcoders = <<>>
  /\ req = [pc |-> "none"] /\ message = <<>> /\ reply = NoReply

-----------------------------------------------------------------------------
\* splitPatternParts: at slashes outside braces.
splitPatternParts(s) ==
  FoldLeft(LAMBDA acc, ch :
             LET depth == CASE ch = "{" -> acc.depth + 1 [] ch = "}" -> acc.depth - 1 [] OTHER -> acc.depth IN
             IF ch = "/" /\ acc.depth = 0 THEN [acc EXCEPT !.parts = Append(@, <<>>)]
             ELSE [depth |-> depth, parts |-> [acc.parts EXCEPT ![Len(acc.parts)] = Append(@, ch)]],
           [depth |-> 0, parts |-> <<<<>>>>], s).parts

\* parsePattern: the segments of a pattern's text, for the trie.
WildcardTexts == {<<"*">>, <<"*", "*">>}
Static(v) == [typ |-> "static", value |-> v]
AnySegment(typ) == [typ |-> typ, value |-> <<>>]
parsePart(part) ==
  LET inner == SubSeq(part, 2, Len(part) - 1)
      eq == Min({Len(inner) + 1} \cup {i \in 2..Len(inner) : inner[i] = "="})
      nested == Split(SubSeq(inner, eq + 1, Len(inner)))
  IN IF part \in WildcardTexts THEN <<AnySegment("wildcard")>>
     ELSE IF Head(part) # "{" \/ Last(part) # "}" THEN <<Static(part)>>
     ELSE IF eq > Len(inner) THEN <<AnySegment("param")>>
     ELSE [i \in 1..Len(nested) |-> IF nested[i] \in WildcardTexts THEN AnySegment("wildcard") ELSE Static(nested[i])]
parsePattern(s) ==
  LET parts == SelectSeq(splitPatternParts(Tail(s)), LAMBDA p : p # <<>>) IN
  FlattenSeq([i \in 1..Len(parts) |-> parsePart(parts[i])])

Nodes(trie) == {<<>>} \cup UNION {{SubSeq(n, 1, k) : k \in 1..Len(n)} : n \in DOMAIN trie}

\* RouterTrie.dfs: a static child first, then the parameter, then the wildcard, which takes all the rest.
RECURSIVE dfs(_, _, _, _)
dfs(trie, node, parts, i) ==
  LET static == IF i <= Len(parts) THEN Append(node, Static(parts[i])) ELSE node
      param == Append(node, AnySegment("param"))
      wild == Append(node, AnySegment("wildcard"))
      byStatic == IF parts[i] # <<>> /\ static \in Nodes(trie) THEN dfs(trie, static, parts, i + 1) ELSE 0
      byParam == IF param \in Nodes(trie) THEN dfs(trie, param, parts, i + 1) ELSE 0
      byWild == IF wild \in Nodes(trie) THEN dfs(trie, wild, parts, Len(parts) + 1) ELSE 0
  IN IF i > Len(parts) THEN (IF node \in DOMAIN trie THEN trie[node] ELSE 0)
     ELSE IF byStatic # 0 THEN byStatic ELSE IF byParam # 0 THEN byParam ELSE byWild
search(trie, method, path) == dfs(trie, <<Static(method)>>, IF Len(path) = 1 THEN <<>> ELSE Split(Tail(path)), 1)

-----------------------------------------------------------------------------
\* newTranscoder: the fields that the pattern and the body speak for are kept in a trie of their own.
Ranked(fp) == [i \in 1..Len(fp) |-> Ranks[fp[i]]]
spokenFor(b) == [i \in 1..Len(FieldPaths(b.tpl)) |-> Ranked(FieldPaths(b.tpl)[i])]
                \o (IF b.body \in {<<>>, <<"*">>} THEN <<>> ELSE <<Ranked(<<b.body>>)>>)
newTranscoder(b) ==
  LET tr == [tpl |-> Parse(b.text), body |-> b.body, method |-> b.method, text |-> b.text] IN
  [tpl |-> tr.tpl, body |-> b.body, method |-> b.method, text |-> b.text,
   dat |-> IF spokenFor(tr) = <<>> THEN <<>> ELSE Build(spokenFor(tr))]

\* AddImplBinding: a later binding of the same shape takes the trie's node, not the list's place.
AddImplBinding(b) ==
  LET tr == newTranscoder(b) IN
  /\ req.pc = "none" /\ Len(transcoders) < MaxBindings /\ tr.tpl.ok
  /\ \A i \in 1..Len(transcoders) : <<transcoders[i].text, transcoders[i].method>> # <<b.text, b.method>>
  /\ transcoders' = Append(transcoders, tr)
  /\ routerTrie' = Write(routerTrie, <<Static(b.method)>> \o parsePattern(b.text), Len(transcoders) + 1)
  /\ UNCHANGED <<req, message, reply>>

Arrive(r) ==
  /\ req.pc = "none" /\ transcoders # <<>>
  /\ req' = [pc |-> "routing", r |-> r, tr |-> 0, captured |-> {}, filtered |-> 0]
  /\ message' = <<>> /\ reply' = NoReply
  /\ UNCHANGED <<routerTrie, transcoders>>

\* findTranscoder: the trie's choice if its pattern does match, else the first that matches.
Matching(method, path) ==
  {i \in 1..Len(transcoders) : transcoders[i].method = method /\ Match(transcoders[i].tpl, path).ok}
\* Mutant: the trie decides alone.
findTranscoderTrie(method, path) ==
  LET t == search(routerTrie, method, path) IN IF t \in Matching(method, path) THEN t ELSE 0
findInList(method, path) == IF Matching(method, path) = {} THEN 0 ELSE Min(Matching(method, path))
findTranscoder(method, path) ==
  LET t == search(routerTrie, method, path) IN
  IF t \in Matching(method, path) THEN t ELSE findInList(method, path)

\* DefaultErrorHandler: the status of the code, or the one the error carries.
statusCodeFromError(e) == IF e.status # 0 THEN e.status
                          ELSE IF e.code \in DOMAIN httpStatusMap THEN httpStatusMap[e.code] ELSE InternalError
\* serializerForTranscoding: what is accepted, else what was sent, else JSON; forms are answered in JSON.
respSerializer(r) == IF r.accept # "" THEN r.accept ELSE IF r.contentType # "" THEN r.contentType ELSE "json"
ContentTypeOf(s) == IF s = "form" THEN "json" ELSE s
Answers(status, code, encoding) ==
  reply' = [status |-> status, code |-> code, encoding |-> encoding, filtered |-> req.filtered,
            contentType |-> ContentTypeOf(respSerializer(req.r)), body |-> ContentTypeOf(respSerializer(req.r))]
ErrorHandler(e) == Answers(statusCodeFromError(e), e.code, "") /\ req' = [req EXCEPT !.pc = "done"]
ServerDecodeFail == [code |-> 1, status |-> 0]
ServerEncodeFail == [code |-> 2, status |-> 0]
ServerNoFunc == [code |-> 12, status |-> 0]

\* ServeHTTP and HandleRequestCtx; a wrapped handler takes what no binding matches, behind the filters.
Route ==
  LET path == req.r.path
      tr == IF req.r.server = "fast" THEN findInList(req.r.method, path) ELSE findTranscoder(req.r.method, path)
  IN /\ req.pc = "routing"
     /\ IF tr # 0
        THEN /\ req' = [req EXCEPT !.pc = "matched", !.tr = tr, !.captured = Match(transcoders[tr].tpl, path).captured]
             /\ UNCHANGED reply
        ELSE IF req.r.server = "wrapped"
        THEN req' = [req EXCEPT !.pc = "wrapped"] /\ UNCHANGED reply
        ELSE ErrorHandler(ServerNoFunc)
     /\ UNCHANGED <<routerTrie, transcoders, message>>

\* WrapHandlerWithServerFilters: the headers, the filters, then the user's handler.
WrappedHandler ==
  /\ req.pc = "wrapped"
  /\ \/ ErrorHandler(ServerDecodeFail)
     \/ /\ req' = [req EXCEPT !.pc = "done", !.filtered = @ + 1]
        /\ reply' = [status |-> OK, code |-> 0, encoding |-> "", filtered |-> req.filtered + 1, contentType |-> "own", body |-> "own"]
  /\ UNCHANGED <<routerTrie, transcoders, message>>

-----------------------------------------------------------------------------
\* fdByName: by JSON name, then by name.
fdByName(n) == IF n \in DOMAIN JSONNames THEN JSONNames[n] ELSE n
Spelled(path) == [i \in 1..Len(path) |-> fdByName(path[i])]

\* parseField: a scalar or an enum takes the texts of its kind only.
parseField(kind, value) == value \in Accepted[kind]

\* PopulateMessage: "notfound" for a field that is not there, "bad" for one that cannot take the values.
PopulateMessage(m, path, values) ==
  LET fd == Spelled(path)
      above == {SubSeq(fd, 1, k) : k \in 1..(Len(fd) - 1)}
      missing == {k \in 1..Len(fd) : SubSeq(fd, 1, k) \notin DOMAIN Schema}
      nonmsg == {k \in 1..(Len(fd) - 1) : k \notin missing /\ Schema[SubSeq(fd, 1, k)] # "message"}
      kind == Schema[fd]
      parsed == \A i \in 1..Len(values) : parseField(kind, values[i])
  IN CASE missing # {} /\ (nonmsg = {} \/ Min(missing) <= Min(nonmsg)) -> [err |-> "notfound", m |-> m]
       [] nonmsg # {} -> [err |-> "bad", m |-> m]
       [] kind = "list" -> IF parsed THEN [err |-> "", m |-> Write(m, fd, (IF fd \in DOMAIN m THEN m[fd] ELSE <<>>) \o values)]
                           ELSE [err |-> "bad", m |-> m]
       [] kind = "map" -> IF Len(values) = 2 /\ parsed THEN [err |-> "", m |-> Write(m, fd, values)] ELSE [err |-> "bad", m |-> m]
       [] OTHER -> IF Len(values) = 1 /\ parsed /\ kind # "message" THEN [err |-> "", m |-> Write(m, fd, values)]
                   ELSE [err |-> "bad", m |-> m]

\* setFieldMask: a PATCH of one field lists what it populates, if the message has its one mask.
setFieldMask(m, body) ==
  LET mask == {p \in DOMAIN Schema : Schema[p] = "mask" /\ Len(p) = 1} IN
  IF Cardinality(mask) # 1 THEN [err |-> "", m |-> m]
  ELSE IF <<body>> \notin DOMAIN Schema \/ Schema[<<body>>] # "message" THEN [err |-> "bad", m |-> m]
  ELSE [err |-> "", m |-> Write(m, CHOOSE p \in mask : TRUE,
                                SetToSortSeq({Ranked(p) : p \in {p \in DOMAIN m : Len(p) > 1 /\ p[1] = body}}, Less))]

\* transcodeBody: only where the rule names a body.  The body of a field is read into that field.
transcodeBody ==
  LET tr == transcoders[req.tr]
      r == req.r
      read == [p \in {IF tr.body = <<"*">> THEN p ELSE <<tr.body>> \o p : p \in DOMAIN r.body} |->
                 r.body[IF tr.body = <<"*">> THEN p ELSE Tail(p)]]
      masked == IF tr.method = "PATCH" /\ tr.body # <<"*">> THEN setFieldMask(read, tr.body) ELSE [err |-> "", m |-> read]
  IN /\ req.pc = "matched"
     /\ IF tr.body = <<>> THEN req' = [req EXCEPT !.pc = "body"] /\ UNCHANGED <<message, reply>>
        ELSE IF ~r.bodyReads \/ masked.err # "" THEN ErrorHandler(ServerDecodeFail) /\ UNCHANGED message
        ELSE req' = [req EXCEPT !.pc = "body"] /\ message' = masked.m /\ UNCHANGED reply
     /\ UNCHANGED <<routerTrie, transcoders>>

\* transcodeFieldValues: the variables of the path, in no order.
transcodeFieldValues ==
  LET done == FoldSet(LAMBDA c, acc : IF acc.err # "" THEN acc ELSE PopulateMessage(acc.m, c[1], <<c[2]>>),
                      [err |-> "", m |-> message], req.captured)
  IN /\ req.pc = "body"
     /\ IF done.err # "" THEN ErrorHandler(ServerDecodeFail) /\ UNCHANGED message
        ELSE req' = [req EXCEPT !.pc = "query"] /\ message' = done.m /\ UNCHANGED reply
     /\ UNCHANGED <<routerTrie, transcoders>>

\* transcodeQueryParams: not those the rule speaks for, and none at all when the body is everything.
Ignored(tr, key) == tr.dat # <<>> /\ CommonPrefixSearch(tr.dat, Ranked(key))
transcodeQuery(tr, m, keys) ==
  FoldLeft(LAMBDA acc, key :
             LET p == PopulateMessage(acc.m, key, req.r.query[key]) IN
             IF acc.err # "" \/ Ignored(tr, key) \/ (p.err = "notfound" /\ req.r.discard) THEN acc ELSE p,
           [err |-> "", m |-> m], keys)
transcodeQueryParams ==
  /\ req.pc = "query"
  /\ \E keys \in {q \in [1..Cardinality(DOMAIN req.r.query) -> DOMAIN req.r.query] : IsInjective(q)} :
       LET tr == transcoders[req.tr]
           done == IF tr.body = <<"*">> THEN [err |-> "", m |-> message] ELSE transcodeQuery(tr, message, keys)
       IN IF done.err # "" THEN ErrorHandler(ServerDecodeFail) /\ UNCHANGED message
          ELSE req' = [req EXCEPT !.pc = "ready"] /\ message' = done.m /\ UNCHANGED reply
  /\ UNCHANGED <<routerTrie, transcoders>>

\* transcoder.handle and transcodeResp, then DefaultResponseHandler: no body with 204.
Serve ==
  /\ req.pc = "ready"
  /\ req' = [req EXCEPT !.pc = "done", !.filtered = @ + 1]
  /\ \E e \in {req.r.outcome} :
       LET failed == e.code # 0 \/ ~req.r.encodes
           err == IF e.code # 0 THEN e ELSE ServerEncodeFail
           ct == ContentTypeOf(respSerializer(req.r))
       IN reply' = [status |-> IF failed THEN statusCodeFromError(err) ELSE IF e.status # 0 THEN e.status ELSE OK,
                    code |-> IF failed THEN err.code ELSE 0,
                    encoding |-> IF failed THEN "" ELSE req.r.acceptEncoding, filtered |-> req.filtered + 1,
                    contentType |-> ct, body |-> IF ~failed /\ e.status = NoContent THEN "" ELSE ct]
  /\ UNCHANGED <<routerTrie, transcoders, message>>

RestfulNext ==
  \/ \E b \in Bindings : AddImplBinding(b)
  \/ \E r \in Requests : Arrive(r)
  \/ Route \/ WrappedHandler \/ transcodeBody \/ transcodeFieldValues \/ transcodeQueryParams \/ Serve
Spec == Init /\ [][RestfulNext]_restfulVars

-----------------------------------------------------------------------------
(* A request finds a binding exactly when one of the bindings matches it   *)
(* by the template grammar, whatever the order they were added in and      *)
(* whatever the trie makes of them, and its variables are what the path    *)
(* has in their place (findTranscoder, RouterTrie, PathTemplate.Match).    *)
RoutesAreRight ==
  req.pc \notin {"none", "routing"} =>
    LET fits == {i \in 1..Len(transcoders) : transcoders[i].method = req.r.method /\ RefMatch(transcoders[i].tpl, req.r.path).ok} IN
    /\ (req.tr = 0) = (fits = {})
    /\ req.tr # 0 => req.tr \in fits /\ req.captured = RefMatch(transcoders[req.tr].tpl, req.r.path).captured
    /\ req.tr = 0 /\ reply.status # 0 /\ req.r.server # "wrapped" => reply.status = httpStatusMap[12]

(* The message that the method gets has the path's variables, whatever the *)
(* query says of the fields that the rule speaks for ("These fields will   *)
(* be ignored if they also present in http request query parameters",      *)
(* internal/dat/dat.go:16), as long as the query spells them as the rule   *)
(* does; and every other parameter, unless the body is everything.         *)
MessagesAreRight ==
  req.pc = "ready" =>
    LET tr == transcoders[req.tr]
        bound == {c[1] : c \in req.captured}
        aliased == \E key \in DOMAIN req.r.query : Spelled(key) # key
    IN /\ ~aliased => \A c \in req.captured : Schema[c[1]] # "list" => message[c[1]] = <<c[2]>>
       /\ \A key \in DOMAIN req.r.query :
            Spelled(key) \in DOMAIN Schema /\ tr.body # <<"*">> /\ ~(\E fp \in bound \cup {<<tr.body>>} : IsPrefix(fp, key)) =>
              Spelled(key) \in DOMAIN message /\ IsSuffix(req.r.query[key], message[Spelled(key)])
       /\ tr.body = <<"*">> => DOMAIN message \subseteq DOMAIN req.r.body \cup bound
=============================================================================
