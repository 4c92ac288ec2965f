----------------------------- MODULE HttpRule -----------------------------
(* Package internal/httprule: the parser of HttpRule path templates and    *)
(* the matcher of paths against them.  A text is the sequence of its       *)
(* characters; the alphabet has one letter of each class the parser tells  *)
(* apart.                                                                  *)
(*                                                                         *)
(*   Template = "/" Segments [ Verb ] ;                                    *)
(*   Segments = Segment { "/" Segment } ;                                  *)
(*   Segment  = "*" | "**" | LITERAL | Variable ;                          *)
(*   Variable = "{" FieldPath [ "=" Segments ] "}" ;                       *)
EXTENDS Naturals, Integers, Sequences, SequencesExt, FiniteSetsExt, Functions

Alphas == {"a", "b", "c"}
Alphanums == Alphas \cup {"1", "_"}
pchars == Alphanums \cup {".", "*", "=", ":"}

Wildcard == [kind |-> "wildcard", value |-> <<>>, fp |-> <<>>, segs |-> <<>>]
DeepWildcard == [Wildcard EXCEPT !.kind = "deepWildcard"]
Literal(v) == [Wildcard EXCEPT !.kind = "literal", !.value = v]
Variable(fp, segs) == [Wildcard EXCEPT !.kind = "variable", !.fp = fp, !.segs = segs]

\* A parsing step yields a value and the next position, or no value.
Failed(p) == [ok |-> FALSE, v |-> <<>>, p |-> p]
Parsed(v, p) == [ok |-> TRUE, v |-> v, p |-> p]
currentChar(s, p) == IF p > Len(s) THEN "" ELSE s[p]

\* The end of the run of characters of a set that starts at p.
RunEnd(s, p, set) == CHOOSE q \in p..(Len(s) + 1) :
                       /\ \A i \in p..(q - 1) : s[i] \in set
                       /\ currentChar(s, q) \notin set

parseLiteral(s, p) ==
  LET q == RunEnd(s, p, pchars) IN
  IF q = p THEN Failed(p) ELSE Parsed(SubSeq(s, p, q - 1), q)

parseIdent(s, p) ==
  LET q == RunEnd(s, p, Alphanums) IN
  IF currentChar(s, p) \notin Alphas THEN Failed(p) ELSE Parsed(SubSeq(s, p, q - 1), q)

RECURSIVE parseFieldPath(_, _)
parseFieldPath(s, p) ==
  LET From(ident, rest) ==
        IF ~ident.ok THEN Failed(p)
        ELSE IF currentChar(s, ident.p) # "." THEN Parsed(<<ident.v>>, ident.p)
        ELSE IF rest.ok THEN Parsed(<<ident.v>> \o rest.v, rest.p) ELSE Failed(p)
      FromIdent(ident) == From(ident, parseFieldPath(s, ident.p + 1))
  IN FromIdent(parseIdent(s, p))

RECURSIVE parseSegments(_, _)

parseVariableSegment(s, p) ==
  LET From(fp, segs) ==
        IF fp.ok /\ segs.ok /\ currentChar(s, segs.p) = "}" THEN Parsed(Variable(fp.v, segs.v), segs.p + 1) ELSE Failed(p)
      FromPath(fp) ==
        From(fp, IF currentChar(s, fp.p) = "=" THEN parseSegments(s, fp.p + 1) ELSE Parsed(<<Wildcard>>, fp.p))
  IN FromPath(parseFieldPath(s, p + 1))

parseSegment(s, p) ==
  LET lit == parseLiteral(s, p) IN
  CASE currentChar(s, p) = ""  -> Failed(p)
    [] currentChar(s, p) = "*" -> IF currentChar(s, p + 1) = "*" THEN Parsed(DeepWildcard, p + 2) ELSE Parsed(Wildcard, p + 1)
    [] currentChar(s, p) = "{" -> parseVariableSegment(s, p)
    [] OTHER                   -> IF lit.ok THEN Parsed(Literal(lit.v), lit.p) ELSE Failed(p)

\* A slash that ends the text is refused.
parseSegments(s, p) ==
  LET From(seg, rest) ==
        IF ~seg.ok THEN Failed(p)
        ELSE IF currentChar(s, seg.p) # "/" THEN Parsed(<<seg.v>>, seg.p)
        ELSE IF seg.p + 1 <= Len(s) /\ rest.ok THEN Parsed(<<seg.v>> \o rest.v, rest.p) ELSE Failed(p)
      FromSegment(seg) == From(seg, parseSegments(s, seg.p + 1))
  IN FromSegment(parseSegment(s, p))

-----------------------------------------------------------------------------
\* No nested variables, no variable twice, and ** only at the very end.
validate(segs) ==
  \A i \in 1..Len(segs) :
    /\ segs[i].kind = "variable" =>
         /\ \A j \in 1..(i - 1) : segs[j].kind = "variable" => segs[j].fp # segs[i].fp
         /\ \A j \in 1..Len(segs[i].segs) :
              LET k == segs[i].segs[j].kind IN
              k # "variable" /\ (k = "deepWildcard" => i = Len(segs) /\ j = Len(segs[i].segs))
    /\ segs[i].kind = "deepWildcard" => i = Len(segs)

NoTemplate == [ok |-> FALSE, segs |-> <<>>, verb |-> <<>>]

\* The position of the last colon of a literal, if it is not its first character.
VerbAt(v) == Max({0} \cup {i \in 2..Len(v) : v[i] = ":"})

\* parse: a last literal holds the verb, any other last segment is followed by it.
WithVerb(s, segs, last, colon, verb) ==
  IF last.kind = "literal"
  THEN IF colon = 0 THEN [ok |-> segs.p > Len(s), segs |-> segs.v, verb |-> <<>>]
       ELSE [ok |-> segs.p > Len(s), verb |-> SubSeq(last.value, colon + 1, Len(last.value)),
             segs |-> [segs.v EXCEPT ![Len(segs.v)] = Literal(SubSeq(last.value, 1, colon - 1))]]
  ELSE IF currentChar(s, segs.p) = ":"
  THEN [ok |-> verb.ok /\ verb.p > Len(s), segs |-> segs.v, verb |-> verb.v]
  ELSE [ok |-> segs.p > Len(s), segs |-> segs.v, verb |-> <<>>]
Parse(s) ==
  LET Validated(tpl) == IF tpl.ok /\ validate(tpl.segs) THEN tpl ELSE NoTemplate
      Template(segs) ==
        LET last == segs.v[Len(segs.v)] IN
        IF ~segs.ok THEN NoTemplate
        ELSE Validated(WithVerb(s, segs, last, VerbAt(last.value), parseLiteral(s, segs.p + 1)))
  IN IF currentChar(s, 1) # "/" THEN NoTemplate ELSE Template(parseSegments(s, 2))

FieldPaths(tpl) == [i \in 1..Len(SelectSeq(tpl.segs, LAMBDA g : g.kind = "variable")) |->
                      SelectSeq(tpl.segs, LAMBDA g : g.kind = "variable")[i].fp]

-----------------------------------------------------------------------------
\* strings.Split and strings.Join at slashes.
Split(s) == FoldLeft(LAMBDA parts, ch : IF ch = "/" THEN Append(parts, <<>>)
                                        ELSE [parts EXCEPT ![Len(parts)] = Append(@, ch)], <<<<>>>>, s)
Join(parts) == IF parts = <<>> THEN <<>> ELSE FoldLeft(LAMBDA s, part : s \o <<"/">> \o part, Head(parts), Tail(parts))

\* The matcher: components, a position, a stack of what the segments took, and the captured variables.
RECURSIVE handleAll(_, _)
handle(seg, m) ==
  LET nested == handleAll(seg.segs, m)
      n == Len(seg.segs)
      popped == SubSeq(nested.st, Len(nested.st) - n + 1, Len(nested.st))
  IN CASE ~m.ok -> m
       [] seg.kind = "wildcard" ->
            IF m.pos >= Len(m.components) THEN [m EXCEPT !.ok = FALSE]
            ELSE [m EXCEPT !.st = Append(@, m.components[m.pos + 1]), !.pos = @ + 1]
       [] seg.kind = "deepWildcard" ->
            [m EXCEPT !.st = Append(@, Join(SubSeq(m.components, m.pos + 1, Len(m.components)))), !.pos = Len(m.components)]
       [] seg.kind = "literal" ->
            IF m.pos >= Len(m.components) THEN [m EXCEPT !.ok = FALSE]
            ELSE IF m.components[m.pos + 1] # seg.value THEN [m EXCEPT !.ok = FALSE]
            ELSE [m EXCEPT !.st = Append(@, seg.value), !.pos = @ + 1]
       [] OTHER ->
            IF ~nested.ok THEN nested
            ELSE [nested EXCEPT !.st = SubSeq(@, 1, Len(@) - n), !.captured = @ \cup {<<seg.fp, Join(popped)>>}]
handleAll(segs, m) == FoldLeft(LAMBDA acc, seg : handle(seg, acc), m, segs)

NoMatch == [ok |-> FALSE, captured |-> {}]

\* Match: a verb is a proper suffix of the last component.
Match(tpl, path) ==
  LET parts == Split(Tail(path))
      last == parts[Len(parts)]
      suffix == <<":">> \o tpl.verb
      verbFits == Len(last) > Len(suffix) /\ IsSuffix(suffix, last)
      components == IF tpl.verb = <<>> THEN parts
                    ELSE [parts EXCEPT ![Len(parts)] = SubSeq(@, 1, Len(@) - Len(suffix))]
      m == handleAll(tpl.segs, [components |-> components, pos |-> 0, st |-> <<>>, captured |-> {}, ok |-> TRUE])
  IN IF path = <<>> \/ Head(path) # "/" THEN NoMatch
     ELSE IF tpl.verb # <<>> /\ ~verbFits THEN NoMatch
     ELSE IF m.ok /\ m.pos = Len(components) THEN [ok |-> TRUE, captured |-> m.captured] ELSE NoMatch

-----------------------------------------------------------------------------
(* The reference: a template laid flat matches a path of as many           *)
(* components, literal for literal, or of at least as many but one when it *)
(* ends with **; a variable is what its segments stand for.                *)
Flat(tpl) == FlattenSeq([i \in 1..Len(tpl.segs) |-> IF tpl.segs[i].kind = "variable" THEN tpl.segs[i].segs
                                                    ELSE <<tpl.segs[i]>>])
Start(tpl, i) == FoldLeft(LAMBDA n, g : n + (IF g.kind = "variable" THEN Len(g.segs) ELSE 1), 0, SubSeq(tpl.segs, 1, i - 1))
RefMatch(tpl, path) ==
  LET parts == Split(Tail(path))
      last == parts[Len(parts)]
      v == Len(tpl.verb)
      trimmed == IF v = 0 THEN parts ELSE [parts EXCEPT ![Len(parts)] = SubSeq(@, 1, Len(@) - v - 1)]
      verbFits == v = 0 \/ (Len(last) > v + 1 /\ SubSeq(last, Len(last) - v, Len(last)) = <<":">> \o tpl.verb)
      flat == Flat(tpl)
      n == Len(flat)
      deep == flat[n].kind = "deepWildcard"
      fits == IF deep THEN Len(trimmed) >= n - 1 ELSE Len(trimmed) = n
      Piece(i) == IF i = n /\ deep THEN Join(SubSeq(trimmed, n, Len(trimmed))) ELSE trimmed[i]
  IN IF ~verbFits \/ ~fits THEN NoMatch
     ELSE IF \E i \in 1..n : flat[i].kind = "literal" /\ trimmed[i] # flat[i].value THEN NoMatch
     ELSE [ok |-> TRUE,
           captured |-> {<<tpl.segs[i].fp, Join([j \in 1..Len(tpl.segs[i].segs) |-> Piece(Start(tpl, i) + j)])>> :
                           i \in {i \in 1..Len(tpl.segs) : tpl.segs[i].kind = "variable"}}]

\* The text a template stands for, with every variable's segments written out.
RECURSIVE Text(_)
SegText(g) == CASE g.kind = "wildcard" -> <<"*">> [] g.kind = "deepWildcard" -> <<"*", "*">> [] g.kind = "literal" -> g.value
                [] OTHER -> <<"{">> \o FoldLeft(LAMBDA s, id : s \o <<".">> \o id, Head(g.fp), Tail(g.fp))
                            \o <<"=">> \o Text(g.segs) \o <<"}">>
Text(segs) == Join([i \in 1..Len(segs) |-> SegText(segs[i])])
-----------------------------------------------------------------------------
(* Package internal/dat: the double array trie that knows which fields of  *)
(* a message an HttpRule has spoken for.  Field names are numbers, in the  *)
(* order of their spelling; the arrays hold 0 where nothing was written,   *)
(* and are as long as they need to be (they start with 64 entries).        *)

Read(array, i) == IF i \in DOMAIN array THEN array[i] ELSE 0
Write(array, i, v) == [j \in DOMAIN array \cup {i} |-> IF j = i THEN v ELSE array[j]]

\* fieldPaths.Less: the order of the paths.
RECURSIVE Less(_, _)
Less(p, q) ==
  IF p = <<>> \/ q = <<>> THEN q # <<>>
  ELSE IF Head(p) = Head(q) THEN Less(Tail(p), Tail(q)) ELSE Head(p) < Head(q)
Sorted(fps) == SortSeq(fps, Less)

\* newFieldDict: the code of a name is its rank among the names that occur.
newFieldDict(fps) ==
  LET names == UNION {{fps[i][j] : j \in 1..Len(fps[i])} : i \in 1..Len(fps)} IN
  [n \in names |-> Cardinality({k \in names : k < n})]

\* A node is a code, a depth and the range [left, right) of the paths below it.
\* fetch: the children of a node, in the order of their codes; 0 marks the end of a path.
fetch(dat, parent) ==
  LET code(i) == IF Len(dat.fps[i + 1]) > parent.depth THEN dat.dict[dat.fps[i + 1][parent.depth + 1]] + 1 ELSE 0
      paths == {i \in parent.left..(parent.right - 1) : Len(dat.fps[i + 1]) >= parent.depth}
      codes == SetToSortSeq({code(i) : i \in paths}, <)
      first(c) == Min({i \in paths : code(i) = c})
  IN [k \in 1..Len(codes) |->
        [code |-> codes[k], depth |-> parent.depth + 1, left |-> first(codes[k]),
         right |-> IF k = Len(codes) THEN parent.right ELSE first(codes[k + 1])]]

\* loopForBegin: from the last place that was free on, the first begin that no node has and where every
\* child finds a free place.
loopForBegin(dat, children) ==
  LET from == Max({children[1].code, dat.nextCheckPos - 1}) + 1
      Free(p) == Read(dat.check, p) = 0
      Fits(p) == LET begin == p - children[1].code IN
                 Free(p) /\ begin \notin dat.used /\ \A i \in 2..Len(children) : Free(begin + children[i].code)
      bound == from + Max({0} \cup DOMAIN dat.check) + 1
      pos == Min({p \in from..bound : Fits(p)})
      firstFree == Min({p \in from..pos : Free(p)})
      crowded == Cardinality({p \in from..pos : ~Free(p)}) >= pos - firstFree + 1
  IN [begin |-> pos - children[1].code, nextCheckPos |-> IF crowded THEN pos ELSE firstFree]

\* insert: the children's places are marked, then each child is built below its own begin.
RECURSIVE insert(_, _)
insertChild(dat, begin, child) ==
  LET below == fetch(dat, child)
      built == insert(dat, below)
  IN IF below = <<>> THEN [dat EXCEPT !.base = Write(@, begin + child.code, -child.left - 1)]
     ELSE [built.dat EXCEPT !.base = Write(@, begin + child.code, built.begin)]
insert(dat, children) ==
  LET l == loopForBegin(dat, children)
      marked == [dat EXCEPT !.used = @ \cup {l.begin}, !.nextCheckPos = l.nextCheckPos,
                            !.check = FoldLeft(LAMBDA c, n : Write(c, l.begin + n.code, l.begin), @, children)]
  IN [begin |-> l.begin, dat |-> FoldLeft(LAMBDA d, n : insertChild(d, l.begin, n), marked, children)]

Build(paths) ==
  LET fps == Sorted(paths)
      dat == [fps |-> fps, dict |-> newFieldDict(fps), base |-> [i \in {0} |-> 1], check |-> [i \in {0} |-> 0],
              used |-> {}, nextCheckPos |-> 0]
  IN insert(dat, fetch(dat, [code |-> 0, depth |-> 0, left |-> 0, right |-> Len(fps)])).dat

\* CommonPrefixSearch: follow the names until a path ends, or a name leads nowhere.
RECURSIVE searchFrom(_, _, _)
searchFrom(dat, b, path) ==
  LET ended == Read(dat.check, b) = b /\ Read(dat.base, b) < 0
      pos == b + dat.dict[Head(path)] + 1
  IN IF path = <<>> \/ ended THEN ended
     ELSE IF Head(path) \notin DOMAIN dat.dict \/ Read(dat.check, pos) # b THEN FALSE
     ELSE searchFrom(dat, Read(dat.base, pos), Tail(path))
CommonPrefixSearch(dat, path) == searchFrom(dat, Read(dat.base, 0), path)
=============================================================================
