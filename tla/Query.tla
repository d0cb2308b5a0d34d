-------------------------------- MODULE Query --------------------------------
(* The query executor (internal/query/query.go): filters evaluated over one  *)
(* collection page by page, with continuation tokens, an index seed or a     *)
(* full scan, cancellation, and writers and schema registrations that run    *)
(* beside it, and the ways in: the server's Query handler, which converts    *)
(* and bounds the wire filter (internal/server/server.go), and the Go SDK.   *)
(* A query changes no database state, so one client is enough: several would *)
(* not see each other.  Committed writes are single steps here               *)
(* and an index lookup is exact, as EngineProofs shows for values that do    *)
(* not continue each other with the separator byte.                          *)
EXTENDS Integers, Sequences, FiniteSetsExt, Vocabulary

CONSTANTS Keys,       \* raw primary keys, in byte order
          Fields,     \* fields of the message type
          Indexed,    \* the collection's indexed fields
          Vals,       \* the values a literal parses to; other literals do not parse
          Docs,       \* the documents writers store
          Wire,       \* wire filters, closed under sub-filters
          Height,     \* how deep a wire filter is nested
          Asked,      \* the wire filters clients send
          Sizes,      \* the page sizes clients ask for
          Limit,      \* DefaultResultLimit
          MaxDepth,   \* maxFilterDepth
          MaxPredicates,  \* maxFilterPredicates
          MaxGen,     \* bound on schema registrations
          None

Group == {"and", "or"}

ASSUME QueryAssumption ==
  /\ Keys \subseteq Nat \ {0} /\ Sizes \subseteq Int /\ MaxGen \in Nat
  /\ Limit \in Nat \ {0} /\ MaxDepth \in Nat \ {0} /\ MaxPredicates \in Nat \ {0}
  /\ Vals \subseteq Int /\ Docs \subseteq [Fields -> Vals] /\ Indexed \subseteq Fields
  /\ None \notin Docs
  /\ Asked \subseteq Wire

\* A wire filter is a finite tree: "nil", a node that is not set, a comparison,
\* or a group of wire filters.
ASSUME WireAssumption ==
  /\ \A f \in Wire : Height[f] \in Nat
  /\ \A f \in Wire :
       \/ f \in [t : {"nil", "unset"}]
       \/ f.t = "cmp" /\ f = [t |-> f.t, field |-> f.field, op |-> f.op, value |-> f.value]
       \/ /\ f.t \in Group /\ f = [t |-> f.t, fs |-> f.fs] /\ f.fs \in Seq(Wire)
          /\ \A i \in DOMAIN f.fs : Height[f.fs[i]] < Height[f]

VARIABLES docs,    \* the committed collection
          gen,     \* generation of the registry's descriptors
          q,       \* the page request being served
          tok,     \* the token of the client's last page, None at the start and the end
          acc,     \* history: the keys of the traversal's earlier pages
          trav,    \* history: the traversal's filter
          stable   \* history: keys that have matched it ever since it began

vars == <<docs, gen, q, tok, acc, trav, stable>>

Idle == [stage |-> "idle"]
------------------------------------------------------------------------------
(* Wire filters.  Converting one yields an executor's filter and what is     *)
(* left of the budget, or a refusal.                                         *)

Refused == -1

\* Plausible bug: the budget is each sub-filter's own, not the filter's.
toFiltersWithLimitsEach(convs, fs, depth, budget) ==
  LET left[i \in 0 .. Len(fs)] ==
        IF i = 0 THEN budget
        ELSE IF left[i - 1] = Refused \/ fs[i].t = "nil" THEN Refused
        ELSE convs[i][depth][budget]
  IN  left[Len(fs)]

\* The members of a group in order, each with what the ones before it left, given
\* how each is converted.
toFiltersWithLimits(convs, fs, depth, budget) ==
  LET left[i \in 0 .. Len(fs)] ==
        IF i = 0 THEN budget
        ELSE IF left[i - 1] = Refused \/ fs[i].t = "nil" THEN Refused
        ELSE convs[i][depth][left[i - 1]]
  IN  left[Len(fs)]

\* What is left of the budget.
toFilterWithLimits[f \in Wire] ==
  [depth \in 1 .. MaxDepth + 1 |-> [budget \in 0 .. MaxPredicates |->
     IF f.t = "nil" THEN budget
     ELSE IF depth > MaxDepth THEN Refused
     ELSE IF f.t \in Group /\ f.fs # << >>
     THEN toFiltersWithLimits([i \in DOMAIN f.fs |-> toFilterWithLimits[f.fs[i]]],
                              f.fs, depth + 1, budget)
     ELSE IF f.t = "cmp" /\ budget > 0 /\ toOp(f.op) \in Ops THEN budget - 1
     ELSE Refused]]

\* The filter that is built on the way.
converted[f \in Wire] ==
  IF f.t \in Group THEN [f EXCEPT !.fs = [i \in DOMAIN f.fs |-> converted[f.fs[i]]]]
  ELSE IF f.t = "cmp" THEN [f EXCEPT !.op = toOp(f.op)]
  ELSE f

Accepts(f) == toFilterWithLimits[f][1][MaxPredicates] # Refused

toFilter(f) == converted[f]

\* The executor's filters, and the ones of a single comparison.
Filters == {converted[f] : f \in Wire}

Comparisons == {converted[f] : f \in {g \in Asked : g.t = "cmp" /\ toOp(g.op) \in Ops}}
------------------------------------------------------------------------------
(* Filters.  A verdict is "true", "false", "error", or "panic": reading a    *)
(* field with a descriptor that is not the message's own panics in dynamicpb.*)

evalCmp(doc, same, c) ==
  CASE c.field \notin Fields \/ c.value \notin Vals -> "error"
    [] ~same -> "panic"
    [] OTHER -> IF Holds(c.op, cmp(doc[c.field], c.value)) THEN "true" ELSE "false"

\* The first sub-verdict that settles a group, or the group's verdict without one.
Settled(verdicts, v) ==
  LET others == {i \in DOMAIN verdicts : verdicts[i] # v}
  IN  IF others = {} THEN v ELSE verdicts[Min(others)]

evalAny(doc, same) ==
  LET verdict[f \in Filters] ==
        IF f.t \in Group
        THEN Settled([i \in DOMAIN f.fs |-> verdict[f.fs[i]]],
                     IF f.t = "and" THEN "true" ELSE "false")
        ELSE IF f.t = "nil" THEN "true"
        ELSE IF f.t = "cmp" THEN evalCmp(doc, same, f)
        ELSE "error"
  IN  verdict

eval(doc, same, f) == evalAny(doc, same)[f]

\* Plausible bug: the bracketing of groups is left out of the signature.
flatSignature[f \in Filters] ==
  LET tail[i \in 1 .. Len(f.fs) + 1] ==
        IF i > Len(f.fs) THEN << >> ELSE flatSignature[f.fs[i]] \o tail[i + 1]
  IN  IF f.t \in Group THEN <<[t |-> f.t]>> \o tail[1] ELSE <<f>>
FlatFilterSignature(f) == flatSignature[f]

\* The signatures of a group's members from the i-th on, and the end of the group.
membersFrom(sigs) ==
  LET tail[i \in 1 .. Len(sigs) + 1] ==
        IF i > Len(sigs) THEN <<[t |-> "]"]>> ELSE sigs[i] \o tail[i + 1]
  IN  tail

signature[f \in Filters] ==
  IF f.t \in Group
  THEN <<[t |-> f.t, n |-> Len(f.fs)]>>
         \o membersFrom([i \in DOMAIN f.fs |-> signature[f.fs[i]]])[1]
  ELSE <<f>>

\* A comparison is length-prefixed in the text, so it is one symbol here.  The
\* token's SHA-256 hash is taken to tell signatures apart and is left out.
writeFilterSignature(f) == signature[f]

\* Plausible bug: an Or is seeded from one of its branches.
candidatesOfOr(f) == CASE f.t = "cmp" -> <<f>> [] f.t \in Group -> f.fs [] OTHER -> << >>

\* Where indexSeed looks for its predicate: at the top, or in a top-level And.
candidates(f) == CASE f.t = "cmp" -> <<f>> [] f.t = "and" -> f.fs [] OTHER -> << >>

\* The equalities on an indexed field whose literal parses.
Seeds(f) ==
  {i \in DOMAIN candidates(f) :
     LET c == candidates(f)[i]
     IN  c.t = "cmp" /\ c.op = "eq" /\ c.field \in Indexed /\ c.value \in Vals}

\* The first one seeds the keys.
indexSeed(snap, f) ==
  LET c == candidates(f)[Min(Seeds(f))]
  IN  {k \in Keys : snap[k] # None /\ snap[k][c.field] = c.value}
------------------------------------------------------------------------------
(* Serving one page.                                                         *)

Init ==
  /\ docs = [k \in Keys |-> None] /\ gen = 0
  /\ q = Idle /\ tok = None /\ acc = << >> /\ trav = None /\ stable = {}

Matches(doc, f) == doc # None /\ eval(doc, TRUE, f) = "true"

\* A token is accepted with the query whose hash it carries.  `from` is history:
\* the filter of the query that minted it.
parsePageToken(token, f) == token = None \/ token.hash = writeFilterSignature(f)

\* ExecutePageContext up to its transaction: the checks of the arguments, then
\* the descriptor the filter is evaluated with.  A request without a token
\* starts a traversal; the unary call is a request that may not be continued.
Call(f, size, token, unary) ==
  /\ q = Idle
  /\ unary => token = None
  /\ q' = IF size <= 0 \/ ~parsePageToken(token, f) THEN [stage |-> "error"]
          ELSE [stage |-> "md", filter |-> f, size |-> size, token |-> token,
                unary |-> unary, md |-> gen]
  /\ IF token = None
     THEN /\ acc' = << >> /\ tok' = None /\ trav' = f
          /\ stable' = {k \in Keys : Matches(docs[k], f)}
     ELSE UNCHANGED <<acc, tok, trav, stable>>
  /\ UNCHANGED <<docs, gen>>

\* A request the handler turns down before the executor sees it.
Refuse(answer) ==
  /\ q' = answer
  /\ UNCHANGED <<docs, gen, tok, acc, trav, stable>>

\* The server's handler.  Without a page size the answer is unary, and a token
\* sent with it is not looked at.
QueryRPC(f, size, token) ==
  /\ q = Idle
  /\ CASE ~Accepts(f) -> Refuse([stage |-> "refused", wire |-> f])
       [] Accepts(f) /\ (size < 0 \/ size > Limit) -> Refuse([stage |-> "error"])
       [] Accepts(f) /\ size = 0 -> Call(toFilter(f), Limit, None, TRUE)
       [] OTHER -> Call(toFilter(f), size, token, FALSE)

\* The Go SDK, and the embedded command line: one comparison.
QueryPageJSON(f, size, token) == Call(f, size, token, FALSE)

QueryJSON(f) == Call(f, Limit, None, TRUE)

cursor(r) == IF r.token = None THEN 0 ELSE r.token.last

\* Plausible bug: the page begins at the cursor's key, not after it.
FromCursor(r, k) == k >= cursor(r)

AfterCursor(r, k) == k > cursor(r)

\* The transaction begins: its snapshot, and the candidates.  A
\* full scan decodes every document with the descriptor it reads here.
OpenView ==
  /\ q.stage = "md"
  /\ LET seeded == Seeds(q.filter) # {}
         keys   == IF seeded THEN indexSeed(docs, q.filter)
                             ELSE {k \in Keys : docs[k] # None}
     IN  q' = [stage |-> "view", filter |-> q.filter, size |-> q.size, token |-> q.token,
               unary |-> q.unary, md |-> q.md, snap |-> docs, seeded |-> seeded, msgMd |-> gen,
               todo |-> {k \in keys : AfterCursor(q, k)},
               results |-> << >>, more |-> FALSE]
  /\ UNCHANGED <<docs, gen, tok, acc, trav, stable>>

appendResult(r, k) ==
  IF Len(r.results) >= r.size THEN [r EXCEPT !.more = TRUE]
  ELSE [r EXCEPT !.results = Append(@, k), !.todo = @ \ {k}]

\* The next candidate in key order.  A seeded candidate is decoded with the current descriptor.
Examine ==
  /\ q.stage = "view" /\ q.todo # {} /\ ~q.more
  /\ LET k       == Min(q.todo)
         msgMd   == IF q.seeded THEN gen ELSE q.msgMd
         verdict == eval(q.snap[k], msgMd = q.md, q.filter)
     IN  q' = CASE verdict = "true"  -> appendResult(q, k)
                [] verdict = "false" -> [q EXCEPT !.todo = @ \ {k}]
                [] OTHER             -> [stage |-> verdict]
  /\ UNCHANGED <<docs, gen, tok, acc, trav, stable>>

\* The context is seen cancelled before a candidate.
Cancel ==
  /\ q.stage = "view" /\ q.todo # {} /\ ~q.more
  /\ q' = [stage |-> "error"]
  /\ UNCHANGED <<docs, gen, tok, acc, trav, stable>>

Finish ==
  /\ q.stage = "view" /\ (q.todo = {} \/ q.more)
  /\ q' = IF q.unary /\ q.more THEN [stage |-> "error"] ELSE [q EXCEPT !.stage = "page"]
  /\ UNCHANGED <<docs, gen, tok, acc, trav, stable>>

\* Plausible bug: the token names the document that did not fit on the page.
encodePageTokenPeeked(r) ==
  [hash |-> writeFilterSignature(r.filter), last |-> Min(r.todo), from |-> r.filter]

encodePageToken(r) ==
  [hash |-> writeFilterSignature(r.filter), last |-> r.results[Len(r.results)], from |-> r.filter]

\* The client takes the answer.  After an error it may retry with its token; a
\* panic ends the process.
Return ==
  /\ q.stage \in {"page", "error", "refused"}
  /\ q' = Idle
  /\ IF q.stage # "page" THEN UNCHANGED <<tok, acc>>
     ELSE /\ acc' = acc \o q.results
          /\ tok' = IF q.more THEN encodePageToken(q) ELSE None
  /\ UNCHANGED <<docs, gen, trav, stable>>

Restart ==
  /\ q.stage = "panic"
  /\ q' = Idle
  /\ UNCHANGED <<docs, gen, tok, acc, trav, stable>>
------------------------------------------------------------------------------
(* The others.                                                               *)

Store(k, d) ==
  /\ d # docs[k]
  /\ docs' = [docs EXCEPT ![k] = d]
  /\ stable' = {j \in stable : Matches(docs'[j], trav)}
  /\ UNCHANGED <<gen, q, tok, acc, trav>>

\* A registration rebuilds every descriptor.
Activate ==
  /\ gen < MaxGen
  /\ gen' = gen + 1
  /\ UNCHANGED <<docs, q, tok, acc, trav, stable>>

Next ==
  \/ \E f \in Asked, size \in Sizes, t \in {None, tok} : QueryRPC(f, size, t)
  \/ \E f \in Comparisons :
       QueryJSON(f) \/ \E size \in Sizes, t \in {None, tok} : QueryPageJSON(f, size, t)
  \/ OpenView \/ Examine \/ Cancel \/ Finish \/ Return \/ Restart
  \/ \E k \in Keys, d \in Docs \cup {None} : Store(k, d)
  \/ Activate

Spec == Init /\ [][Next]_vars
------------------------------------------------------------------------------
(* Properties.                                                               *)

Ascends(s) == \A i, j \in DOMAIN s : i < j => s[i] < s[j]

\* A page is what its snapshot holds: the first matching documents after the
\* cursor in key order, as many as asked for, whichever plan found them, and it
\* has a successor exactly when a further document matches.  A unary answer is
\* never a part (query.go:135-146, 164-279).
PageExact ==
  q.stage = "page" =>
    LET all  == {k \in Keys : k > cursor(q) /\ Matches(q.snap[k], q.filter)}
        rest == all \ Range(q.results)
    IN  /\ Ascends(q.results) /\ Range(q.results) \subseteq all
        /\ \A k \in Range(q.results), l \in rest : k < l
        /\ IF q.more THEN rest # {} /\ Len(q.results) = q.size /\ ~q.unary
                     ELSE rest = {} /\ Len(q.results) <= q.size

\* Within d levels, without an empty group or an unset part.
Complete[f \in Filters] ==
  [d \in 0 .. MaxDepth |->
     /\ d > 0
     /\ IF f.t \in Group THEN f.fs # << >> /\ \A i \in DOMAIN f.fs : Complete[f.fs[i]][d - 1]
                         ELSE f.t = "cmp" /\ f.op \in Ops]

Total(s) == LET sum[i \in 0 .. Len(s)] == IF i = 0 THEN 0 ELSE sum[i - 1] + s[i]
            IN  sum[Len(s)]

\* The comparisons in a filter.
Leaves[f \in Filters] ==
  IF f.t \in Group THEN Total([i \in DOMAIN f.fs |-> Leaves[f.fs[i]]])
  ELSE IF f.t = "cmp" THEN 1 ELSE 0

Allowed(f) == f.t = "nil" \/ (Complete[f][MaxDepth] /\ Leaves[f] <= MaxPredicates)

\* The filters that reach the executor are exactly the ones within both limits
\* and without an empty group or an unset part: predicates are counted over the
\* whole tree, depth along each branch, and "match all" stands only at the top
\* (server.go:28-31, 148-212).
FilterLimits ==
  /\ q.stage \in {"md", "view", "page"} => Allowed(q.filter)
  /\ q.stage = "refused" => ~Allowed(toFilter(q.wire))

\* A token continues only the query that minted it (query.go:150-151, 291-344).
TokenBinds == q.stage \in {"md", "view", "page"} /\ q.token # None => q.token.from = q.filter

\* A traversal returns keys in ascending order, so none twice, whatever is
\* written between its pages (query.go:149, 222, 250).
TraversalAscends ==
  /\ Ascends(acc)
  /\ q.stage = "page" => Ascends(acc \o q.results)

\* A document that matched from the first request of a traversal to its last
\* page was returned by it, whatever else was written meanwhile (query.go:95-99).
StableReturned ==
  q.stage = "page" /\ ~q.more => stable \subseteq Range(acc \o q.results)

\* A filter is evaluated with the descriptor of the message it reads, as
\* CompareValues assumes (values.go:100-102).
SameDescriptor == q.stage # "panic"
==============================================================================
