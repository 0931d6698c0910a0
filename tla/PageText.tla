------------------------------ MODULE PageText ------------------------------
(***************************************************************************)
(* What a crawl reads out of a response: TextExtractor, normalize_html and *)
(* extract_entities of services/source_management.py, parse_structured of  *)
(* services/source_parsers.py.                                             *)
(*                                                                         *)
(* A text is a sequence of words.  A page is the sequence of events the    *)
(* HTML parser reports; a feed is a sequence of entries, each a title and  *)
(* a page of its own, and an HTML response is one entry without title.     *)
(* A word may hold several values, as a URL holds a domain; a spelling is  *)
(* a number in the order of strings.                                       *)
(***************************************************************************)
EXTENDS Integers, SequencesExt

CONSTANTS
    Words,
    Kinds,       \* the patterns of extract_entities, in their order
    Spellings,   \* of the values
    Fold,        \* spelling -> its casefold()
    Finds,       \* word -> the set of <<kind, spelling>> found in it
    MaxPerKind,  \* values kept of each kind, 200 in the code
    MinWords,    \* of a usable text, 20 characters in the code
    MaxRecords   \* entries of a feed, 5000 in the code

ASSUME PageTextAssumption ==
    /\ Kinds \in Seq(STRING)
    /\ Spellings \subseteq Nat /\ Fold \in [Spellings -> Spellings]
    /\ Finds \in [Words -> SUBSET (STRING \X Spellings)]
    /\ \A word \in Words : IsFiniteSet(Finds[word])
    /\ MaxPerKind \in Nat /\ MinWords \in Nat /\ MaxRecords \in Nat

\* Tags whose content is not text.
Ignored == {"script", "style", "noscript", "template"}

Event == [is : {"start", "end"}, what : STRING] \cup [is : {"data"}, what : Words]
Response == [feed : BOOLEAN, doctype : BOOLEAN,
             items : Seq([title : Seq(Words), page : Seq(Event)])]

-----------------------------------------------------------------------------
(* TextExtractor *)

\* Mutant: a flag in place of the depth.
HandleStartFlat(st, tag) == IF tag \in Ignored THEN [st EXCEPT !.ignored = 1] ELSE st

HandleStart(st, tag) == IF tag \in Ignored THEN [st EXCEPT !.ignored = @ + 1] ELSE st

HandleEnd(st, tag) ==
    IF tag \in Ignored /\ st.ignored > 0 THEN [st EXCEPT !.ignored = @ - 1] ELSE st

HandleData(st, word) == IF st.ignored > 0 THEN st ELSE [st EXCEPT !.text = Append(@, word)]

Handle(st, token) ==
    CASE token.is = "start" -> HandleStart(st, token.what)
      [] token.is = "end"   -> HandleEnd(st, token.what)
      [] token.is = "data"  -> HandleData(st, token.what)

\* What the extractor holds after the first n events of a page.
Extractor(page) ==
    LET after[n \in 0..Len(page)] ==
            IF n = 0 THEN [ignored |-> 0, text |-> <<>>] ELSE Handle(after[n - 1], page[n])
    IN  after

\* normalize_html: a new extractor for every page.
NormalizeHtml(page) == Extractor(page)[Len(page)].text

-----------------------------------------------------------------------------
(* Responses *)

\* parse_structured refuses declared entities and feeds without or with too many entries.
Parses(r) == r.feed => ~r.doctype /\ Len(r.items) \in 1..MaxRecords

\* The text of the first n entries.
TextOf(items) ==
    LET upto[n \in 0..Len(items)] ==
            IF n = 0 THEN <<>>
            ELSE upto[n - 1] \o items[n].title \o NormalizeHtml(items[n].page)
    IN  upto

Text(r) == TextOf(r.items)[Len(r.items)]

Usable(r) == Parses(r) /\ Len(Text(r)) >= MinWords

-----------------------------------------------------------------------------
(* extract_entities *)

Spelled(text, kind) ==
    {v \in Spellings : \E i \in 1..Len(text) : <<kind, v>> \in Finds[text[i]]}

\* How many of S come before v.
Rank(S, v) == Cardinality({u \in S : u < v})

\* The first MaxPerKind in sorted order.
OfKind(text, kind) ==
    LET kept == {v \in Spelled(text, kind) : Rank(Spelled(text, kind), v) < MaxPerKind}
    IN  [i \in 1..Cardinality(kept) |->
            [kind |-> kind, value |-> CHOOSE v \in kept : Rank(kept, v) = i - 1]]

\* The values of the first n kinds.
OfKinds(text) ==
    LET upto[n \in 0..Len(Kinds)] ==
            IF n = 0 THEN <<>> ELSE upto[n - 1] \o OfKind(text, Kinds[n])
    IN  upto

Extract(text) == OfKinds(text)[Len(Kinds)]

\* The identity of an entity: its kind and its value, case folded.
EntityId(v) == <<v.kind, Fold[v.value]>>

-----------------------------------------------------------------------------
(* What the text of a page should be *)

\* An end tag closes the element it names, not any.
Closes(open, token) == token.is = "end" /\ open # <<>> /\ Last(open) = token.what

Nest(open, token) ==
    IF token.is = "start" /\ token.what \in Ignored THEN Append(open, token.what)
    ELSE IF Closes(open, token) THEN Front(open) ELSE open

\* The ignored elements that are open after the first n events of a page, innermost last.
OpenElements(page) ==
    LET after[n \in 0..Len(page)] ==
            IF n = 0 THEN <<>> ELSE Nest(after[n - 1], page[n])
    IN  after

\* Event i lies in an ignored element.
Hidden(page, i) == OpenElements(page)[i - 1] # <<>>

\* Event n ends an ignored element inside an ignored element of another name.
Misplaced(page, n) ==
    LET open == OpenElements(page)[n - 1]
    IN  page[n].is = "end" /\ page[n].what \in Ignored /\ open # <<>> /\ ~Closes(open, page[n])

\* The words a reader of the page sees, and those that stand behind a misplaced end tag.
Seen(page) ==
    {page[i].what : i \in {n \in 1..Len(page) : page[n].is = "data" /\ ~Hidden(page, n)}}
Behind(page) ==
    {page[i].what : i \in {n \in 1..Len(page) : /\ page[n].is = "data"
                                                /\ \E m \in 1..(n - 1) : Misplaced(page, m)}}

\* The words a reader of the response sees, and those whose place is in dispute.
Visible(r) == UNION {ToSet(item.title) \cup Seen(item.page) : item \in ToSet(r.items)}
Disputed(r) == UNION {Behind(item.page) : item \in ToSet(r.items)}
=============================================================================
