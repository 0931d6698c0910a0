--------------------------- MODULE MCCrawlPipeline --------------------------
(* CrawlPipeline and its graph: two sources whose pages mention the same two domains in either order, a page that hides *)
(* a word, and a feed with a value too long for its column. *)
EXTENDS IntelligenceGraph, TLC

CONSTANTS w1, w2, w3, w4, hid, m1, u1, u2, u3, u4, u5, x1, x2, x3

Data(w) == [is |-> "data", what |-> w]
Open(tag) == [is |-> "start", what |-> tag]
Close(tag) == [is |-> "end", what |-> tag]
Html(page) == [feed |-> FALSE, doctype |-> FALSE, items |-> <<[title |-> <<>>, page |-> page]>>]
Feed(items) == [feed |-> TRUE, doctype |-> FALSE, items |-> items]

\* The words are domains: A.com, b.com, B.com and a.com, and one of 2049 characters.
MCKinds == <<"domain">>
MCFold == [v \in Spellings |-> CASE v = 3 -> 1 [] v = 4 -> 2 [] OTHER -> v]
MCFinds ==
    [w \in Words |-> CASE w = w1 -> {<<"domain", 1>>} [] w = w2 -> {<<"domain", 4>>}
                       [] w = w3 -> {<<"domain", 2>>} [] w = w4 -> {<<"domain", 3>>}
                       [] OTHER -> {<<"domain", 5>>}]
MCCanonical == [x \in {x1, x2, x3} |-> IF x = x3 THEN u2 ELSE u1]

Both == Html(<<Data(w1), Open("template"), Open("script"), Data(hid), Close("script"), Data(hid),
               Close("template"), Data(w2)>>)
\* The end of a noscript inside a template gives the words behind it to the text.
Reversed == Html(<<Data(w3), Open("template"), Data(hid), Close("noscript"), Data(w4),
                   Close("template"), Open("style"), Data(hid)>>)
Entries == Feed(<<[title |-> <<w1>>, page |-> <<Open("script"), Data(hid)>>],
                  [title |-> <<>>, page |-> <<Data(w2)>>]>>)
Long == Html(<<Data(w1), Data(hid)>>)
Plain == Html(<<Data(w3)>>)
Empty == Html(<<Open("script"), Data(w1)>>)
At(r) == [redirect |-> FALSE, response |-> r]
To(u) == [redirect |-> TRUE, to |-> u]

\* u1 may redirect to u5, to plain HTTP at u3, and to a private host at u4.
MCServes ==
    (u1 :> {At(Both), At(Empty), To(u5), To(u3), To(u4)}) @@ (u5 :> {At(Long), To(u1)})
    @@ (u2 :> {At(Reversed), At(Entries), At([Entries EXCEPT !.doctype = TRUE])})
    @@ (u3 :> {At(Plain)}) @@ (u4 :> {At(Plain)})
MCTerms == [m \in Monitors |-> {w2, w3, hid}]
MCIocs == {[id |-> 1, tags |-> {1}], [id |-> 2, tags |-> {1}]}
MCActors == {[id |-> 1, techniques |-> {1, 2}]}
=============================================================================
