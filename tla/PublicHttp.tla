----------------------------- MODULE PublicHttp -----------------------------
(***************************************************************************)
(* public_request() of services/safe_http.py, by which crawls fetch: every *)
(* hop resolves its host anew and refuses one that is not public, at most  *)
(* MaxRedirects redirects are followed, none of them from HTTPS to HTTP.   *)
(***************************************************************************)
EXTENDS Naturals, Sequences

CONSTANTS
    Serves,   \* URL -> the answers it may give: a response, or a redirect to a URL
    Public,   \* URLs whose hosts resolve to public addresses only
    Secure    \* URLs whose scheme is https

ASSUME PublicHttpAssumption ==
    /\ Public \subseteq DOMAIN Serves
    /\ \A u \in DOMAIN Serves : \A a \in Serves[u] : a.redirect => a.to \in DOMAIN Serves

MaxRedirects == 3

\* Mutant: the scheme of a redirect's target is not looked at.
FollowsAnywhere(u, v) ==
    /\ v \in Public
    /\ \E a \in Serves[u] : a.redirect /\ a.to = v

\* An answer of u leads to v, and the request may go there.
Follows(u, v) ==
    /\ v \in Public
    /\ u \in Secure => v \in Secure
    /\ \E a \in Serves[u] : a.redirect /\ a.to = v

\* The URLs a request for u may have come to after so many redirects.
Hops(u) ==
    LET hop[n \in 0..MaxRedirects] ==
            IF n = 0 THEN {u} \cap Public
            ELSE {v \in DOMAIN Serves : \E w \in hop[n - 1] : Follows(w, v)}
    IN  hop

ResponsesAt(u) == {a.response : a \in {b \in Serves[u] : ~b.redirect}}

\* What public_request() may return.
Answers ==
    [u \in DOMAIN Serves |->
        UNION {ResponsesAt(v) : v \in UNION {Hops(u)[n] : n \in 0..MaxRedirects}}]

-----------------------------------------------------------------------------
\* What it should return: a response at the end of a chain of at most three redirects
\* through public hosts, that never leaves HTTPS.
Reached ==
    [u \in DOMAIN Serves |-> UNION {ResponsesAt(chain[Len(chain)]) :
             chain \in {c \in UNION {[1..n -> Public] : n \in 1..4} :
                          /\ c[1] = u
                          /\ \A i \in 1..(Len(c) - 1) :
                                /\ c[i] \in Secure => c[i + 1] \in Secure
                                /\ \E a \in Serves[c[i]] : a.redirect /\ a.to = c[i + 1]}}]
=============================================================================
