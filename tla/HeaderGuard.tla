---------------------------- MODULE HeaderGuard -----------------------------
(* HEADER_SANITIZER_LUA of scripts/wp3_runtime.py, the pre-function of the    *)
(* API gateway's Route: it strips the headers that later plugins regenerate   *)
(* and refuses tokens in the query. Kong hands it at most Limit (1000) lines, *)
(* grouped by name and in any order; a name may occur several times.          *)
EXTENDS Integers, FiniteSets

CONSTANTS Limit,                 \* 1000
          MaxLines,              \* bound: lines of one name in a request
          HeaderNames, Stripped, \* header names; those whose normal form is stripped
          Args, TokenArgs        \* argument names; spellings of access_token
ASSUME HeadersAssumption ==
    /\ Limit \in Nat \ {0} /\ MaxLines \in Nat
    /\ IsFiniteSet(HeaderNames) /\ Stripped \subseteq HeaderNames
    /\ IsFiniteSet(Args) /\ TokenArgs \subseteq Args

VARIABLES sent, query,  \* lines of the request, arguments of its query, by name
          got, left,    \* what Kong returned; names not inspected yet
          count, cleared, pc
guardVars == <<sent, query, got, left, count, cleared, pc>>

\* The lines of b: each is a name and its number among the lines of that name.
Lines(b) == {l \in (DOMAIN b) \X (1 .. MaxLines) : l[2] <= b[l[1]]}
Total(b) == Cardinality(Lines(b))
\* kong.request.get_headers(Limit) and get_query(Limit) (external): at most
\* Limit entries, whichever come first.
Returned(b) == {r \in [DOMAIN b -> 0 .. MaxLines] :
                  /\ \A x \in DOMAIN b : r[x] <= b[x]
                  /\ Total(r) = IF Total(b) > Limit THEN Limit ELSE Total(b)}
Named(b) == {x \in DOMAIN b : b[x] > 0}

GuardInit == /\ sent = [h \in HeaderNames |-> 0] /\ query = [a \in Args |-> 0]
             /\ got = sent /\ left = {} /\ count = 0 /\ cleared = {} /\ pc = "idle"
\* A request reaches the Route.
Arrive == /\ pc = "idle" /\ pc' = "headers"
          /\ sent' \in [HeaderNames -> 0 .. MaxLines] /\ query' \in [Args -> 0 .. MaxLines]
          /\ UNCHANGED <<got, left, count, cleared>>

\* A failed or truncated call may be reported; a silent truncation may not.
Fetch(b, loop, refusal) ==
    /\ \/ pc' = refusal /\ count' = 0 /\ UNCHANGED <<got, left>>
       \/ \E r \in Returned(b) : got' = r /\ left' = Named(r) /\ count' = 0 /\ pc' = loop
    /\ UNCHANGED <<sent, query, cleared>>
GetHeaders == pc = "headers" /\ Fetch(sent, "inspect", "431")
GetQuery == pc = "query" /\ Fetch(query, "args", "401")

ReachedLate(n) == n > Limit
Reached(n) == n >= Limit
Entries(n) == IF n > 1 THEN 1 + n - 1 ELSE 1      \* one, and #value - 1 for a list
InspectHeader(h) ==
    /\ pc = "inspect" /\ h \in left
    /\ count' = count + Entries(got[h]) /\ left' = left \ {h}
    /\ IF Reached(count') THEN pc' = "431" /\ UNCHANGED cleared
       ELSE /\ cleared' = IF h \in Stripped THEN cleared \cup {h} ELSE cleared
            /\ pc' = IF left' = {} THEN "query" ELSE pc
    /\ UNCHANGED <<sent, query, got>>
NoHeaders == pc = "inspect" /\ left = {} /\ pc' = "query" /\ UNCHANGED <<sent, query, got, left, count, cleared>>
InspectArg(a) ==
    /\ pc = "args" /\ a \in left
    /\ count' = count + Entries(got[a]) /\ left' = left \ {a}
    /\ pc' = IF a \in TokenArgs \/ Reached(count') THEN "401" ELSE IF left' = {} THEN "passed" ELSE pc
    /\ UNCHANGED <<sent, query, got, cleared>>
NoArgs == pc = "args" /\ left = {} /\ pc' = "passed" /\ UNCHANGED <<sent, query, got, left, count, cleared>>
GuardNext == \/ Arrive \/ GetHeaders \/ NoHeaders \/ GetQuery \/ NoArgs
             \/ (\E h \in HeaderNames : InspectHeader(h)) \/ (\E a \in Args : InspectArg(a))
GuardSpec == GuardInit /\ [][GuardNext]_guardVars

-----------------------------------------------------------------------------
(* Properties *)

(* Whatever Kong leaves out of its answers, a request that passes reaches the *)
(* later plugins without a line of a stripped name and without a token in its *)
(* query: a request that is too long to inspect is refused, not truncated.    *)
BoundaryHolds == pc = "passed" => /\ \A h \in Stripped : sent[h] > 0 => h \in cleared
                                  /\ \A a \in TokenArgs : query[a] = 0
(* A short request whose calls succeed is not refused for its length: refusals*)
(* after inspection have Limit entries or a token.                            *)
RefusedForCause == /\ pc = "431" /\ count > 0 => Total(sent) >= Limit
                   /\ pc = "401" /\ count > 0
                      => Total(query) >= Limit \/ \E a \in TokenArgs : query[a] > 0
(* HEADER_SANITIZER_LUA: a request that passes has no line of a stripped name *)
(* and no token in its query, whatever Kong left out of its answers, and a    *)
(* request that was inspected is refused only for Limit entries or a token.   *)
HeaderBoundary == BoundaryHolds /\ RefusedForCause
=============================================================================
