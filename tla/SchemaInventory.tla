--------------------------- MODULE SchemaInventory ---------------------------
(* The schema operations of scripts/wp1_target.py: schema-check reads the     *)
(* paginated list of custom plugin schemas of a Control Plane and compares it *)
(* with the files of the repository; schema-sync reads the same list and      *)
(* writes what is missing or different. The list is read one page per         *)
(* request, so the Control Plane may change between two pages, and an answer  *)
(* may contradict the others: a wrong total, cursor or end, or items missing. *)
(*                                                                            *)
(* A schema name is a number, its place in the server's order. A source is    *)
(* its text (body) with the line ends and the final newlines that             *)
(* normalize_schema removes.                                                  *)
EXTENDS Integers, Sequences, FiniteSets, Functions

CONSTANTS Runs,        \* processes that run the script
          Operation,   \* Operation[r]: "schema-check" or "schema-sync"
          Approved,    \* Runs started with SCHEMA_SYNC_APPROVED=YES
          Names,       \* schema names the Control Plane may hold
          Sources,     \* sources the Control Plane may hold
          expected,    \* PLUGIN_FILES: name -> source in the repository
          PageSize,    \* page[size] of a request
          PageLimit,   \* range(1000)
          MaxEdits,    \* bound on writes by anybody else and on odd answers
          None

VARIABLES table,   \* the Control Plane's schemas: Names -> Sources \cup {None}
          run,     \* run[r]: the state of process r
          edits,   \* writes by others and odd answers so far
          held,    \* held[r]: expected names that were current since r began
          quiet    \* quiet[r]: nobody else wrote, no odd answer since r began
vars == <<table, run, edits, held, quiet>>

Ops == {"schema-check", "schema-sync"}
Items == [name : Names, source : Sources \cup {None}]
Answers == [items : Seq(Items), total : Int, has_next : BOOLEAN, next : Names \cup {None}]
ASSUME SchemaAssumption ==
    /\ Operation \in [Runs -> Ops] /\ Approved \subseteq Runs
    /\ Names \subseteq Nat \ {0} /\ IsFiniteSet(Names)
    /\ DOMAIN expected \subseteq Names
    /\ \A n \in DOMAIN expected : expected[n] \in Sources
    /\ PageSize \in Nat \ {0} /\ PageLimit \in Nat \ {0} /\ MaxEdits \in Nat
    /\ None \notin Int /\ None \notin Sources /\ None \notin Runs /\ None \notin Answers

-----------------------------------------------------------------------------
(* The server (external).                                                     *)

Present(t) == {n \in Names : t[n] /= None}
\* The honest answer: the first names after the cursor, in their order.
After(t, cursor) == {n \in Present(t) : cursor = None \/ n > cursor}
FirstOf(S) == {n \in S : Cardinality({m \in S : m < n}) < PageSize}
InOrder(S) == {q \in [1 .. Cardinality(S) -> S] : \A i, j \in DOMAIN q : i < j => q[i] < q[j]}
PagesOf(t, cursor) ==
    LET names == FirstOf(After(t, cursor))
        more  == names /= After(t, cursor)
    IN  {[items |-> [i \in DOMAIN q |-> [name |-> q[i], source |-> t[q[i]]]],
          total |-> Cardinality(Present(t)), has_next |-> more,
          next |-> IF more THEN q[Cardinality(names)] ELSE None] : q \in InOrder(names)}
\* A Control Plane without any schema may answer the empty object (None).
HonestAnswers(t, cursor) ==
    PagesOf(t, cursor) \cup {a \in {None} : Present(t) = {}}
\* An answer that is wrong in one field of its pagination.
OddAnswers(t, cursor) ==
    {None} \cup UNION {
        {[p EXCEPT !.total = x] : x \in -1 .. Cardinality(Names) + 1}
        \cup {[p EXCEPT !.next = x] : x \in Names \cup {None}}
        \cup {[p EXCEPT !.has_next = ~p.has_next], [p EXCEPT !.items = << >>]} : p \in PagesOf(t, cursor)}

-----------------------------------------------------------------------------
(* wp1.py                                                                     *)

normalize_schema(s) ==
    [s EXCEPT !.crlf = FALSE, !.newlines = IF @ > 0 THEN @ - 1 ELSE 0]
\* SHA-256 has no collisions here: the hash is the normalised source.
schema_hash(s) == normalize_schema(s)
Current(t, n) == t[n] /= None /\ schema_hash(t[n]) = schema_hash(expected[n])

ItemsOf(pages) == UNION {Range(pages[i].items) : i \in DOMAIN pages}
WellFormed(item) == item.name /= None /\ item.source /= None
NoDuplicates(pages) ==
    \A i, j \in DOMAIN pages : \A k \in DOMAIN pages[i].items, l \in DOMAIN pages[j].items :
        pages[i].items[k].name = pages[j].items[l].name => i = j /\ k = l
Found(pages) == [n \in {item.name : item \in ItemsOf(pages)} |->
                   (CHOOSE item \in ItemsOf(pages) : item.name = n).source]
Cursors(pages, i) == {pages[j].next : j \in {k \in 1 .. i : pages[k].has_next}}

\* The checks of collect_schema_pages that are about the pagination alone.
CollectPagination(pages) ==
    /\ \A i \in DOMAIN pages :
         LET p == pages[i]
             count == Cardinality(DOMAIN Found(SubSeq(pages, 1, i)))
         IN  /\ p.total >= 0 /\ p.total = pages[1].total
             /\ p.has_next <=> i /= Len(pages)
             /\ p.has_next => /\ p.next /= None /\ count < p.total
                              /\ p.next \notin Cursors(pages, i - 1)
                              /\ p.next /= p.cursor
                              /\ p.items /= << >>
    /\ pages /= << >> /\ pages[1].total = Cardinality(DOMAIN Found(pages))
CollectItems(pages) ==
    (\A item \in ItemsOf(pages) : WellFormed(item)) /\ NoDuplicates(pages)
collect_schema_pages(pages) ==
    CollectItems(pages) /\ CollectPagination(pages) /\ DOMAIN expected \subseteq DOMAIN Found(pages)
compare_nothing(pages) == TRUE
compare_schema_hashes(pages) ==
    \A n \in DOMAIN expected : schema_hash(Found(pages)[n]) = schema_hash(expected[n])
-----------------------------------------------------------------------------
(* wp1_target.py: one step per request and one per decision between them.     *)

Idle == [pc |-> "start", cursor |-> None, count |-> None, observed |-> 0,
         pages |-> << >>, seen |-> {}, todo |-> {}, posts |-> {}]
Init == /\ table \in [Names -> Sources \cup {None}]
        /\ run = [r \in Runs |-> Idle]
        /\ edits = 0
        /\ held = [r \in Runs |-> {}]
        /\ quiet = [r \in Runs |-> TRUE]

\* held and quiet are history: they follow the table and no step reads them.
Observe(t, byRun) ==
    /\ table' = t
    /\ held' = [r \in Runs |-> IF run[r].pc = "start" THEN {}
                               ELSE held[r] \cup {n \in DOMAIN expected : Current(t, n)}]
    /\ quiet' = [r \in Runs |-> run[r].pc = "start" \/ (quiet[r] /\ (t = table \/ r = byRun))]
Goto(r, pc) == run' = [run EXCEPT ![r].pc = pc]
Quietly == UNCHANGED <<table, edits, held, quiet>>

\* main(): the local and remote target checks either pass or stop the run.
Begin(r) ==
    /\ run[r].pc = "start"
    /\ \/ /\ Operation[r] = "schema-check" \/ r \in Approved
          /\ Goto(r, "list")
          /\ held' = [held EXCEPT ![r] = {n \in DOMAIN expected : Current(table, n)}]
          /\ UNCHANGED <<table, edits, quiet>>
       \/ Goto(r, "refused") /\ Quietly

\* request_schema_pages: the checks on one answer.
Malformed(s, a) == a.total < 0 \/ (s.count /= None /\ a.total /= s.count)
                   \/ (a.has_next /\ a.next = None)
NoProgressUnlessMore(s, a) == s.observed + Len(a.items) >= a.total
NoProgressOffByOne(s, a) == s.observed + Len(a.items) + 1 >= a.total \/ a.items = << >>
NoProgress(s, a) == s.observed + Len(a.items) >= a.total \/ a.items = << >>
CursorRepeats(s, a) == a.next \in s.seen \/ a.next = s.cursor
AnswerRefused(s, a) ==
    LET observed == s.observed + Len(a.items)
    IN  \/ Malformed(s, a) \/ observed > a.total
        \/ ~a.has_next /\ observed /= a.total
        \/ a.has_next /\ (NoProgress(s, a) \/ CursorRepeats(s, a))
EmptyPage == [items |-> << >>, total |-> 0, has_next |-> FALSE, next |-> None, cursor |-> None]
AcceptPage(s, a) ==
    [s EXCEPT !.pages = Append(@, [items |-> a.items, total |-> a.total, has_next |-> a.has_next,
                                   next |-> a.next, cursor |-> s.cursor]),
              !.observed = @ + Len(a.items), !.count = a.total,
              !.seen = IF a.has_next THEN @ \cup {a.next} ELSE @,
              !.cursor = IF a.has_next THEN a.next ELSE @,
              !.pc = IF ~a.has_next THEN "listed"
                     ELSE IF Len(s.pages) + 1 = PageLimit THEN "failed" ELSE "list"]
Answered(s, a) ==
    IF a = None
    THEN IF s.pages = << >> THEN [s EXCEPT !.pages = <<EmptyPage>>, !.count = 0, !.pc = "listed"]
         ELSE [s EXCEPT !.pc = "failed"]
    ELSE IF AnswerRefused(s, a) THEN [s EXCEPT !.pc = "failed"]
    ELSE AcceptPage(s, a)
request_schema_pages(r) ==
    /\ run[r].pc = "list"
    /\ \/ /\ \E a \in HonestAnswers(table, run[r].cursor) : run' = [run EXCEPT ![r] = Answered(run[r], a)]
          /\ Quietly
       \/ /\ edits < MaxEdits /\ edits' = edits + 1
          /\ \E a \in OddAnswers(table, run[r].cursor) : run' = [run EXCEPT ![r] = Answered(run[r], a)]
          /\ quiet' = [quiet EXCEPT ![r] = FALSE]
          /\ UNCHANGED <<table, held>>

check_schemas(r) ==
    /\ run[r].pc = "listed" /\ Operation[r] = "schema-check"
    /\ Goto(r, IF collect_schema_pages(run[r].pages) /\ compare_schema_hashes(run[r].pages)
               THEN "done" ELSE "failed")
    /\ Quietly

\* sync_schemas: the inventory is validated as a whole before the first write.
Changed(pages) == {n \in DOMAIN expected :
    n \notin DOMAIN Found(pages) \/ schema_hash(Found(pages)[n]) /= schema_hash(expected[n])}
PlanWrites(r) ==
    /\ run[r].pc = "listed" /\ Operation[r] = "schema-sync"
    /\ LET pages == run[r].pages
       IN  run' = [run EXCEPT ![r] =
             IF CollectItems(pages)
             THEN [run[r] EXCEPT !.pc = "write", !.todo = Changed(pages),
                            !.posts = Changed(pages) \ DOMAIN Found(pages)]
             ELSE [run[r] EXCEPT !.pc = "failed"]]
    /\ Quietly

\* PLUGIN_FILES is iterated in a fixed order: the smallest name first.
NextWrite(r) == CHOOSE n \in run[r].todo : \A k \in run[r].todo : n <= k
\* The server refuses to POST a name that exists; a PUT of a name that is gone
\* creates it or is refused. A request may also fail after it took effect
\* (timeout=20).
WriteSchema(r) ==
    /\ run[r].pc = "write" /\ run[r].todo /= {}
    /\ LET n == NextWrite(r)
           taken == n \in run[r].posts /\ table[n] /= None
           gone == n \notin run[r].posts /\ table[n] = None
       IN  \/ /\ ~taken
              /\ run' = [run EXCEPT ![r].todo = @ \ {n}]
              /\ Observe([table EXCEPT ![n] = expected[n]], r)
           \/ /\ ~taken
              /\ Goto(r, "failed") /\ Observe([table EXCEPT ![n] = expected[n]], r)
           \/ (taken \/ gone) /\ Goto(r, "failed") /\ Observe(table, r)
    /\ UNCHANGED edits
SyncEnds(r) ==
    /\ run[r].pc = "write" /\ run[r].todo = {}
    /\ Goto(r, "done") /\ Quietly

\* A request that fails without effect ends the run.
RequestFails(r) == run[r].pc \in {"list", "write"} /\ Goto(r, "lost") /\ Quietly

\* Anybody else replaces or removes one schema.
Edit == /\ edits < MaxEdits /\ edits' = edits + 1
        /\ \E n \in Names, s \in Sources \cup {None} :
             s /= table[n] /\ Observe([table EXCEPT ![n] = s], None)
        /\ UNCHANGED run

Step(r) == \/ Begin(r) \/ request_schema_pages(r) \/ check_schemas(r)
           \/ PlanWrites(r) \/ WriteSchema(r) \/ SyncEnds(r) \/ RequestFails(r)
Ended(r) == run[r].pc \in {"done", "failed", "refused", "lost"}
Stutter == (\A r \in Runs : Ended(r)) /\ UNCHANGED vars
Next == (\E r \in Runs : Step(r)) \/ Edit \/ Stutter
Spec == Init /\ [][Next]_vars

-----------------------------------------------------------------------------
(* Properties *)

RunType == [pc : {"start", "list", "listed", "write", "done", "failed", "refused", "lost"},
            cursor : Names \cup {None}, count : Int \cup {None}, observed : Nat,
            pages : Seq([items : Seq(Items), total : Int, has_next : BOOLEAN,
                         next : Names \cup {None}, cursor : Names \cup {None}]),
            seen : SUBSET Names, todo : SUBSET Names, posts : SUBSET Names]
(* Every process keeps the variables of request_schema_pages and sync_schemas *)
(* within their types; a cursor is never the empty value once it was sent.    *)
TypeOK ==
    /\ table \in [Names -> Sources \cup {None}]
    /\ \A r \in Runs : run[r] \in RunType
    /\ edits \in 0 .. MaxEdits
    /\ held \in [Runs -> SUBSET DOMAIN expected]
    /\ quiet \in [Runs -> BOOLEAN]

(* However the list changes and the answers contradict each other,            *)
(* request_schema_pages makes at most as many requests as the total it was    *)
(* told: each accepted page brings an item, so its limit of 1000 pages is     *)
(* never what stops a list of fewer entries.                                  *)
BoundedByTotal ==
    \A r \in Runs : LET s == run[r] IN
        /\ s.pc = "list" => Len(s.pages) <= s.observed /\ (s.pages /= << >> => s.observed < s.count)
        /\ s.pc = "listed" => s.observed = s.count

(* The two copies of the pagination rules agree: pages that                   *)
(* request_schema_pages returns, and whose items are well formed and          *)
(* distinct, never fail the pagination checks of collect_schema_pages.        *)
CollectAgrees ==
    \A r \in Runs : run[r].pc = "listed" /\ CollectItems(run[r].pages)
                    => CollectPagination(run[r].pages)

(* request_schema_pages returns only what collect_schema_pages accepts, and   *)
(* its loop is bounded by the total, not by its page limit.                   *)
PaginationSound == BoundedByTotal /\ CollectAgrees

(* A run that reports success saw or wrote every expected schema current at   *)
(* some moment since it began, however the Control Plane changed between the  *)
(* pages it read.                                                             *)
ReportedWasTrue ==
    \A r \in Runs : run[r].pc = "done" => held[r] = DOMAIN expected

(* On a Control Plane nobody else changes, pagination is exact: what was      *)
(* listed is the table, and a check fails only because a schema is missing or *)
(* differs after normalisation.                                               *)
QuietExact ==
    \A r \in Runs : quiet[r] /\ Operation[r] = "schema-check" =>
        /\ run[r].pc = "listed" => \A n \in Names : table[n] = IF n \in DOMAIN Found(run[r].pages)
                                                      THEN Found(run[r].pages)[n] ELSE None
        /\ run[r].pc = "failed" => \E n \in DOMAIN expected : ~Current(table, n)

(* A sync on a quiet Control Plane that reports success leaves every expected *)
(* schema current.                                                            *)
QuietSync ==
    \A r \in Runs : quiet[r] /\ Operation[r] = "schema-sync" /\ run[r].pc = "done"
                    => \A n \in DOMAIN expected : Current(table, n)

(* Undisturbed, the check and the sync tell the truth: what they list, report *)
(* and leave behind is the table.                                             *)
QuietCorrect == QuietExact /\ QuietSync
=============================================================================
