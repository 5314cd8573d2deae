-------------------------- MODULE SchemaInventoryProofs --------------------------
(***************************************************************************)
(* What schema-check and schema-sync promise, for any number of schemas,   *)
(* any page size, any processes beside each other, any edits between two   *)
(* pages and any answers that contradict each other.                       *)
(***************************************************************************)
EXTENDS SchemaInventory, FiniteSetTheorems, TLAPS

(***************************************************************************)
(* The inductive invariant.                                                *)
(***************************************************************************)
Page == [items : Seq(Items), total : Int, has_next : BOOLEAN,
         next : Names \cup {None}, cursor : Names \cup {None}]
Process == [pc : {"start", "list", "listed", "write", "done", "failed", "refused", "lost"},
            cursor : Names \cup {None}, count : Int \cup {None}, observed : Nat,
            pages : Seq(Page), seen : SUBSET Names, todo : SUBSET DOMAIN expected,
            posts : SUBSET DOMAIN expected]
SchemaTypes ==
    /\ table \in [Names -> Sources \cup {None}]
    /\ run \in [Runs -> Process]
    /\ edits \in 0 .. MaxEdits
    /\ held \in [Runs -> SUBSET DOMAIN expected]
    /\ quiet \in [Runs -> BOOLEAN]
    /\ \A r \in Runs : run[r].pc = "start" => run[r] = Idle
    /\ \A r \in Runs : run[r].pc = "write" => Operation[r] = "schema-sync"

NamesIn(pages) == {item.name : item \in ItemsOf(pages)}
NamesOf(items) == {items[k].name : k \in DOMAIN items}

\* What the reader knows of the pages it has accepted: the pagination checks
\* of collect_schema_pages, for every page so far, and that the items it
\* counted are as many as the names, unless a name came twice.
Counted(pages, i) == Cardinality(NamesIn(SubSeq(pages, 1, i)))
PageOK(pages, i) ==
    /\ pages[i].total >= 0 /\ pages[i].total = pages[1].total
    /\ pages[i].has_next =>
         /\ pages[i].next # None /\ pages[i].next \notin Cursors(pages, i - 1)
         /\ pages[i].next # pages[i].cursor /\ pages[i].items # << >>
         /\ NoDuplicates(pages) => Counted(pages, i) < pages[i].total
PagesOK(s) ==
    LET m == Len(s.pages) IN
    /\ \A i \in 1 .. m : PageOK(s.pages, i)
    /\ NoDuplicates(s.pages) => Counted(s.pages, m) = s.observed
    /\ IF m = 0 THEN s.count = None /\ s.observed = 0 /\ s.seen = {} /\ s.cursor = None
       ELSE s.count = s.pages[1].total
    /\ s.seen = Cursors(s.pages, m)
ReadingOK(s) ==
    /\ s.pc = "list" =>
         /\ PagesOK(s) /\ \A i \in 1 .. Len(s.pages) : s.pages[i].has_next
         /\ Len(s.pages) <= s.observed /\ (s.pages # << >> => s.observed < s.count)
    /\ s.pc = "listed" =>
         /\ PagesOK(s) /\ s.pages # << >> /\ s.observed = s.count
         /\ \A i \in 1 .. Len(s.pages) : s.pages[i].has_next <=> i # Len(s.pages)

\* What was read, and what was written, was current at some moment.
HeldOK(r) ==
    LET s == run[r] IN
    /\ s.pc \in {"list", "listed", "write", "done"} =>
         \A n \in DOMAIN expected : Current(table, n) => n \in held[r]
    /\ s.pc \in {"list", "listed"} =>
         \A item \in ItemsOf(s.pages) :
           item.name \in DOMAIN expected /\ schema_hash(item.source) = schema_hash(expected[item.name])
             => item.name \in held[r]
    /\ s.pc = "write" => DOMAIN expected \ s.todo \subseteq held[r]
    /\ s.pc = "done" => held[r] = DOMAIN expected

\* Undisturbed, what was read is the table t up to the cursor.
ReadsTable(s, t) ==
    /\ s.pc \in {"list", "listed"} =>
         /\ NoDuplicates(s.pages)
         /\ \A item \in ItemsOf(s.pages) : item.name \in Present(t) /\ item.source = t[item.name]
    /\ s.pc = "list" =>
         /\ NamesIn(s.pages) = Present(t) \ After(t, s.cursor)
         /\ s.pages # << >> => /\ s.count = Cardinality(Present(t)) /\ s.cursor # None
                               /\ \A c \in s.seen : c <= s.cursor
                               /\ After(t, s.cursor) # {}
    /\ s.pc = "listed" => NamesIn(s.pages) = Present(t)
Undisturbed(r) ==
    LET s == run[r] IN
    /\ ReadsTable(s, table)
    /\ s.pc = "write" => \A n \in DOMAIN expected \ s.todo : Current(table, n)
    /\ s.pc = "done" /\ Operation[r] = "schema-sync" => \A n \in DOMAIN expected : Current(table, n)
    /\ s.pc = "failed" /\ Operation[r] = "schema-check" => \E n \in DOMAIN expected : ~Current(table, n)

SchemaInv ==
    /\ SchemaTypes
    /\ \A r \in Runs : ReadingOK(run[r]) /\ HeldOK(r)
QuietOK == \A r \in Runs : quiet[r] => Undisturbed(r)

-----------------------------------------------------------------------------
(***************************************************************************)
(* Sets of names, pages and what they hold.                                *)
(***************************************************************************)
LEMMA Basics ==
    /\ Names \subseteq Nat /\ IsFiniteSet(Names) /\ None \notin Names /\ None \notin Sources
    /\ None \notin Int /\ None \notin Runs /\ None \notin Answers
    /\ DOMAIN expected \subseteq Names /\ \A n \in DOMAIN expected : expected[n] \in Sources
    /\ PageSize \in Nat /\ PageSize > 0 /\ PageLimit \in Nat /\ PageLimit > 0 /\ MaxEdits \in Nat
<1>1. \A x \in Nat \ {0} : x \in Nat /\ x \in Int /\ x > 0
  OBVIOUS
<1>2. /\ Names \subseteq Nat \ {0} /\ IsFiniteSet(Names) /\ None \notin Int /\ None \notin Sources
      /\ None \notin Runs /\ None \notin Answers /\ DOMAIN expected \subseteq Names
      /\ \A n \in DOMAIN expected : expected[n] \in Sources
      /\ PageSize \in Nat \ {0} /\ PageLimit \in Nat \ {0} /\ MaxEdits \in Nat
  BY SchemaAssumption, Zenon
<1>3. Names \subseteq Nat /\ Names \subseteq Int
  BY <1>1, <1>2, Zenon
<1> QED BY <1>1, <1>2, <1>3, Zenon

LEMMA Smallest ==
    ASSUME NEW T \in SUBSET Nat, T # {}
    PROVE  \E x \in T : \A y \in T : x <= y
<1> DEFINE R == OpToRel(<, Nat)
<1>1. IsWellFoundedOn(R, Nat)
  BY NatLessThanWellFounded, Zenon
<1>2. \A x, y \in Nat : x < y => <<x, y>> \in R
  BY DEF OpToRel
<1> HIDE DEF R
<1>3. PICK x \in T : \A y \in T : ~(<<y, x>> \in R)
  BY <1>1, WFMin
<1>4. \A y \in T : ~(y < x)
  BY <1>2, <1>3
<1> QED BY <1>3, <1>4

LEMMA PageFields ==
    ASSUME NEW p \in Page
    PROVE  /\ p.items \in Seq(Items) /\ p.total \in Int /\ p.has_next \in BOOLEAN
           /\ p.next \in Names \cup {None} /\ p.cursor \in Names \cup {None}
           /\ \A k \in DOMAIN p.items : /\ p.items[k] \in Items /\ p.items[k].name \in Names
                                        /\ p.items[k].source \in Sources \cup {None}
<1>1. /\ p.items \in Seq(Items) /\ p.total \in Int /\ p.has_next \in BOOLEAN
      /\ p.next \in Names \cup {None} /\ p.cursor \in Names \cup {None}
  BY DEF Page
<1>2. \A k \in DOMAIN p.items : p.items[k] \in Items
  BY <1>1
<1>3. \A x \in Items : x.name \in Names /\ x.source \in Sources \cup {None}
  BY DEF Items
<1> QED BY <1>1, <1>2, <1>3, Zenon

LEMMA Held ==
    ASSUME NEW P \in Seq(Page)
    PROVE  /\ DOMAIN P = 1 .. Len(P) /\ Len(P) \in Nat /\ \A i \in 1 .. Len(P) : P[i] \in Page
           /\ ItemsOf(P) \subseteq Items /\ NamesIn(P) \subseteq Names
           /\ IsFiniteSet(NamesIn(P)) /\ Cardinality(NamesIn(P)) \in Nat
           /\ Cardinality(NamesIn(P)) <= Cardinality(Names)
           /\ DOMAIN Found(P) = NamesIn(P)
<1>1. DOMAIN P = 1 .. Len(P) /\ Len(P) \in Nat /\ \A i \in 1 .. Len(P) : P[i] \in Page
  OBVIOUS
<1>2. ASSUME NEW i \in DOMAIN P, NEW x \in Range(P[i].items) PROVE x \in Items
  BY <1>1, <1>2, PageFields DEF Range
<1>3. ItemsOf(P) \subseteq Items
  BY <1>2 DEF ItemsOf
<1>4. NamesIn(P) \subseteq Names
  BY <1>3 DEF NamesIn, Items
<1>5. IsFiniteSet(NamesIn(P)) /\ Cardinality(NamesIn(P)) <= Cardinality(Names)
  BY <1>4, Basics, FS_Subset
<1>6. Cardinality(NamesIn(P)) \in Nat
  BY <1>5, FS_CardinalityType
<1>7. DOMAIN Found(P) = NamesIn(P)
  BY DEF Found, NamesIn
<1> QED BY <1>1, <1>3, <1>4, <1>5, <1>6, <1>7

\* A name that was found has the source of one of the items.
LEMMA FoundItem ==
    ASSUME NEW P, NEW n \in NamesIn(P)
    PROVE  \E item \in ItemsOf(P) : item.name = n /\ Found(P)[n] = item.source
<1> DEFINE c == CHOOSE item \in ItemsOf(P) : item.name = n
<1>1. \E item \in ItemsOf(P) : item.name = n
  BY DEF NamesIn
<1>2. c \in ItemsOf(P) /\ c.name = n
  BY <1>1
<1>3. Found(P)[n] = c.source
  BY DEF Found, NamesIn
<1> QED BY <1>2, <1>3

LEMMA NothingListed ==
    /\ ItemsOf(<< >>) = {} /\ NamesIn(<< >>) = {} /\ NoDuplicates(<< >>) /\ Cursors(<< >>, 0) = {}
BY DEF ItemsOf, NamesIn, NoDuplicates, Cursors

LEMMA Appended ==
    ASSUME NEW P \in Seq(Page), NEW x \in Page, NEW Q, Q = Append(P, x), NEW m, m = Len(P)
    PROVE  /\ Q \in Seq(Page) /\ Len(Q) = m + 1 /\ Q[m + 1] = x /\ \A i \in 1 .. m : Q[i] = P[i]
           /\ SubSeq(Q, 1, m + 1) = Q /\ SubSeq(P, 1, m) = P
           /\ \A i \in 1 .. m : SubSeq(Q, 1, i) = SubSeq(P, 1, i)
           /\ m \in Nat /\ DOMAIN Q = 1 .. m + 1 /\ DOMAIN P = 1 .. m
<1>1. /\ Q \in Seq(Page) /\ Len(Q) = m + 1 /\ Q[m + 1] = x /\ \A i \in 1 .. m : Q[i] = P[i]
      /\ m \in Nat /\ DOMAIN Q = 1 .. m + 1 /\ DOMAIN P = 1 .. m
  OBVIOUS
<1>2. SubSeq(Q, 1, m + 1) = Q /\ SubSeq(P, 1, m) = P
  <2>1. \A s \in Seq(Page) : SubSeq(s, 1, Len(s)) = s
    OBVIOUS
  <2> QED BY <1>1, <2>1
<1>3. ASSUME NEW i \in 1 .. m PROVE SubSeq(Q, 1, i) = SubSeq(P, 1, i)
  <2>1. \A s \in Seq(Page) : \A j \in 1 .. Len(s) : SubSeq(s, 1, j) = [k \in 1 .. j |-> s[k]]
    OBVIOUS
  <2>2. SubSeq(Q, 1, i) = [k \in 1 .. i |-> Q[k]] /\ SubSeq(P, 1, i) = [k \in 1 .. i |-> P[k]]
    BY <1>1, <2>1
  <2>3. \A k \in 1 .. i : Q[k] = P[k]
    BY <1>1
  <2> QED BY <2>2, <2>3
<1> QED BY <1>1, <1>2, <1>3

LEMMA AppendedItems ==
    ASSUME NEW P \in Seq(Page), NEW x \in Page, NEW Q, Q = Append(P, x)
    PROVE  /\ ItemsOf(Q) = ItemsOf(P) \cup Range(x.items)
           /\ NamesIn(Q) = NamesIn(P) \cup NamesOf(x.items)
<1> DEFINE m == Len(P)
<1>1. /\ Q[m + 1] = x /\ \A i \in 1 .. m : Q[i] = P[i]
      /\ m \in Nat /\ DOMAIN Q = 1 .. m + 1 /\ DOMAIN P = 1 .. m
  BY Appended
<1>2. DOMAIN Q = DOMAIN P \cup {m + 1}
  BY <1>1
<1> HIDE DEF m
<1>3. ASSUME NEW y \in ItemsOf(Q) PROVE y \in ItemsOf(P) \cup Range(x.items)
  <2>1. PICK i \in DOMAIN Q : y \in Range(Q[i].items)
    BY DEF ItemsOf
  <2> QED BY <1>1, <1>2, <2>1 DEF ItemsOf
<1>4. ASSUME NEW y \in ItemsOf(P) PROVE y \in ItemsOf(Q)
  <2>1. PICK i \in DOMAIN P : y \in Range(P[i].items)
    BY DEF ItemsOf
  <2> QED BY <1>1, <1>2, <2>1 DEF ItemsOf
<1>5. ASSUME NEW y \in Range(x.items) PROVE y \in ItemsOf(Q)
  BY <1>1, <1>2 DEF ItemsOf
<1>6. ItemsOf(Q) = ItemsOf(P) \cup Range(x.items)
  BY <1>3, <1>4, <1>5
<1>7. NamesOf(x.items) = {y.name : y \in Range(x.items)}
  BY DEF NamesOf, Range
<1> QED BY <1>6, <1>7 DEF NamesIn

LEMMA AppendedCursors ==
    ASSUME NEW P \in Seq(Page), NEW x \in Page
    PROVE  /\ \A i \in 0 .. Len(P) : Cursors(Append(P, x), i) = Cursors(P, i)
           /\ x.has_next => Cursors(Append(P, x), Len(P) + 1) = Cursors(P, Len(P)) \cup {x.next}
           /\ ~x.has_next => Cursors(Append(P, x), Len(P) + 1) = Cursors(P, Len(P))
<1>a. PICK Q : Q = Append(P, x)
  OBVIOUS
<1>b. PICK m : m = Len(P)
  OBVIOUS
<1>1. /\ Q[m + 1] = x /\ \A i \in 1 .. m : Q[i] = P[i]
      /\ m \in Nat /\ DOMAIN Q = 1 .. m + 1 /\ DOMAIN P = 1 .. m
  BY <1>a, <1>b, Appended
<1>2. ASSUME NEW i \in 0 .. m PROVE Cursors(Q, i) = Cursors(P, i)
  <2>1. \A k \in 1 .. i : Q[k] = P[k]
    BY <1>1
  <2>2. {k \in 1 .. i : Q[k].has_next} = {k \in 1 .. i : P[k].has_next}
    BY <2>1
  <2> QED BY <2>1, <2>2 DEF Cursors
<1>3. 1 .. m + 1 = 1 .. m \cup {m + 1} /\ m \in 0 .. m
  BY <1>1
<1>4. ASSUME x.has_next PROVE Cursors(Q, m + 1) = Cursors(P, m) \cup {x.next}
  <2>1. {k \in 1 .. m + 1 : Q[k].has_next} = {k \in 1 .. m : Q[k].has_next} \cup {m + 1}
    BY <1>1, <1>3, <1>4
  <2>2. Cursors(Q, m + 1) = Cursors(Q, m) \cup {Q[m + 1].next}
    BY <2>1 DEF Cursors
  <2> QED BY <1>1, <1>2, <1>3, <1>4, <2>2
<1>5. ASSUME ~x.has_next PROVE Cursors(Q, m + 1) = Cursors(P, m)
  <2>1. {k \in 1 .. m + 1 : Q[k].has_next} = {k \in 1 .. m : Q[k].has_next}
    BY <1>1, <1>3, <1>5
  <2>2. Cursors(Q, m + 1) = Cursors(Q, m)
    BY <2>1 DEF Cursors
  <2> QED BY <1>1, <1>2, <1>3, <1>5, <2>2
<1> QED BY <1>a, <1>b, <1>2, <1>4, <1>5

Distinct(items) == \A k, l \in DOMAIN items : items[k].name = items[l].name => k = l

LEMMA AppendedDistinct ==
    ASSUME NEW P \in Seq(Page), NEW x \in Page, NEW Q, Q = Append(P, x)
    PROVE  NoDuplicates(Q) <=> /\ NoDuplicates(P) /\ Distinct(x.items)
                               /\ NamesIn(P) \cap NamesOf(x.items) = {}
<1> DEFINE m == Len(P)
<1>1. /\ Q[m + 1] = x /\ \A i \in 1 .. m : Q[i] = P[i]
      /\ m \in Nat /\ DOMAIN Q = 1 .. m + 1 /\ DOMAIN P = 1 .. m
  BY Appended
<1>2. DOMAIN Q = DOMAIN P \cup {m + 1} /\ m + 1 \notin DOMAIN P /\ \A i \in DOMAIN P : Q[i] = P[i]
  BY <1>1
<1> HIDE DEF m
<1>3. NamesIn(P) = UNION {NamesOf(P[i].items) : i \in DOMAIN P}
  BY DEF NamesIn, NamesOf, ItemsOf, Range
<1>4. ASSUME NoDuplicates(Q)
      PROVE  /\ NoDuplicates(P) /\ Distinct(x.items) /\ NamesIn(P) \cap NamesOf(x.items) = {}
  <2>1. NoDuplicates(P)
    BY <1>2, <1>4 DEF NoDuplicates
  <2>2. Distinct(x.items)
    BY <1>1, <1>2, <1>4 DEF NoDuplicates, Distinct
  <2>3. ASSUME NEW n \in NamesIn(P), n \in NamesOf(x.items) PROVE FALSE
    <3>0. PICK i \in DOMAIN P : n \in NamesOf(P[i].items)
      BY <1>3
    <3>1. PICK k \in DOMAIN P[i].items : P[i].items[k].name = n
      BY <3>0 DEF NamesOf
    <3>2. PICK l \in DOMAIN x.items : x.items[l].name = n
      BY <2>3 DEF NamesOf
    <3>3. i = m + 1
      BY <1>1, <1>2, <1>4, <3>1, <3>2 DEF NoDuplicates
    <3> QED BY <1>2, <3>3
  <2> QED BY <2>1, <2>2, <2>3
<1>5. ASSUME NoDuplicates(P), Distinct(x.items), NamesIn(P) \cap NamesOf(x.items) = {}
      PROVE  NoDuplicates(Q)
  <2> SUFFICES ASSUME NEW i \in DOMAIN Q, NEW j \in DOMAIN Q,
                      NEW k \in DOMAIN Q[i].items, NEW l \in DOMAIN Q[j].items,
                      Q[i].items[k].name = Q[j].items[l].name
               PROVE  i = j /\ k = l
    BY DEF NoDuplicates
  <2>1. CASE i \in DOMAIN P /\ j \in DOMAIN P
    BY <1>2, <1>5, <2>1 DEF NoDuplicates
  <2>2. CASE i = m + 1 /\ j = m + 1
    BY <1>1, <1>5, <2>2 DEF Distinct
  <2>3. CASE i \in DOMAIN P /\ j = m + 1
    <3>1. Q[i].items[k].name \in NamesIn(P)
      BY <1>2, <1>3, <2>3 DEF NamesOf
    <3>2. Q[j].items[l].name \in NamesOf(x.items)
      BY <1>1, <2>3 DEF NamesOf
    <3> QED BY <1>5, <3>1, <3>2
  <2>4. CASE i = m + 1 /\ j \in DOMAIN P
    <3>1. Q[j].items[l].name \in NamesIn(P)
      BY <1>2, <1>3, <2>4 DEF NamesOf
    <3>2. Q[i].items[k].name \in NamesOf(x.items)
      BY <1>1, <2>4 DEF NamesOf
    <3> QED BY <1>5, <3>1, <3>2
  <2> QED BY <1>2, <2>1, <2>2, <2>3, <2>4
<1> QED BY <1>4, <1>5

LEMMA Interval ==
    ASSUME NEW n \in Nat
    PROVE  IsFiniteSet(1 .. n) /\ Cardinality(1 .. n) = n
<1>1. 1 \in Int /\ n \in Int
  OBVIOUS
<1>2. IsFiniteSet(1 .. n) /\ Cardinality(1 .. n) = IF 1 > n THEN 0 ELSE n - 1 + 1
  BY <1>1, FS_Interval, Zenon
<1> QED BY <1>2

\* Items with distinct names are as many as their names.
LEMMA NamesCount ==
    ASSUME NEW items \in Seq(Items)
    PROVE  /\ IsFiniteSet(NamesOf(items)) /\ NamesOf(items) \subseteq Names
           /\ Distinct(items) => Cardinality(NamesOf(items)) = Len(items)
<1> DEFINE D == 1 .. Len(items)
           f == [k \in D |-> items[k].name]
<1>1. DOMAIN items = D /\ Len(items) \in Nat /\ \A k \in D : items[k] \in Items
  OBVIOUS
<1>2. \A k \in D : items[k].name \in Names
  BY <1>1 DEF Items
<1>3. NamesOf(items) \subseteq Names
  BY <1>1, <1>2 DEF NamesOf
<1>4. IsFiniteSet(NamesOf(items))
  BY <1>3, Basics, FS_Subset
<1>5. ASSUME Distinct(items) PROVE Cardinality(NamesOf(items)) = Len(items)
  <2>1. f \in [D -> NamesOf(items)]
    BY <1>1 DEF NamesOf
  <2>2. \A k, l \in D : f[k] = f[l] => k = l
    BY <1>1, <1>5 DEF Distinct
  <2>3. \A n \in NamesOf(items) : \E k \in D : f[k] = n
    BY <1>1 DEF NamesOf
  <2> HIDE DEF f
  <2>4. f \in Bijection(D, NamesOf(items))
    BY <2>1, <2>2, <2>3 DEF Bijection, Injection, Surjection, IsInjective
  <2>5. IsFiniteSet(D) /\ Cardinality(D) = Len(items)
    BY <1>1, Interval
  <2> QED BY <2>4, <2>5, FS_Bijection DEF ExistsBijection
<1> QED BY <1>3, <1>4, <1>5

LEMMA AppendedCount ==
    ASSUME NEW P \in Seq(Page), NEW x \in Page, NEW Q, Q = Append(P, x), NoDuplicates(Q)
    PROVE  /\ NoDuplicates(P)
           /\ Cardinality(NamesIn(Q)) = Cardinality(NamesIn(P)) + Len(x.items)
<1>1. NoDuplicates(P) /\ Distinct(x.items) /\ NamesIn(P) \cap NamesOf(x.items) = {}
  BY AppendedDistinct
<1>2. x.items \in Seq(Items)
  BY PageFields
<1>3. IsFiniteSet(NamesOf(x.items)) /\ Cardinality(NamesOf(x.items)) = Len(x.items)
  BY <1>1, <1>2, NamesCount
<1>4. IsFiniteSet(NamesIn(P)) /\ Cardinality(NamesIn(P)) \in Nat /\ Len(x.items) \in Nat
  BY <1>2, Held
<1>5. NamesIn(Q) = NamesIn(P) \cup NamesOf(x.items)
  BY AppendedItems
<1>6. Cardinality(NamesIn(P) \cup NamesOf(x.items)) =
        Cardinality(NamesIn(P)) + Cardinality(NamesOf(x.items)) - Cardinality(NamesIn(P) \cap NamesOf(x.items))
  BY <1>3, <1>4, FS_Union
<1>7. Cardinality(NamesIn(P) \cap NamesOf(x.items)) = 0
  BY <1>1, FS_EmptySet
<1> QED BY <1>1, <1>3, <1>4, <1>5, <1>6, <1>7

-----------------------------------------------------------------------------
(***************************************************************************)
(* One answer of the Control Plane.                                        *)
(***************************************************************************)
LEMMA ProcessFields ==
    ASSUME NEW s \in Process
    PROVE  /\ s.cursor \in Names \cup {None} /\ s.count \in Int \cup {None} /\ s.observed \in Nat
           /\ s.pages \in Seq(Page) /\ s.seen \subseteq Names /\ s.todo \subseteq DOMAIN expected
           /\ s.posts \subseteq DOMAIN expected
BY DEF Process

PageFor(s, a) == [items |-> a.items, total |-> a.total, has_next |-> a.has_next,
                  next |-> a.next, cursor |-> s.cursor]

LEMMA AnswerFields ==
    ASSUME NEW a \in Answers
    PROVE  /\ a.items \in Seq(Items) /\ Len(a.items) \in Nat /\ a.total \in Int
           /\ a.has_next \in BOOLEAN /\ a.next \in Names \cup {None} /\ a # None
<1>1. /\ a.items \in Seq(Items) /\ a.total \in Int
      /\ a.has_next \in BOOLEAN /\ a.next \in Names \cup {None}
  BY DEF Answers
<1>2. Len(a.items) \in Nat
  BY <1>1
<1>3. a # None
  BY Basics
<1> QED BY <1>1, <1>2, <1>3

LEMMA PageForFields ==
    ASSUME NEW s \in Process, NEW a \in Answers, NEW x, x = PageFor(s, a)
    PROVE  /\ x \in Page /\ x.items = a.items /\ x.total = a.total /\ x.has_next = a.has_next
           /\ x.next = a.next /\ x.cursor = s.cursor
BY AnswerFields, ProcessFields DEF PageFor, Page

LEMMA AcceptedFields ==
    ASSUME NEW s \in Process, NEW a \in Answers, a.has_next => a.next # None,
           NEW u, u = AcceptPage(s, a)
    PROVE  /\ u \in Process /\ u.pages = Append(s.pages, PageFor(s, a))
           /\ u.observed = s.observed + Len(a.items) /\ u.count = a.total
           /\ u.seen = s.seen \cup IF a.has_next THEN {a.next} ELSE {}
           /\ u.cursor = IF a.has_next THEN a.next ELSE s.cursor
           /\ u.pc = IF ~a.has_next THEN "listed"
                     ELSE IF Len(s.pages) + 1 = PageLimit THEN "failed" ELSE "list"
           /\ u.todo = s.todo /\ u.posts = s.posts
<1>1. PICK pp : pp = Append(s.pages, PageFor(s, a))
  OBVIOUS
<1>2. PICK oo : oo = s.observed + Len(a.items)
  OBVIOUS
<1>3. PICK ss : ss = IF a.has_next THEN s.seen \cup {a.next} ELSE s.seen
  OBVIOUS
<1>4. PICK cc : cc = IF a.has_next THEN a.next ELSE s.cursor
  OBVIOUS
<1>5. PICK pc : pc = IF ~a.has_next THEN "listed"
                     ELSE IF Len(s.pages) + 1 = PageLimit THEN "failed" ELSE "list"
  OBVIOUS
<1>6. u = [s EXCEPT !.pages = pp, !.observed = oo, !.count = a.total, !.seen = ss, !.cursor = cc, !.pc = pc]
  BY <1>1, <1>2, <1>3, <1>4, <1>5 DEF AcceptPage, PageFor
<1>7. pp \in Seq(Page)
  BY <1>1, PageForFields, ProcessFields, Appended
<1>8. oo \in Nat /\ a.total \in Int
  BY <1>2, AnswerFields, ProcessFields
<1>9. ss \subseteq Names /\ cc \in Names \cup {None}
  BY <1>3, <1>4, AnswerFields, ProcessFields
<1>10. pc \in {"listed", "failed", "list"}
  BY <1>5
<1>11. /\ u.pages = pp /\ u.observed = oo /\ u.count = a.total /\ u.seen = ss
       /\ u.cursor = cc /\ u.pc = pc /\ u.todo = s.todo /\ u.posts = s.posts
  BY <1>6 DEF Process
<1>12. u = [pc |-> pc, cursor |-> cc, count |-> a.total, observed |-> oo, pages |-> pp, seen |-> ss,
            todo |-> s.todo, posts |-> s.posts]
  BY <1>6 DEF Process
<1>13. u \in Process
  BY <1>7, <1>8, <1>9, <1>10, <1>12, ProcessFields DEF Process
<1> QED BY <1>1, <1>2, <1>3, <1>4, <1>5, <1>11, <1>13

\* Accepting a page keeps what the reader knows of the pages before it.
LEMMA AcceptedReading ==
    ASSUME NEW s \in Process, s.pc = "list", ReadingOK(s), NEW a \in Answers, ~AnswerRefused(s, a)
    PROVE  AcceptPage(s, a) \in Process /\ ReadingOK(AcceptPage(s, a))
<1>a. PICK P : P = s.pages
  OBVIOUS
<1>b. PICK m : m = Len(P)
  OBVIOUS
<1>c. PICK x : x = PageFor(s, a)
  OBVIOUS
<1>d. PICK Q : Q = Append(P, x)
  OBVIOUS
<1>e. PICK n : n = s.observed + Len(a.items)
  OBVIOUS
<1>1. PICK u : u = AcceptPage(s, a)
  OBVIOUS
<1>2. /\ PagesOK(s) /\ \A i \in 1 .. m : P[i].has_next
      /\ m <= s.observed /\ (P # << >> => s.observed < s.count)
  BY <1>a, <1>b DEF ReadingOK
<1>3. /\ a.total >= 0 /\ (s.count = None \/ a.total = s.count) /\ (a.has_next => a.next # None)
      /\ n <= a.total /\ (~a.has_next => n = a.total)
      /\ a.has_next => n < a.total /\ a.items # << >> /\ a.next \notin s.seen /\ a.next # s.cursor
  BY <1>e, AnswerFields, ProcessFields DEF AnswerRefused, Malformed, NoProgress, CursorRepeats
<1>4. /\ u \in Process /\ u.pages = Q /\ u.observed = n /\ u.count = a.total
      /\ u.seen = s.seen \cup IF a.has_next THEN {a.next} ELSE {}
      /\ u.cursor = IF a.has_next THEN a.next ELSE s.cursor
      /\ u.pc = IF ~a.has_next THEN "listed" ELSE IF m + 1 = PageLimit THEN "failed" ELSE "list"
  BY <1>a, <1>b, <1>c, <1>d, <1>e, <1>1, <1>3, AcceptedFields
<1>5. /\ x \in Page /\ x.items = a.items /\ x.total = a.total /\ x.has_next = a.has_next
      /\ x.next = a.next /\ x.cursor = s.cursor
  BY <1>c, PageForFields
<1>6. /\ P \in Seq(Page) /\ m \in Nat /\ s.observed \in Nat /\ Len(a.items) \in Nat
      /\ n \in Nat /\ n = s.observed + Len(a.items)
  BY <1>a, <1>b, <1>e, ProcessFields, AnswerFields
<1>7. /\ Q \in Seq(Page) /\ Len(Q) = m + 1 /\ Q[m + 1] = x /\ \A i \in 1 .. m : Q[i] = P[i]
      /\ SubSeq(Q, 1, m + 1) = Q /\ SubSeq(P, 1, m) = P
      /\ \A i \in 1 .. m : SubSeq(Q, 1, i) = SubSeq(P, 1, i)
      /\ DOMAIN Q = 1 .. m + 1 /\ DOMAIN P = 1 .. m
  BY <1>b, <1>d, <1>5, <1>6, Appended
<1>8. /\ \A i \in 0 .. m : Cursors(Q, i) = Cursors(P, i)
      /\ x.has_next => Cursors(Q, m + 1) = Cursors(P, m) \cup {x.next}
      /\ ~x.has_next => Cursors(Q, m + 1) = Cursors(P, m)
  <2>1. x \in Page
    BY <1>5
  <2>2. P \in Seq(Page)
    BY <1>6
  <2>3. \A i \in 0 .. m : Cursors(Q, i) = Cursors(P, i)
    BY <1>b, <1>d, <2>1, <2>2, AppendedCursors
  <2>4. x.has_next => Cursors(Q, m + 1) = Cursors(P, m) \cup {x.next}
    BY <1>b, <1>d, <2>1, <2>2, AppendedCursors
  <2>5. ~x.has_next => Cursors(Q, m + 1) = Cursors(P, m)
    BY <1>b, <1>d, <2>1, <2>2, AppendedCursors
  <2> QED BY <2>3, <2>4, <2>5
<1>9. /\ \A i \in 1 .. m : PageOK(P, i)
      /\ NoDuplicates(P) => Counted(P, m) = s.observed
      /\ IF m = 0 THEN s.count = None /\ s.observed = 0 /\ s.seen = {} /\ s.cursor = None
         ELSE s.count = P[1].total
      /\ s.seen = Cursors(P, m)
  BY <1>a, <1>b, <1>2 DEF PagesOK
<1>10. NoDuplicates(Q) => NoDuplicates(P) /\ Counted(Q, m + 1) = n
  <2> SUFFICES ASSUME NoDuplicates(Q) PROVE NoDuplicates(P) /\ Counted(Q, m + 1) = n
    OBVIOUS
  <2>1. NoDuplicates(P) /\ Cardinality(NamesIn(Q)) = Cardinality(NamesIn(P)) + Len(x.items)
    BY <1>d, <1>5, <1>6, AppendedCount
  <2> QED BY <1>5, <1>6, <1>7, <1>9, <2>1 DEF Counted
<1>11. \A i \in 1 .. m + 1 : Q[i].total = a.total /\ a.total = Q[1].total
  <2>1. CASE m = 0
    BY <1>5, <1>6, <1>7, <2>1
  <2>2. CASE m > 0
    <3>1. 1 \in 1 .. m /\ Q[1] = P[1] /\ s.count = P[1].total
      BY <1>6, <1>7, <1>9, <2>2
    <3>2. P[1].total \in Int
      <4>1. P[1] \in Page
        BY <1>b, <1>6, <3>1, Held
      <4> QED BY <4>1, PageFields
    <3>3. a.total = P[1].total
      BY <1>3, <3>1, <3>2, Basics
    <3>4. \A i \in 1 .. m : Q[i] = P[i] /\ P[i].total = P[1].total
      BY <1>7, <1>9 DEF PageOK
    <3>5. \A i \in 1 .. m + 1 : i \in 1 .. m \/ i = m + 1
      BY <1>6
    <3> QED BY <1>5, <1>7, <3>1, <3>3, <3>4, <3>5
  <2> QED BY <1>6, <2>1, <2>2
<1>12. ASSUME NEW i \in 1 .. m PROVE PageOK(Q, i)
  <2>1. Q[i] = P[i] /\ Counted(Q, i) = Counted(P, i) /\ i - 1 \in 0 .. m /\ 1 \in 1 .. m
    <3>1. i - 1 \in 0 .. m /\ 1 \in 1 .. m
      BY <1>6
    <3>2. Q[i] = P[i] /\ SubSeq(Q, 1, i) = SubSeq(P, 1, i)
      BY <1>7
    <3> QED BY <3>1, <3>2 DEF Counted
  <2>2. Cursors(Q, i - 1) = Cursors(P, i - 1) /\ Q[1] = P[1] /\ PageOK(P, i)
    BY <1>7, <1>8, <1>9, <2>1
  <2> QED BY <1>10, <2>1, <2>2 DEF PageOK
<1>13. PageOK(Q, m + 1)
  <2>a. PICK i : i = m + 1
    OBVIOUS
  <2>1. i - 1 = m /\ m \in 0 .. m
    BY <1>6, <2>a
  <2>2. Cursors(Q, i - 1) = s.seen
    BY <1>8, <1>9, <2>1
  <2>3. Q[i].total = Q[1].total
    BY <1>6, <1>11, <2>a
  <2>4. /\ Q[i].total = a.total /\ Q[i].has_next = a.has_next /\ Q[i].items = a.items
        /\ Q[i].next = a.next /\ Q[i].cursor = s.cursor
    BY <1>5, <1>7, <2>a
  <2>5. Q[i].total >= 0
    BY <1>3, <2>4
  <2>6. ASSUME Q[i].has_next
        PROVE  /\ Q[i].next # None /\ Q[i].next \notin Cursors(Q, i - 1)
               /\ Q[i].next # Q[i].cursor /\ Q[i].items # << >>
               /\ NoDuplicates(Q) => Counted(Q, i) < Q[i].total
    BY <1>3, <1>10, <2>a, <2>2, <2>4, <2>6
  <2>7. PageOK(Q, i)
    BY <2>3, <2>5, <2>6, Zenon DEF PageOK
  <2> QED BY <2>a, <2>7
<1>14. PagesOK(u)
  <2>1. \A i \in 1 .. m + 1 : PageOK(Q, i)
    <3>1. \A i \in 1 .. m + 1 : i \in 1 .. m \/ i = m + 1
      BY <1>6
    <3> QED BY <1>12, <1>13, <3>1
  <2>2. u.seen = Cursors(Q, m + 1)
    BY <1>4, <1>5, <1>8, <1>9
  <2>3. u.count = Q[1].total /\ m + 1 # 0
    BY <1>4, <1>6, <1>11
  <2>4. Len(u.pages) = m + 1 /\ u.pages = Q
    BY <1>4, <1>7
  <2> QED BY <1>4, <1>10, <2>1, <2>2, <2>3, <2>4 DEF PagesOK
<1>15. ReadingOK(u)
  <2>1. \A i \in 1 .. m + 1 : Q[i].has_next <=> i # m + 1 \/ a.has_next
    <3>1. \A i \in 1 .. m + 1 : (i \in 1 .. m /\ i # m + 1) \/ i = m + 1
      BY <1>6
    <3> QED BY <1>2, <1>5, <1>7, <3>1 
  <2>2. u.pages = Q /\ Len(u.pages) = m + 1 /\ Q # << >>
    BY <1>4, <1>6, <1>7
  <2>3. a.has_next => Len(a.items) > 0 /\ m + 1 <= n /\ n < a.total
    BY <1>2, <1>3, <1>6, AnswerFields
  <2>4. CASE a.has_next
    <3>1. u.pc # "listed"
      BY <1>4, <2>4
    <3> QED BY <1>4, <1>14, <2>1, <2>2, <2>3, <2>4, <3>1 DEF ReadingOK
  <2>5. CASE ~a.has_next
    <3>1. u.pc = "listed" /\ u.observed = u.count
      BY <1>3, <1>4, <2>5
    <3> QED BY <1>14, <2>1, <2>2, <2>5, <3>1 DEF ReadingOK
  <2> QED BY <2>4, <2>5
<1> QED BY <1>1, <1>4, <1>15

-----------------------------------------------------------------------------
(***************************************************************************)
(* What the Control Plane answers.                                         *)
(***************************************************************************)
Tables == [Names -> Sources \cup {None}]

LEMMA NamesAfter ==
    ASSUME NEW t \in Tables, NEW c \in Names \cup {None}, NEW A, A = After(t, c), NEW F, F = FirstOf(A)
    PROVE  /\ Present(t) \subseteq Names /\ IsFiniteSet(Present(t)) /\ Cardinality(Present(t)) \in Nat
           /\ A \subseteq Present(t) /\ IsFiniteSet(A) /\ F \subseteq A
           /\ IsFiniteSet(F) /\ Cardinality(F) \in Nat
           /\ A # {} => Cardinality(F) > 0
<1>1. Present(t) \subseteq Names /\ A \subseteq Present(t) /\ F \subseteq A
  BY DEF Present, After, FirstOf
<1>2. IsFiniteSet(Present(t)) /\ IsFiniteSet(A) /\ IsFiniteSet(F)
  BY <1>1, Basics, FS_Subset
<1>3. Cardinality(Present(t)) \in Nat /\ Cardinality(F) \in Nat
  BY <1>2, FS_CardinalityType
<1>4. ASSUME A # {} PROVE Cardinality(F) > 0
  <2>1. A \subseteq Nat
    BY <1>1, Basics
  <2>2. PICK x \in A : \A y \in A : x <= y
    BY <1>4, <2>1, Smallest
  <2>3. {y \in A : y < x} = {}
    BY <2>1, <2>2
  <2>4. Cardinality({y \in A : y < x}) < PageSize
    BY <2>3, FS_EmptySet, Basics
  <2>5. x \in F
    BY <2>4 DEF FirstOf
  <2>6. Cardinality(F) # 0
    BY <1>2, <2>5, FS_EmptySet
  <2> QED BY <1>3, <2>6
<1> QED BY <1>1, <1>2, <1>3, <1>4

\* An answer lists names that are in the table with the source they have there.
FromTable(a, t) == \A k \in DOMAIN a.items : /\ a.items[k].name \in Present(t)
                                             /\ a.items[k].source = t[a.items[k].name]

\* The honest page: its items are q, the first names after the cursor in order.
LEMMA HonestPage ==
    ASSUME NEW t \in Tables, NEW c \in Names \cup {None}, NEW p \in PagesOf(t, c)
    PROVE  LET F == FirstOf(After(t, c)) IN
           /\ p \in Answers
           /\ \E q \in InOrder(F) :
                /\ DOMAIN q = 1 .. Cardinality(F) /\ Len(p.items) = Cardinality(F)
                /\ DOMAIN p.items = 1 .. Cardinality(F)
                /\ \A k \in 1 .. Cardinality(F) : /\ q[k] \in F /\ p.items[k].name = q[k]
                                                  /\ p.items[k].source = t[q[k]]
                /\ p.total = Cardinality(Present(t))
                /\ p.has_next <=> F # After(t, c)
                /\ p.next = IF F # After(t, c) THEN q[Cardinality(F)] ELSE None
           /\ FromTable(p, t)
<1>a. PICK A : A = After(t, c)
  OBVIOUS
<1>b. PICK F : F = FirstOf(A)
  OBVIOUS
<1>c. PICK N : N = Cardinality(F)
  OBVIOUS
<1>1. /\ Present(t) \subseteq Names /\ Cardinality(Present(t)) \in Nat
      /\ A \subseteq Present(t) /\ F \subseteq A /\ N \in Nat /\ (A # {} => N > 0)
  BY <1>a, <1>b, <1>c, NamesAfter
<1>2. PICK q \in InOrder(F) :
        p = [items |-> [i \in DOMAIN q |-> [name |-> q[i], source |-> t[q[i]]]],
             total |-> Cardinality(Present(t)), has_next |-> F # A,
             next |-> IF F # A THEN q[N] ELSE None]
  BY <1>a, <1>b, <1>c DEF PagesOf
<1>3. q \in [1 .. N -> F]
  BY <1>c DEF InOrder
<1>4. PICK items : items = [i \in 1 .. N |-> [name |-> q[i], source |-> t[q[i]]]]
  OBVIOUS
<1>5. PICK nx : nx = IF F # A THEN q[N] ELSE None
  OBVIOUS
<1>6. PICK tt : tt = Cardinality(Present(t))
  OBVIOUS
<1>7. p = [items |-> items, total |-> tt, has_next |-> F # A, next |-> nx]
  BY <1>2, <1>3, <1>4, <1>5, <1>6
<1>8. \A k \in 1 .. N : q[k] \in F /\ q[k] \in Names /\ t[q[k]] \in Sources \cup {None}
  BY <1>1, <1>3 DEF Tables
<1>9. \A k \in 1 .. N : [name |-> q[k], source |-> t[q[k]]] \in Items
  BY <1>8 DEF Items
<1>10. items \in [1 .. N -> Items]
  BY <1>4, <1>9
<1>11. items \in Seq(Items) /\ Len(items) = N /\ DOMAIN items = 1 .. N
  BY <1>1, <1>10
<1>12. nx \in Names \cup {None}
  <2>1. CASE F # A
    <3>1. A # {}
      BY <1>1, <2>1
    <3>2. N \in 1 .. N
      BY <1>1, <3>1
    <3> QED BY <1>5, <1>8, <3>2
  <2> QED BY <1>5, <2>1
<1>13. tt \in Int
  BY <1>1, <1>6
<1>14. p \in Answers
  BY <1>7, <1>11, <1>12, <1>13 DEF Answers
<1>15. p.items = items /\ p.total = tt /\ p.next = nx /\ (p.has_next <=> F # A)
  BY <1>7
<1>16. \A k \in 1 .. N : items[k].name = q[k] /\ items[k].source = t[q[k]]
  BY <1>4
<1>17. FromTable(p, t)
  BY <1>1, <1>8, <1>11, <1>15, <1>16 DEF FromTable
<1>18. /\ DOMAIN q = 1 .. N /\ Len(p.items) = N /\ DOMAIN p.items = 1 .. N
       /\ \A k \in 1 .. N : q[k] \in F /\ p.items[k].name = q[k] /\ p.items[k].source = t[q[k]]
       /\ p.total = Cardinality(Present(t)) /\ (p.has_next <=> F # A)
       /\ p.next = IF F # A THEN q[N] ELSE None
  BY <1>3, <1>5, <1>6, <1>8, <1>11, <1>15, <1>16
<1> QED BY <1>a, <1>b, <1>c, <1>14, <1>17, <1>18

LEMMA AnyAnswer ==
    ASSUME NEW t \in Tables, NEW c \in Names \cup {None},
           NEW a \in HonestAnswers(t, c) \cup OddAnswers(t, c), a # None
    PROVE  a \in Answers /\ FromTable(a, t)
<1>1. CASE a \in PagesOf(t, c)
  BY <1>1, HonestPage
<1>2. CASE a \notin PagesOf(t, c)
  <2>1. a \in OddAnswers(t, c)
    BY <1>2 DEF HonestAnswers
  <2>2. PICK p \in PagesOf(t, c) :
          \/ \E x \in -1 .. Cardinality(Names) + 1 : a = [p EXCEPT !.total = x]
          \/ \E x \in Names \cup {None} : a = [p EXCEPT !.next = x]
          \/ a = [p EXCEPT !.has_next = ~p.has_next]
          \/ a = [p EXCEPT !.items = << >>]
    BY <2>1 DEF OddAnswers
  <2>3. p \in Answers /\ FromTable(p, t)
    BY HonestPage
  <2>4. Cardinality(Names) \in Nat
    BY Basics, FS_CardinalityType
  <2>5. ASSUME NEW x \in -1 .. Cardinality(Names) + 1, a = [p EXCEPT !.total = x]
        PROVE  a \in Answers /\ a.items = p.items
    <3>1. x \in Int
      BY <2>4
    <3> QED BY <2>3, <2>5, <3>1 DEF Answers
  <2>6. ASSUME NEW x \in Names \cup {None}, a = [p EXCEPT !.next = x]
        PROVE  a \in Answers /\ a.items = p.items
    BY <2>3, <2>6 DEF Answers
  <2>7. ASSUME a = [p EXCEPT !.has_next = ~p.has_next] PROVE a \in Answers /\ a.items = p.items
    BY <2>3, <2>7 DEF Answers
  <2>8. ASSUME a = [p EXCEPT !.items = << >>] PROVE a \in Answers /\ a.items = << >>
    <3>1. << >> \in Seq(Items)
      OBVIOUS
    <3>2. PICK e \in Seq(Items) : e = << >>
      BY <3>1
    <3>3. a = [p EXCEPT !.items = e]
      BY <2>8, <3>2
    <3>4. a \in Answers /\ a.items = e
      BY <2>3, <3>3 DEF Answers
    <3> QED BY <3>2, <3>4
  <2>9. a \in Answers /\ (a.items = p.items \/ a.items = << >>)
    BY <2>2, <2>5, <2>6, <2>7, <2>8
  <2>10. DOMAIN << >> = {}
    OBVIOUS
  <2> QED BY <2>3, <2>9, <2>10 DEF FromTable
<1> QED BY <1>1, <1>2

LEMMA StoppedFields ==
    ASSUME NEW s \in Process, NEW w \in {"list", "listed", "done", "failed", "refused", "lost"},
           NEW u, u = [s EXCEPT !.pc = w]
    PROVE  /\ u \in Process /\ u.pc = w /\ u.pages = s.pages /\ u.cursor = s.cursor /\ u.count = s.count
           /\ u.observed = s.observed /\ u.seen = s.seen /\ u.todo = s.todo /\ u.posts = s.posts
BY DEF Process

\* A Control Plane without any schema: the one page is empty.
LEMMA EmptyReading ==
    ASSUME NEW s \in Process, s.pc = "list", ReadingOK(s), s.pages = << >>,
           NEW u, u = [s EXCEPT !.pages = <<EmptyPage>>, !.count = 0, !.pc = "listed"]
    PROVE  /\ u \in Process /\ ReadingOK(u) /\ u.pc = "listed" /\ ItemsOf(u.pages) = {}
           /\ NoDuplicates(u.pages)
<1>a. PICK P : P = << >>
  OBVIOUS
<1>c. PICK x : x = EmptyPage
  OBVIOUS
<1>b. PICK Q : Q = Append(P, x)
  OBVIOUS
<1>1. /\ x \in Page /\ x.items = << >> /\ x.total = 0 /\ ~x.has_next
  <2>1. << >> \in Seq(Items) /\ 0 \in Int
    OBVIOUS
  <2> QED BY <1>c, <2>1 DEF EmptyPage, Page
<1>2. P \in Seq(Page) /\ Len(P) = 0
  <2>1. << >> \in Seq(Page) /\ Len(<< >>) = 0
    OBVIOUS
  <2> QED BY <1>a, <2>1
<1>d. Q = <<EmptyPage>>
  BY <1>a, <1>b, <1>c
<1>3. /\ Q \in Seq(Page) /\ Len(Q) = 1 /\ Q[1] = x /\ SubSeq(Q, 1, 1) = Q
  <2>1. Q \in Seq(Page) /\ Len(Q) = 1 /\ Q[1] = x
    BY <1>b, <1>1, <1>2
  <2>2. \A z \in Seq(Page) : SubSeq(z, 1, Len(z)) = z
    OBVIOUS
  <2> QED BY <2>1, <2>2
<1>4. ItemsOf(P) = {} /\ NamesIn(P) = {} /\ NoDuplicates(P) /\ Cursors(P, 0) = {}
  BY <1>a, NothingListed
<1>5. Range(x.items) = {} /\ NamesOf(x.items) = {} /\ Distinct(x.items)
  BY <1>1 DEF Range, NamesOf, Distinct
<1>6. ItemsOf(Q) = {} /\ NamesIn(Q) = {}
  <2>1. P \in Seq(Page) /\ x \in Page
    BY <1>1, <1>2
  <2>2. ItemsOf(Q) = ItemsOf(P) \cup Range(x.items) /\ NamesIn(Q) = NamesIn(P) \cup NamesOf(x.items)
    BY <1>b, <2>1, AppendedItems
  <2> QED BY <1>4, <1>5, <2>2
<1>7. NoDuplicates(Q)
  BY <1>b, <1>1, <1>2, <1>4, <1>5, AppendedDistinct
<1>8. Cursors(Q, 1) = {}
  <2>1. Cursors(Append(P, x), Len(P) + 1) = Cursors(P, Len(P))
    BY <1>1, <1>2, AppendedCursors
  <2>2. Cursors(Q, 0 + 1) = {}
    BY <1>b, <1>2, <1>4, <2>1
  <2> QED BY <2>2
<1>9. s.observed = 0 /\ s.seen = {} /\ s.cursor = None
  BY DEF ReadingOK, PagesOK
<1>10. u = [s EXCEPT !.pages = Q, !.count = 0, !.pc = "listed"]
  BY <1>d
<1>11. /\ u.pages = Q /\ u.count = 0 /\ u.pc = "listed" /\ u.observed = 0 /\ u.seen = {}
  BY <1>9, <1>10 DEF Process
<1>12. u \in Process
  <2>1. u = [pc |-> "listed", cursor |-> s.cursor, count |-> 0, observed |-> s.observed, pages |-> Q,
             seen |-> s.seen, todo |-> s.todo, posts |-> s.posts]
    BY <1>10 DEF Process
  <2>2. 0 \in Int \cup {None}
    OBVIOUS
  <2> QED BY <1>3, <2>1, <2>2, ProcessFields DEF Process
<1>13. Counted(Q, 1) = 0
  BY <1>3, <1>6, FS_EmptySet DEF Counted
<1>14. PageOK(Q, 1)
  BY <1>1, <1>3 DEF PageOK
<1>15. 1 .. Len(Q) = {1} /\ Len(Q) # 0 /\ Q # << >>
  <2>1. 1 .. 1 = {1} /\ 1 # 0
    OBVIOUS
  <2>2. \A z : z = << >> => Len(z) = 0
    OBVIOUS
  <2> QED BY <1>3, <2>1, <2>2, Zenon
<1>16. PagesOK(u)
  BY <1>1, <1>3, <1>8, <1>11, <1>13, <1>14, <1>15 DEF PagesOK
<1>17. ReadingOK(u)
  BY <1>1, <1>3, <1>11, <1>15, <1>16 DEF ReadingOK
<1> QED BY <1>6, <1>7, <1>11, <1>12, <1>17

\* Whatever the answer, the reader knows of its pages what it has to know, and
\* each item it has is one it had or one of the table.
LEMMA AnsweredOK ==
    ASSUME NEW t \in Tables, NEW s \in Process, s.pc = "list", ReadingOK(s),
           NEW a \in HonestAnswers(t, s.cursor) \cup OddAnswers(t, s.cursor),
           NEW u, u = Answered(s, a)
    PROVE  /\ u \in Process /\ ReadingOK(u) /\ u.pc \in {"list", "listed", "failed"}
           /\ u.pc # "failed" =>
                \A item \in ItemsOf(u.pages) :
                   item \in ItemsOf(s.pages) \/ (item.name \in Present(t) /\ item.source = t[item.name])
<1>1. CASE u = [s EXCEPT !.pc = "failed"]
  <2>1. u \in Process /\ u.pc = "failed"
    BY <1>1, StoppedFields
  <2> QED BY <2>1 DEF ReadingOK
<1>2. CASE a = None /\ s.pages = << >>
  <2>1. u = [s EXCEPT !.pages = <<EmptyPage>>, !.count = 0, !.pc = "listed"]
    BY <1>2 DEF Answered
  <2> QED BY <1>2, <2>1, EmptyReading
<1>3. CASE a # None /\ ~AnswerRefused(s, a)
  <2>1. s.cursor \in Names \cup {None}
    BY ProcessFields
  <2>2. a \in Answers /\ FromTable(a, t)
    BY <1>3, <2>1, AnyAnswer
  <2>3. u = AcceptPage(s, a)
    BY <1>3 DEF Answered
  <2>4. u \in Process /\ ReadingOK(u)
    BY <1>3, <2>2, <2>3, AcceptedReading
  <2>5. a.has_next => a.next # None
    BY <1>3 DEF AnswerRefused, Malformed
  <2>6. u.pages = Append(s.pages, PageFor(s, a)) /\ u.pc \in {"list", "listed", "failed"}
    BY <2>2, <2>3, <2>5, AcceptedFields
  <2>7. PageFor(s, a) \in Page /\ PageFor(s, a).items = a.items
    BY <2>2, PageForFields
  <2>8. ItemsOf(u.pages) = ItemsOf(s.pages) \cup Range(a.items)
    <3>1. PICK x \in Page : x = PageFor(s, a) /\ x.items = a.items
      BY <2>7
    <3>2. PICK P \in Seq(Page) : P = s.pages
      BY ProcessFields
    <3>3. PICK Q : Q = u.pages /\ Q = Append(P, x)
      BY <2>6, <3>1, <3>2
    <3>4. ItemsOf(Q) = ItemsOf(P) \cup Range(x.items)
      BY <3>3, AppendedItems
    <3> QED BY <3>1, <3>2, <3>3, <3>4
  <2>9. \A item \in Range(a.items) : item.name \in Present(t) /\ item.source = t[item.name]
    BY <2>2 DEF Range, FromTable
  <2> QED BY <2>4, <2>6, <2>8, <2>9
<1> QED BY <1>1, <1>2, <1>3 DEF Answered

-----------------------------------------------------------------------------
(***************************************************************************)
(* The steps: one process moves, the history follows the table.            *)
(***************************************************************************)
\* The history of a process forgets nothing and has what became current.
Remembers(q) ==
    /\ held[q] \subseteq held'[q] /\ held'[q] \subseteq DOMAIN expected
    /\ \A n \in DOMAIN expected : Current(table', n) => n \in held'[q] \/ Current(table, n)

LEMMA Remembered ==
    ASSUME NEW q \in Runs, HeldOK(q), run'[q] = run[q],
           run[q].pc \in {"list", "listed", "write", "done"} => Remembers(q)
    PROVE  HeldOK(q)'
<1>1. CASE run[q].pc \notin {"list", "listed", "write", "done"}
  BY <1>1 DEF HeldOK
<1>2. CASE run[q].pc \in {"list", "listed", "write", "done"}
  BY <1>2 DEF HeldOK, Remembers
<1> QED BY <1>1, <1>2

LEMMA ObserveIs ==
    ASSUME SchemaTypes, NEW t \in Tables, NEW b, Observe(t, b)
    PROVE  /\ table' = t /\ held' \in [Runs -> SUBSET DOMAIN expected] /\ quiet' \in [Runs -> BOOLEAN]
           /\ \A q \in Runs : run[q].pc # "start" =>
                /\ Remembers(q) /\ \A n \in DOMAIN expected : Current(t, n) => n \in held'[q]
           /\ \A q \in Runs : run[q].pc # "start" => (quiet'[q] => quiet[q] /\ (t = table \/ q = b))
<1>1. /\ table' = t
      /\ held' = [r \in Runs |-> IF run[r].pc = "start" THEN {}
                                 ELSE held[r] \cup {n \in DOMAIN expected : Current(t, n)}]
      /\ quiet' = [r \in Runs |-> run[r].pc = "start" \/ (quiet[r] /\ (t = table \/ r = b))]
  BY DEF Observe
<1>2. held \in [Runs -> SUBSET DOMAIN expected]
  BY DEF SchemaTypes
<1>3. held' \in [Runs -> SUBSET DOMAIN expected]
  <2>1. \A r \in Runs : (IF run[r].pc = "start" THEN {}
                         ELSE held[r] \cup {n \in DOMAIN expected : Current(t, n)}) \in SUBSET DOMAIN expected
    BY <1>2
  <2> QED BY <1>1, <2>1
<1>4. quiet' \in [Runs -> BOOLEAN]
  BY <1>1, Zenon
<1>5. ASSUME NEW q \in Runs, run[q].pc # "start"
      PROVE  Remembers(q) /\ \A n \in DOMAIN expected : Current(t, n) => n \in held'[q]
  <2>1. held'[q] = held[q] \cup {n \in DOMAIN expected : Current(t, n)}
    BY <1>1, <1>5
  <2>2. \A n \in DOMAIN expected : Current(t, n) => n \in held'[q]
    BY <2>1
  <2>3. held'[q] \subseteq DOMAIN expected
    BY <1>3
  <2> QED BY <1>1, <2>1, <2>2, <2>3 DEF Remembers
<1>6. ASSUME NEW q \in Runs, run[q].pc # "start", quiet'[q] PROVE quiet[q] /\ (t = table \/ q = b)
  BY <1>1, <1>6, Zenon
<1> QED BY <1>1, <1>3, <1>4, <1>5, <1>6

LEMMA MoveTypes ==
    ASSUME SchemaTypes, NEW r \in Runs, NEW u \in Process, run' = [run EXCEPT ![r] = u],
           u.pc # "start", u.pc = "write" => Operation[r] = "schema-sync",
           table' \in Tables, edits' \in 0 .. MaxEdits,
           held' \in [Runs -> SUBSET DOMAIN expected], quiet' \in [Runs -> BOOLEAN]
    PROVE  SchemaTypes' /\ run'[r] = u /\ \A q \in Runs \ {r} : run'[q] = run[q]
<1>1. run \in [Runs -> Process]
  BY DEF SchemaTypes
<1>2. run' \in [Runs -> Process] /\ run'[r] = u /\ \A q \in Runs \ {r} : run'[q] = run[q]
  BY <1>1
<1>3. \A q \in Runs : run'[q].pc = "start" => run'[q] = Idle
  BY <1>2 DEF SchemaTypes
<1>4. \A q \in Runs : run'[q].pc = "write" => Operation[q] = "schema-sync"
  BY <1>2 DEF SchemaTypes
<1> QED BY <1>2, <1>3, <1>4 DEF SchemaTypes, Tables

\* One process moves and the invariant holds of it: it holds of the others.
LEMMA MoveKeeps ==
    ASSUME SchemaInv, NEW r \in Runs, NEW u \in Process, run' = [run EXCEPT ![r] = u],
           u.pc # "start", u.pc = "write" => Operation[r] = "schema-sync",
           table' \in Tables, edits' \in 0 .. MaxEdits,
           held' \in [Runs -> SUBSET DOMAIN expected], quiet' \in [Runs -> BOOLEAN],
           \A q \in Runs \ {r} : run[q].pc # "start" => Remembers(q),
           ReadingOK(u), HeldOK(r)'
    PROVE  SchemaInv'
<1>1. SchemaTypes' /\ run'[r] = u /\ \A q \in Runs \ {r} : run'[q] = run[q]
  BY MoveTypes DEF SchemaInv
<1>2. ASSUME NEW q \in Runs \ {r} PROVE ReadingOK(run'[q]) /\ HeldOK(q)'
  <2>1. ReadingOK(run[q]) /\ HeldOK(q)
    BY DEF SchemaInv
  <2> QED BY <1>1, <2>1, Remembered
<1>3. \A q \in Runs : ReadingOK(run'[q]) /\ HeldOK(q)'
  BY <1>1, <1>2
<1> QED BY <1>1, <1>3 DEF SchemaInv

LEMMA QuietlyIs ==
    ASSUME SchemaTypes, table' = table, held' = held
    PROVE  /\ table \in Tables /\ table' \in Tables /\ held' \in [Runs -> SUBSET DOMAIN expected]
           /\ \A q \in Runs : Remembers(q)
BY DEF SchemaTypes, Tables, Remembers

LEMMA GotoIs ==
    ASSUME SchemaTypes, NEW r \in Runs,
           NEW w \in {"list", "listed", "done", "failed", "refused", "lost"}, Goto(r, w)
    PROVE  \E u \in Process : /\ run' = [run EXCEPT ![r] = u] /\ u = [run[r] EXCEPT !.pc = w] /\ u.pc = w
                              /\ u.pages = run[r].pages /\ u.cursor = run[r].cursor /\ u.count = run[r].count
                              /\ u.observed = run[r].observed /\ u.seen = run[r].seen /\ u.todo = run[r].todo
                              /\ u.posts = run[r].posts
<1>1. run[r] \in Process /\ run \in [Runs -> Process]
  BY DEF SchemaTypes
<1>a. PICK s \in Process : s = run[r]
  BY <1>1
<1>2. PICK u : u = [s EXCEPT !.pc = w]
  OBVIOUS
<1>3. run' = [run EXCEPT ![r] = u]
  BY <1>1, <1>a, <1>2 DEF Goto
<1>4. /\ u \in Process /\ u.pc = w /\ u.pages = s.pages /\ u.cursor = s.cursor /\ u.count = s.count
      /\ u.observed = s.observed /\ u.seen = s.seen /\ u.todo = s.todo /\ u.posts = s.posts
  BY <1>2, StoppedFields
<1> QED BY <1>a, <1>2, <1>3, <1>4, Zenon

\* A process that stopped, or ended, has nothing more to show.
LEMMA StopKeeps ==
    ASSUME SchemaInv, NEW r \in Runs, NEW w \in {"failed", "refused", "lost"}, Goto(r, w),
           table' \in Tables, edits' \in 0 .. MaxEdits,
           held' \in [Runs -> SUBSET DOMAIN expected], quiet' \in [Runs -> BOOLEAN],
           \A q \in Runs \ {r} : run[q].pc # "start" => Remembers(q)
    PROVE  SchemaInv'
<1>1. SchemaTypes
  BY DEF SchemaInv
<1>2. PICK u \in Process : run' = [run EXCEPT ![r] = u] /\ u.pc = w
  BY <1>1, GotoIs
<1>3. run'[r] = u
  BY <1>1, <1>2 DEF SchemaTypes
<1>4. ReadingOK(u) /\ HeldOK(r)'
  BY <1>2, <1>3 DEF ReadingOK, HeldOK
<1> QED BY <1>2, <1>4, MoveKeeps

-----------------------------------------------------------------------------
(***************************************************************************)
(* Every step keeps the invariant.                                         *)
(***************************************************************************)
LEMMA IdleFields ==
    /\ Idle \in Process /\ Idle.pc = "start" /\ Idle.pages = << >> /\ Idle.cursor = None
    /\ Idle.count = None /\ Idle.observed = 0 /\ Idle.seen = {}
<1>1. << >> \in Seq(Page) /\ 0 \in Nat
  OBVIOUS
<1> QED BY <1>1 DEF Idle, Process

LEMMA NothingRead ==
    ASSUME NEW u \in Process, u.pc = "list", u.pages = << >>, u.cursor = None, u.count = None,
           u.observed = 0, u.seen = {}
    PROVE  ReadingOK(u) /\ ItemsOf(u.pages) = {} /\ NoDuplicates(u.pages)
<1>1. PICK P : P = u.pages
  OBVIOUS
<1>2. PICK m : m = Len(P)
  OBVIOUS
<1>3. m = 0 /\ 1 .. m = {}
  BY <1>1, <1>2
<1>4. P \in Seq(Page)
  BY <1>1, ProcessFields
<1>5. ItemsOf(P) = {} /\ NamesIn(P) = {} /\ NoDuplicates(P) /\ Cursors(P, 0) = {}
  BY <1>1, NothingListed
<1>6. SubSeq(P, 1, m) = P
  <2>1. \A z \in Seq(Page) : SubSeq(z, 1, Len(z)) = z
    OBVIOUS
  <2> QED BY <1>2, <1>4, <2>1
<1>7. Counted(P, m) = 0
  BY <1>5, <1>6, FS_EmptySet DEF Counted
<1>8. PagesOK(u)
  BY <1>1, <1>2, <1>3, <1>5, <1>7 DEF PagesOK
<1>9. ReadingOK(u)
  BY <1>1, <1>2, <1>3, <1>8 DEF ReadingOK
<1> QED BY <1>1, <1>5, <1>9

LEMMA BeginKeeps ==
    ASSUME SchemaInv, NEW r \in Runs, Begin(r)
    PROVE  SchemaInv'
<1>1. SchemaTypes /\ run \in [Runs -> Process] /\ run[r] = Idle
  BY DEF SchemaInv, SchemaTypes, Begin
<1>2. /\ table \in Tables /\ edits \in 0 .. MaxEdits /\ held \in [Runs -> SUBSET DOMAIN expected]
      /\ quiet \in [Runs -> BOOLEAN]
  BY <1>1 DEF SchemaTypes, Tables
<1>3. CASE Goto(r, "refused") /\ Quietly
  BY <1>1, <1>2, <1>3, QuietlyIs, StopKeeps DEF Quietly
<1>4. CASE /\ Goto(r, "list")
           /\ held' = [held EXCEPT ![r] = {n \in DOMAIN expected : Current(table, n)}]
           /\ UNCHANGED <<table, edits, quiet>>
  <2>1. PICK u \in Process : /\ run' = [run EXCEPT ![r] = u] /\ u.pc = "list" /\ u.pages = << >>
                             /\ u.cursor = None /\ u.count = None /\ u.observed = 0 /\ u.seen = {}
    BY <1>1, <1>4, GotoIs, IdleFields
  <2>2. held' \in [Runs -> SUBSET DOMAIN expected]
    BY <1>2, <1>4
  <2>3. \A q \in Runs \ {r} : Remembers(q)
    BY <1>2, <1>4 DEF Remembers
  <2>4. ReadingOK(u) /\ ItemsOf(u.pages) = {}
    BY <2>1, NothingRead
  <2>5. run'[r] = u /\ held'[r] = {n \in DOMAIN expected : Current(table, n)} /\ table' = table
    BY <1>1, <1>2, <1>4, <2>1
  <2>6. HeldOK(r)'
    BY <2>1, <2>4, <2>5 DEF HeldOK
  <2> QED BY <1>2, <1>4, <2>1, <2>2, <2>3, <2>4, <2>6, MoveKeeps
<1> QED BY <1>3, <1>4 DEF Begin

LEMMA RequestKeeps ==
    ASSUME SchemaInv, NEW r \in Runs, request_schema_pages(r)
    PROVE  SchemaInv'
<1>1. SchemaTypes /\ run \in [Runs -> Process] /\ run[r].pc = "list"
  BY DEF SchemaInv, SchemaTypes, request_schema_pages
<1>2. /\ table \in Tables /\ edits \in 0 .. MaxEdits /\ quiet \in [Runs -> BOOLEAN]
  BY <1>1 DEF SchemaTypes, Tables
<1>3. PICK s \in Process : s = run[r]
  BY <1>1
<1>4. PICK a \in HonestAnswers(table, s.cursor) \cup OddAnswers(table, s.cursor) :
        run' = [run EXCEPT ![r] = Answered(s, a)]
  BY <1>3 DEF request_schema_pages
<1>5. table' = table /\ held' = held
  BY DEF request_schema_pages, Quietly
<1>6. edits' \in 0 .. MaxEdits /\ quiet' \in [Runs -> BOOLEAN]
  <2>1. CASE Quietly
    BY <1>2, <2>1 DEF Quietly
  <2>2. CASE /\ edits < MaxEdits /\ edits' = edits + 1 /\ quiet' = [quiet EXCEPT ![r] = FALSE]
    BY <1>2, <2>2, Basics
  <2> QED BY <2>1, <2>2 DEF request_schema_pages
<1>7. PICK u : u = Answered(s, a)
  OBVIOUS
<1>8. ReadingOK(s) /\ HeldOK(r) /\ s.pc = "list"
  BY <1>1, <1>3 DEF SchemaInv
<1>9. /\ u \in Process /\ ReadingOK(u) /\ u.pc \in {"list", "listed", "failed"}
      /\ u.pc # "failed" => \A item \in ItemsOf(u.pages) :
           item \in ItemsOf(s.pages) \/ (item.name \in Present(table) /\ item.source = table[item.name])
  BY <1>2, <1>4, <1>7, <1>8, AnsweredOK
<1>10. run'[r] = u
  BY <1>1, <1>4, <1>7
<1>11. HeldOK(r)'
  <2>1. CASE u.pc = "failed"
    BY <1>10, <2>1 DEF HeldOK
  <2>2. CASE u.pc # "failed"
    <3>1. \A n \in DOMAIN expected : Current(table, n) => n \in held[r]
      BY <1>3, <1>8 DEF HeldOK
    <3>2. \A item \in ItemsOf(s.pages) :
            item.name \in DOMAIN expected /\ schema_hash(item.source) = schema_hash(expected[item.name])
              => item.name \in held[r]
      BY <1>3, <1>8 DEF HeldOK
    <3>3. ASSUME NEW item \in ItemsOf(u.pages), item.name \in DOMAIN expected,
                 schema_hash(item.source) = schema_hash(expected[item.name])
          PROVE  item.name \in held[r]
      <4>1. CASE item \in ItemsOf(s.pages)
        BY <3>2, <3>3, <4>1
      <4>2. CASE item.name \in Present(table) /\ item.source = table[item.name]
        BY <3>1, <3>3, <4>2 DEF Current, Present
      <4> QED BY <1>9, <2>2, <4>1, <4>2
    <3> QED BY <1>5, <1>9, <1>10, <2>2, <3>1, <3>3 DEF HeldOK
  <2> QED BY <2>1, <2>2
<1>12. run' = [run EXCEPT ![r] = u]
  BY <1>4, <1>7
<1>13. /\ table' \in Tables /\ held' \in [Runs -> SUBSET DOMAIN expected] /\ \A q \in Runs : Remembers(q)
  BY <1>1, <1>5, QuietlyIs
<1> QED BY <1>6, <1>9, <1>11, <1>12, <1>13, MoveKeeps

LEMMA CheckKeeps ==
    ASSUME SchemaInv, NEW r \in Runs, check_schemas(r)
    PROVE  SchemaInv'
<1>1. SchemaTypes /\ run \in [Runs -> Process] /\ run[r].pc = "listed" /\ HeldOK(r) /\ Quietly
  BY DEF SchemaInv, SchemaTypes, check_schemas
<1>2. /\ table \in Tables /\ edits' \in 0 .. MaxEdits /\ quiet' \in [Runs -> BOOLEAN]
      /\ table' = table /\ held' = held /\ held \in [Runs -> SUBSET DOMAIN expected]
  BY <1>1 DEF SchemaTypes, Tables, Quietly
<1>3. /\ table' \in Tables /\ held' \in [Runs -> SUBSET DOMAIN expected] /\ \A q \in Runs : Remembers(q)
  BY <1>1, <1>2, QuietlyIs
<1>4. CASE Goto(r, "failed")
  BY <1>2, <1>3, <1>4, StopKeeps
<1>5. CASE /\ Goto(r, "done")
           /\ collect_schema_pages(run[r].pages) /\ compare_schema_hashes(run[r].pages)
  <2>1. PICK u \in Process : run' = [run EXCEPT ![r] = u] /\ u.pc = "done"
    BY <1>1, <1>5, GotoIs
  <2>2. run'[r] = u
    BY <1>1, <2>1
  <2>3. PICK P \in Seq(Page) : P = run[r].pages
    BY <1>1, ProcessFields
  <2>4. ASSUME NEW n \in DOMAIN expected PROVE n \in held[r]
    <3>1. n \in NamesIn(P) /\ schema_hash(Found(P)[n]) = schema_hash(expected[n])
      BY <1>5, <2>3, Held DEF collect_schema_pages, compare_schema_hashes
    <3>2. PICK item \in ItemsOf(P) : item.name = n /\ Found(P)[n] = item.source
      BY <3>1, FoundItem
    <3> QED BY <1>1, <2>3, <3>1, <3>2 DEF HeldOK
  <2>5. held[r] = DOMAIN expected
    BY <1>2, <2>4
  <2>6. HeldOK(r)'
    BY <1>2, <2>1, <2>2, <2>5 DEF HeldOK
  <2>7. ReadingOK(u)
    BY <2>1 DEF ReadingOK
  <2> QED BY <1>2, <1>3, <2>1, <2>6, <2>7, MoveKeeps
<1> QED BY <1>4, <1>5 DEF check_schemas

LEMMA PlanKeeps ==
    ASSUME SchemaInv, NEW r \in Runs, PlanWrites(r)
    PROVE  SchemaInv'
<1>1. /\ SchemaTypes /\ run \in [Runs -> Process] /\ run[r].pc = "listed" /\ HeldOK(r) /\ Quietly
      /\ Operation[r] = "schema-sync"
  BY DEF SchemaInv, SchemaTypes, PlanWrites
<1>2. /\ table \in Tables /\ edits' \in 0 .. MaxEdits /\ quiet' \in [Runs -> BOOLEAN]
      /\ table' = table /\ held' = held
  BY <1>1 DEF SchemaTypes, Tables, Quietly
<1>3. /\ table' \in Tables /\ held' \in [Runs -> SUBSET DOMAIN expected] /\ \A q \in Runs : Remembers(q)
  BY <1>1, <1>2, QuietlyIs
<1>4. PICK s \in Process : s = run[r]
  BY <1>1
<1>5. CASE run' = [run EXCEPT ![r] = [s EXCEPT !.pc = "failed"]]
  <2>1. Goto(r, "failed")
    BY <1>1, <1>4, <1>5 DEF Goto
  <2> QED BY <1>2, <1>3, <2>1, StopKeeps
<1>6. CASE run' = [run EXCEPT ![r] = [s EXCEPT !.pc = "write", !.todo = Changed(s.pages),
                                               !.posts = Changed(s.pages) \ DOMAIN Found(s.pages)]]
  <2>1. PICK todo : todo = Changed(s.pages)
    OBVIOUS
  <2>2. PICK posts : posts = Changed(s.pages) \ DOMAIN Found(s.pages)
    OBVIOUS
  <2>3. PICK u : u = [s EXCEPT !.pc = "write", !.todo = todo, !.posts = posts]
    OBVIOUS
  <2>4. todo \subseteq DOMAIN expected /\ posts \subseteq DOMAIN expected
    BY <2>1, <2>2 DEF Changed
  <2>5. u \in Process /\ u.pc = "write" /\ u.todo = todo
    BY <2>3, <2>4 DEF Process
  <2>6. run' = [run EXCEPT ![r] = u] /\ run'[r] = u
    BY <1>1, <1>6, <2>1, <2>2, <2>3
  <2>7. \A n \in DOMAIN expected : Current(table, n) => n \in held[r]
    BY <1>1 DEF HeldOK
  <2>8. PICK P \in Seq(Page) : P = s.pages
    BY ProcessFields
  <2>9. ASSUME NEW n \in DOMAIN expected, n \notin todo PROVE n \in held[r]
    <3>1. n \in DOMAIN Found(P) /\ schema_hash(Found(P)[n]) = schema_hash(expected[n])
      BY <2>1, <2>8, <2>9 DEF Changed
    <3>2. PICK item \in ItemsOf(P) : item.name = n /\ Found(P)[n] = item.source
      BY <3>1, Held, FoundItem
    <3> QED BY <1>1, <1>4, <2>8, <3>1, <3>2 DEF HeldOK
  <2>10. HeldOK(r)'
    BY <1>2, <2>5, <2>6, <2>7, <2>9 DEF HeldOK
  <2>11. ReadingOK(u)
    BY <2>5 DEF ReadingOK
  <2> QED BY <1>1, <1>2, <1>3, <2>5, <2>6, <2>10, <2>11, MoveKeeps
<1> QED BY <1>4, <1>5, <1>6 DEF PlanWrites

LEMMA NextWriteIs ==
    ASSUME SchemaTypes, NEW r \in Runs, run[r].todo # {}
    PROVE  NextWrite(r) \in run[r].todo
<1>1. run[r].todo \subseteq Nat
  BY ProcessFields, Basics DEF SchemaTypes
<1>2. \E n \in run[r].todo : \A k \in run[r].todo : n <= k
  BY <1>1, Smallest
<1> QED BY <1>2 DEF NextWrite

\* A write makes the name current.
WithExpected(t, n) == [t EXCEPT ![n] = expected[n]]
LEMMA Written ==
    ASSUME NEW t \in Tables, NEW n \in DOMAIN expected
    PROVE  /\ WithExpected(t, n) \in Tables /\ Current(WithExpected(t, n), n)
           /\ \A k \in DOMAIN expected : Current(t, k) => Current(WithExpected(t, n), k)
<1> DEFINE z == WithExpected(t, n)
<1>1. n \in Names /\ expected[n] \in Sources /\ expected[n] # None /\ DOMAIN expected \subseteq Names
  BY Basics
<1>2. z \in Tables /\ z[n] = expected[n] /\ \A k \in Names \ {n} : z[k] = t[k]
  BY <1>1 DEF Tables, WithExpected
<1> HIDE DEF z
<1>3. Current(z, n)
  BY <1>1, <1>2 DEF Current
<1>4. \A k \in DOMAIN expected : Current(t, k) => Current(z, k)
  BY <1>1, <1>2, <1>3 DEF Current
<1> QED BY <1>2, <1>3, <1>4 DEF z

LEMMA WriteKeeps ==
    ASSUME SchemaInv, NEW r \in Runs, WriteSchema(r)
    PROVE  SchemaInv'
<1>1. /\ SchemaTypes /\ run \in [Runs -> Process] /\ run[r].pc = "write" /\ HeldOK(r)
      /\ run[r].todo # {} /\ Operation[r] = "schema-sync" /\ edits' \in 0 .. MaxEdits /\ table \in Tables
  BY DEF SchemaInv, SchemaTypes, WriteSchema, Tables
<1>2. PICK s \in Process : s = run[r]
  BY <1>1
<1>3. PICK n \in DOMAIN expected : n = NextWrite(r) /\ n \in s.todo
  BY <1>1, <1>2, NextWriteIs, ProcessFields
<1>4. PICK z : z = WithExpected(table, n)
  OBVIOUS
<1>5. z \in Tables /\ Current(z, n)
  BY <1>1, <1>4, Written
<1>6. ASSUME NEW t \in Tables, Observe(t, r), Goto(r, "failed") PROVE SchemaInv'
  BY <1>1, <1>6, ObserveIs, StopKeeps
<1>7. ASSUME run' = [run EXCEPT ![r].todo = @ \ {n}], Observe(z, r) PROVE SchemaInv'
  <2>1. PICK todo : todo = s.todo \ {n}
    OBVIOUS
  <2>2. PICK u : u = [s EXCEPT !.todo = todo]
    OBVIOUS
  <2>3. todo \subseteq DOMAIN expected /\ s.pc = "write"
    BY <1>1, <1>2, <2>1, ProcessFields
  <2>4. u \in Process /\ u.pc = "write" /\ u.todo = todo
    BY <2>2, <2>3 DEF Process
  <2>5. run' = [run EXCEPT ![r] = u] /\ run'[r] = u
    BY <1>1, <1>2, <1>7, <2>1, <2>2
  <2>6. /\ table' = z /\ held' \in [Runs -> SUBSET DOMAIN expected] /\ quiet' \in [Runs -> BOOLEAN]
        /\ \A q \in Runs : run[q].pc # "start" =>
             /\ Remembers(q) /\ \A k \in DOMAIN expected : Current(z, k) => k \in held'[q]
    BY <1>1, <1>5, <1>7, ObserveIs
  <2>7. Remembers(r) /\ \A k \in DOMAIN expected : Current(z, k) => k \in held'[r]
    BY <1>1, <2>6
  <2>8. DOMAIN expected \ s.todo \subseteq held'[r]
    BY <1>1, <1>2, <2>7 DEF HeldOK, Remembers
  <2>9. DOMAIN expected \ todo \subseteq held'[r]
    BY <1>5, <2>1, <2>7, <2>8
  <2>10. HeldOK(r)'
    BY <2>4, <2>5, <2>6, <2>7, <2>9 DEF HeldOK
  <2>11. ReadingOK(u)
    BY <2>4 DEF ReadingOK
  <2>12. table' \in Tables
    BY <1>5, <2>6
  <2> QED BY <1>1, <2>4, <2>5, <2>6, <2>10, <2>11, <2>12, MoveKeeps
<1> QED BY <1>1, <1>3, <1>4, <1>5, <1>6, <1>7 DEF WriteSchema, WithExpected

LEMMA EndKeeps ==
    ASSUME SchemaInv, NEW r \in Runs, SyncEnds(r) \/ RequestFails(r)
    PROVE  SchemaInv'
<1>1. SchemaTypes /\ run \in [Runs -> Process] /\ HeldOK(r) /\ Quietly
  BY DEF SchemaInv, SchemaTypes, SyncEnds, RequestFails
<1>2. /\ table \in Tables /\ edits' \in 0 .. MaxEdits /\ quiet' \in [Runs -> BOOLEAN]
      /\ table' = table /\ held' = held /\ held \in [Runs -> SUBSET DOMAIN expected]
  BY <1>1 DEF SchemaTypes, Tables, Quietly
<1>3. /\ table' \in Tables /\ held' \in [Runs -> SUBSET DOMAIN expected] /\ \A q \in Runs : Remembers(q)
  BY <1>1, <1>2, QuietlyIs
<1>4. CASE RequestFails(r)
  <2>1. Goto(r, "lost")
    BY <1>4 DEF RequestFails
  <2> QED BY <1>2, <1>3, <2>1, StopKeeps
<1>5. CASE SyncEnds(r)
  <2>1. PICK u \in Process : run' = [run EXCEPT ![r] = u] /\ u.pc = "done"
    BY <1>1, <1>5, GotoIs DEF SyncEnds
  <2>2. run'[r] = u
    BY <1>1, <2>1
  <2>3. held[r] = DOMAIN expected
    BY <1>1, <1>2, <1>5 DEF HeldOK, SyncEnds
  <2>4. HeldOK(r)'
    BY <1>2, <2>1, <2>2, <2>3 DEF HeldOK
  <2>5. ReadingOK(u)
    BY <2>1 DEF ReadingOK
  <2> QED BY <1>2, <1>3, <2>1, <2>4, <2>5, MoveKeeps
<1> QED BY <1>4, <1>5

LEMMA EditKeeps ==
    ASSUME SchemaInv, Edit
    PROVE  SchemaInv'
<1>1. SchemaTypes /\ run' = run
  BY DEF SchemaInv, Edit
<1>2. PICK n \in Names, x \in Sources \cup {None} : Observe([table EXCEPT ![n] = x], None)
  BY DEF Edit
<1>3. PICK z : z = [table EXCEPT ![n] = x]
  OBVIOUS
<1>4. table \in Tables /\ edits \in 0 .. MaxEdits /\ edits < MaxEdits /\ edits' = edits + 1
  BY <1>1 DEF SchemaTypes, Tables, Edit
<1>5. z \in Tables
  BY <1>3, <1>4 DEF Tables
<1>6. edits' \in 0 .. MaxEdits
  BY <1>4, Basics
<1>7. /\ table' = z /\ held' \in [Runs -> SUBSET DOMAIN expected] /\ quiet' \in [Runs -> BOOLEAN]
      /\ \A q \in Runs : run[q].pc # "start" => Remembers(q)
  BY <1>1, <1>2, <1>3, <1>5, ObserveIs
<1>8. SchemaTypes'
  BY <1>1, <1>5, <1>6, <1>7 DEF SchemaTypes, Tables
<1>9. ASSUME NEW q \in Runs PROVE ReadingOK(run'[q]) /\ HeldOK(q)'
  <2>1. ReadingOK(run[q]) /\ HeldOK(q) /\ run'[q] = run[q]
    BY <1>1 DEF SchemaInv
  <2> QED BY <1>7, <2>1, Remembered
<1> QED BY <1>8, <1>9 DEF SchemaInv

LEMMA InitHolds ==
    ASSUME Init
    PROVE  SchemaInv
<1>1. run = [r \in Runs |-> Idle] /\ run \in [Runs -> Process] /\ \A r \in Runs : run[r] = Idle
  BY IdleFields DEF Init
<1>2. 0 \in 0 .. MaxEdits
  BY Basics
<1>3. held \in [Runs -> SUBSET DOMAIN expected]
  BY DEF Init
<1>4. quiet \in [Runs -> BOOLEAN]
  BY Zenon DEF Init
<1>5. SchemaTypes
  BY <1>1, <1>2, <1>3, <1>4, IdleFields DEF SchemaTypes, Init
<1>6. ASSUME NEW r \in Runs PROVE ReadingOK(run[r]) /\ HeldOK(r)
  BY <1>1, IdleFields DEF ReadingOK, HeldOK
<1> QED BY <1>5, <1>6 DEF SchemaInv

(* What schema-check and schema-sync of wp1_target.py know while they read    *)
(* and write, in every reachable state: the pages accepted so far satisfy the *)
(* pagination rules of collect_schema_pages, and every item read with the     *)
(* expected hash, and every schema already written, was current at a moment   *)
(* of this run.                                                               *)
THEOREM SchemaInvariant == Spec => []SchemaInv
<1>1. Init => SchemaInv
  BY InitHolds
<1>2. SchemaInv /\ [Next]_vars => SchemaInv'
  <2> SUFFICES ASSUME SchemaInv, [Next]_vars PROVE SchemaInv'
    OBVIOUS
  <2>1. ASSUME NEW r \in Runs, Step(r) PROVE SchemaInv'
    BY <2>1, BeginKeeps, RequestKeeps, CheckKeeps, PlanKeeps, WriteKeeps, EndKeeps DEF Step
  <2>2. CASE Edit
    BY <2>2, EditKeeps
  <2>3. CASE UNCHANGED vars
    <3>1. table' = table /\ run' = run /\ edits' = edits /\ held' = held /\ quiet' = quiet
      BY <2>3 DEF vars
    <3>2. SchemaTypes'
      BY <3>1 DEF SchemaInv, SchemaTypes
    <3>3. \A r \in Runs : ReadingOK(run'[r]) /\ HeldOK(r)'
      BY <3>1 DEF SchemaInv, HeldOK
    <3> QED BY <3>2, <3>3 DEF SchemaInv
  <2> QED BY <2>1, <2>2, <2>3 DEF Next, Stutter
<1> QED BY <1>1, <1>2, PTL DEF Spec

(* Every variable of request_schema_pages and sync_schemas keeps its type; in *)
(* particular a cursor that was sent is a name and never the empty value.     *)
THEOREM SchemaTypeCorrect == Spec => []TypeOK
<1>1. ASSUME NEW s \in Process PROVE s \in RunType
  BY Basics DEF Process, RunType, Page
<1>2. SchemaInv => TypeOK
  BY <1>1 DEF SchemaInv, SchemaTypes, TypeOK
<1> QED BY <1>2, SchemaInvariant, PTL

LEMMA PaginationFollows ==
    ASSUME SchemaInv
    PROVE  PaginationSound
<1>1. BoundedByTotal
  BY DEF SchemaInv, ReadingOK, BoundedByTotal
<1>2. ASSUME NEW r \in Runs, run[r].pc = "listed", CollectItems(run[r].pages)
      PROVE  CollectPagination(run[r].pages)
  <2>1. PICK s \in Process : s = run[r]
    BY DEF SchemaInv, SchemaTypes
  <2>2. PICK P \in Seq(Page) : P = s.pages
    BY ProcessFields
  <2>3. PICK m : m = Len(P)
    OBVIOUS
  <2>4. /\ PagesOK(s) /\ P # << >> /\ s.observed = s.count /\ NoDuplicates(P)
        /\ \A i \in 1 .. m : P[i].has_next <=> i # m
    BY <1>2, <2>1, <2>2, <2>3 DEF SchemaInv, ReadingOK, CollectItems
  <2>5. m \in Nat /\ m # 0 /\ DOMAIN P = 1 .. m
    BY <2>3, <2>4
  <2>6. /\ \A i \in 1 .. m : PageOK(P, i)
        /\ Counted(P, m) = s.observed /\ s.count = P[1].total
    BY <2>2, <2>3, <2>4, <2>5 DEF PagesOK
  <2>7. ASSUME NEW i \in 1 .. m
        PROVE  /\ SubSeq(P, 1, i) \in Seq(Page) /\ DOMAIN Found(SubSeq(P, 1, i)) = NamesIn(SubSeq(P, 1, i))
    <3>1. SubSeq(P, 1, i) \in Seq(Page)
      BY <2>3, <2>5
    <3> QED BY <3>1, Held
  <2>8. SubSeq(P, 1, m) = P
    BY <2>3
  <2>9. P[1].total = Cardinality(DOMAIN Found(P))
    BY <2>4, <2>6, <2>8, Held DEF Counted
  <2>10. ASSUME NEW i \in DOMAIN P
         PROVE  LET p == P[i]
                    count == Cardinality(DOMAIN Found(SubSeq(P, 1, i)))
                IN  /\ p.total >= 0 /\ p.total = P[1].total
                    /\ p.has_next <=> i /= Len(P)
                    /\ p.has_next => /\ p.next /= None /\ count < p.total
                                     /\ p.next \notin Cursors(P, i - 1)
                                     /\ p.next /= p.cursor
                                     /\ p.items /= << >>
    <3>1. PageOK(P, i) /\ (P[i].has_next <=> i # Len(P))
      BY <2>3, <2>4, <2>5, <2>6
    <3>2. Counted(P, i) = Cardinality(DOMAIN Found(SubSeq(P, 1, i)))
      BY <2>5, <2>7 DEF Counted
    <3> QED BY <2>4, <3>1, <3>2 DEF PageOK
  <2>11. CollectPagination(P)
    BY <2>4, <2>9, <2>10, Zenon DEF CollectPagination
  <2> QED BY <2>1, <2>2, <2>11
<1> QED BY <1>1, <1>2 DEF PaginationSound, CollectAgrees

(* However the Control Plane changes between two pages and its answers        *)
(* contradict each other: what request_schema_pages returns satisfies the     *)
(* pagination rules of collect_schema_pages, and it makes at most as many     *)
(* requests as the total it was told.                                         *)
THEOREM PaginationIsSound == Spec => []PaginationSound
BY SchemaInvariant, PaginationFollows, PTL

(* A schema-check or schema-sync that reports success saw or made every       *)
(* expected schema current at a moment since it began, whoever else writes.   *)
THEOREM ReportsWereTrue == Spec => []ReportedWasTrue
<1>1. SchemaInv => ReportedWasTrue
  BY DEF SchemaInv, HeldOK, ReportedWasTrue
<1> QED BY <1>1, SchemaInvariant, PTL

-----------------------------------------------------------------------------
(***************************************************************************)
(* A Control Plane nobody else changes.                                    *)
(***************************************************************************)
\* The first names of a set come before the others.
LEMMA FirstIsLower ==
    ASSUME NEW A \in SUBSET Names, NEW y \in FirstOf(A), NEW x \in A, x <= y
    PROVE  x \in FirstOf(A)
<1>1. A \subseteq Nat /\ IsFiniteSet(A) /\ y \in A
  BY Basics, FS_Subset DEF FirstOf
<1>2. PICK X : X = {k \in A : k < x}
  OBVIOUS
<1>3. PICK Y : Y = {k \in A : k < y}
  OBVIOUS
<1>4. X \subseteq Y
  <2>1. ASSUME NEW k \in A, k < x PROVE k < y
    <3>1. k \in Nat /\ x \in Nat /\ y \in Nat
      BY <1>1
    <3> QED BY <2>1, <3>1
  <2> QED BY <1>2, <1>3, <2>1
<1>5. IsFiniteSet(Y) /\ Y \subseteq A
  <2>1. Y \in SUBSET A
    BY <1>3
  <2> QED BY <1>1, <2>1, FS_Subset
<1>6. IsFiniteSet(X) /\ Cardinality(X) <= Cardinality(Y)
  BY <1>4, <1>5, FS_Subset
<1>7. Cardinality(Y) < PageSize
  BY <1>3 DEF FirstOf
<1>8. Cardinality(X) \in Nat /\ Cardinality(Y) \in Nat
  BY <1>5, <1>6, FS_CardinalityType
<1>9. Cardinality(X) < PageSize
  BY <1>6, <1>7, <1>8, Basics
<1> QED BY <1>2, <1>9 DEF FirstOf

\* A list of a set in its order has every member, once.
LEMMA OrderIsComplete ==
    ASSUME NEW F \in SUBSET Names, IsFiniteSet(F), NEW q \in InOrder(F)
    PROVE  /\ \A x \in F : \E k \in 1 .. Cardinality(F) : q[k] = x
           /\ \A k, l \in 1 .. Cardinality(F) : q[k] = q[l] => k = l
           /\ \A x \in F : x <= q[Cardinality(F)]
<1>1. PICK N \in Nat : N = Cardinality(F)
  BY FS_CardinalityType
<1>2. q \in [1 .. N -> F] /\ \A i, j \in 1 .. N : i < j => q[i] < q[j]
  BY <1>1 DEF InOrder
<1>3. F \subseteq Nat
  BY Basics
<1>4. ASSUME NEW k \in 1 .. N, NEW l \in 1 .. N, q[k] = q[l] PROVE k = l
  <2>a. q[k] \in F /\ q[l] \in F
    BY <1>2
  <2>1. q[k] \in Nat /\ q[l] \in Nat /\ k \in Nat /\ l \in Nat
    <3>1. q[k] \in Nat /\ q[l] \in Nat
      BY <1>3, <2>a, Zenon
    <3>2. k \in Nat /\ l \in Nat
      OBVIOUS
    <3> QED BY <3>1, <3>2
  <2>2. ~(q[k] < q[l]) /\ ~(q[l] < q[k])
    BY <1>4, <2>1
  <2>3. ~(k < l) /\ ~(l < k)
    BY <1>2, <2>2
  <2> QED BY <2>1, <2>3
<1>5. q \in Injection(1 .. N, F)
  BY <1>2, <1>4 DEF Injection, IsInjective
<1>6. IsFiniteSet(1 .. N) /\ Cardinality(1 .. N) = Cardinality(F)
  BY <1>1, Interval
<1>7. q \in Surjection(1 .. N, F)
  BY <1>5, <1>6, FS_Injection
<1>8. \A x \in F : \E k \in 1 .. N : q[k] = x
  BY <1>7 DEF Surjection
<1>9. ASSUME NEW x \in F PROVE x <= q[N]
  <2>1. PICK k \in 1 .. N : q[k] = x
    BY <1>8
  <2>2. k = N \/ (k < N /\ N \in 1 .. N)
    BY <1>1
  <2>3. x \in Nat /\ q[N] \in Nat
    BY <1>1, <1>2, <1>3, <2>2
  <2> QED BY <1>2, <2>1, <2>2, <2>3
<1> QED BY <1>1, <1>4, <1>8, <1>9

\* The honest page lists the first names, each once, and its cursor is the
\* last of them: after it come the names that were not listed.
LEMMA HonestOrder ==
    ASSUME NEW t \in Tables, NEW c \in Names \cup {None}, NEW p \in PagesOf(t, c),
           NEW A, A = After(t, c), NEW F, F = FirstOf(A)
    PROVE  /\ NamesOf(p.items) = F /\ Distinct(p.items) /\ Len(p.items) = Cardinality(F)
           /\ p.total = Cardinality(Present(t)) /\ (p.has_next <=> F # A)
           /\ p.has_next => /\ p.next \in A /\ After(t, p.next) = A \ F /\ Cardinality(F) > 0
                            /\ c # None => p.next > c
<1>1. /\ Present(t) \subseteq Names /\ A \subseteq Present(t) /\ F \subseteq A /\ IsFiniteSet(F)
      /\ Cardinality(F) \in Nat /\ (A # {} => Cardinality(F) > 0)
  BY NamesAfter
<1>2. PICK N \in Nat : N = Cardinality(F)
  BY <1>1
<1>3. PICK q \in InOrder(F) :
        /\ Len(p.items) = N /\ DOMAIN p.items = 1 .. N
        /\ \A k \in 1 .. N : q[k] \in F /\ p.items[k].name = q[k]
        /\ p.total = Cardinality(Present(t)) /\ (p.has_next <=> F # A)
        /\ p.next = IF F # A THEN q[N] ELSE None
  BY <1>2, HonestPage
<1>4. /\ \A x \in F : \E k \in 1 .. N : q[k] = x
      /\ \A k, l \in 1 .. N : q[k] = q[l] => k = l
      /\ \A x \in F : x <= q[N]
  BY <1>1, <1>2, OrderIsComplete
<1>5. NamesOf(p.items) = F
  BY <1>3, <1>4 DEF NamesOf
<1>6. Distinct(p.items)
  BY <1>3, <1>4 DEF Distinct
<1>7. ASSUME p.has_next
      PROVE  /\ p.next \in A /\ After(t, p.next) = A \ F /\ N > 0 /\ (c # None => p.next > c)
  <2>1. F # A /\ A # {} /\ N > 0 /\ N \in 1 .. N
    <3>1. F # A /\ A # {}
      BY <1>1, <1>3, <1>7
    <3>2. N > 0
      BY <1>1, <1>2, <3>1
    <3> QED BY <3>1, <3>2
  <2>2. PICK y : y = p.next
    OBVIOUS
  <2>3. y \in F /\ y \in A /\ \A x \in F : x <= y
    BY <1>1, <1>3, <1>4, <2>1, <2>2
  <2>4. y \in Nat /\ y # None /\ A \subseteq Names /\ Present(t) \subseteq Nat
    BY <1>1, <2>3, Basics
  <2>5. c # None => y > c /\ c \in Nat
    BY <2>3, Basics DEF After
  <2>6. ASSUME NEW x \in After(t, y) PROVE x \in A \ F
    <3>1. x \in Present(t) /\ x > y /\ x \in Nat
      BY <2>4 DEF After
    <3>2. x \in A
      BY <2>4, <2>5, <3>1 DEF After
    <3>3. x \notin F
      BY <2>3, <2>4, <3>1
    <3> QED BY <3>2, <3>3
  <2>7. ASSUME NEW x \in A, x \notin F PROVE x \in After(t, y)
    <3>1. ~(x <= y)
      BY <2>3, <2>4, <2>7, FirstIsLower
    <3>2. x \in Present(t) /\ x \in Nat
      BY <1>1, <2>4
    <3> QED BY <2>4, <3>1, <3>2 DEF After
  <2> QED BY <2>1, <2>2, <2>3, <2>5, <2>6, <2>7
<1> QED BY <1>2, <1>3, <1>5, <1>6, <1>7

LEMMA HonestAccepted ==
    ASSUME Cardinality(Names) <= PageLimit, NEW t \in Tables,
           NEW s \in Process, s.pc = "list", ReadingOK(s), ReadsTable(s, t),
           NEW p \in PagesOf(t, s.cursor), NEW u, u = Answered(s, p)
    PROVE  ReadsTable(u, t) /\ u.pc \in {"list", "listed"}
<1>a. PICK P \in Seq(Page) : P = s.pages
  BY ProcessFields
<1>b. PICK c \in Names \cup {None} : c = s.cursor
  BY ProcessFields
<1>c. PICK A : A = After(t, c)
  OBVIOUS
<1>d. PICK F : F = FirstOf(A)
  OBVIOUS
<1>e. PICK R : R = Present(t)
  OBVIOUS
<1>f. PICK B : B = R \ A
  OBVIOUS
<1>1. /\ R \subseteq Names /\ IsFiniteSet(R) /\ Cardinality(R) \in Nat
      /\ A \subseteq R /\ F \subseteq A /\ IsFiniteSet(F) /\ Cardinality(F) \in Nat
  BY <1>c, <1>d, <1>e, NamesAfter
<1>2. /\ p \in Answers /\ FromTable(p, t) /\ p # None
  <2>1. p \in Answers /\ FromTable(p, t)
    BY <1>b, HonestPage
  <2> QED BY <2>1, AnswerFields
<1>3. /\ NamesOf(p.items) = F /\ Distinct(p.items) /\ Len(p.items) = Cardinality(F)
      /\ p.total = Cardinality(R) /\ (p.has_next <=> F # A)
      /\ p.has_next => /\ p.next \in A /\ After(t, p.next) = A \ F /\ Cardinality(F) > 0
                       /\ c # None => p.next > c
  BY <1>b, <1>c, <1>d, <1>e, HonestOrder
<1>4. /\ NoDuplicates(P) /\ NamesIn(P) = B
      /\ \A item \in ItemsOf(P) : item.name \in R /\ item.source = t[item.name]
      /\ P # << >> => /\ s.count = Cardinality(R) /\ c # None
                      /\ (\A x \in s.seen : x <= c) /\ A # {}
  BY <1>a, <1>b, <1>c, <1>e, <1>f DEF ReadsTable
<1>5. /\ Len(P) <= s.observed /\ s.observed \in Nat /\ Len(P) \in Nat /\ s.seen \subseteq Names
      /\ P = << >> => s.count = None /\ s.seen = {}
      /\ s.observed = Cardinality(B)
  <2>1. /\ PagesOK(s) /\ Len(P) <= s.observed
    BY <1>a DEF ReadingOK
  <2>2. SubSeq(P, 1, Len(P)) = P
    OBVIOUS
  <2>3. s.observed = Cardinality(NamesIn(P))
    BY <1>a, <1>4, <2>1, <2>2 DEF PagesOK, Counted
  <2>4. P = << >> => s.count = None /\ s.seen = {}
    BY <1>a, <2>1 DEF PagesOK
  <2> QED BY <1>4, <2>1, <2>3, <2>4, ProcessFields
<1>6. /\ Cardinality(B \cup F) = s.observed + Len(p.items) /\ B \cup F \subseteq R /\ B \cap F = {}
      /\ Cardinality(B \cup F) <= Cardinality(R)
      /\ Cardinality(B \cup F) = Cardinality(R) => B \cup F = R
  <2>1. B \subseteq R /\ B \cap F = {} /\ B \cup F \subseteq R
    BY <1>1, <1>f
  <2>2. IsFiniteSet(B) /\ Cardinality(B) \in Nat
    BY <1>1, <2>1, FS_Subset, FS_CardinalityType
  <2>3. Cardinality(B \cup F) = Cardinality(B) + Cardinality(F) - Cardinality(B \cap F)
    BY <1>1, <2>2, FS_Union
  <2>4. Cardinality(B \cap F) = 0
    BY <2>1, FS_EmptySet
  <2>5. /\ Cardinality(B \cup F) <= Cardinality(R)
        /\ Cardinality(R) = Cardinality(B \cup F) => R = B \cup F
    <3>1. B \cup F \in SUBSET R
      BY <2>1
    <3> QED BY <1>1, <3>1, FS_Subset
  <2> QED BY <1>1, <1>3, <1>5, <2>1, <2>2, <2>3, <2>4, <2>5
<1>7. B \cup F = R <=> F = A
  BY <1>1, <1>f
<1>8. /\ F = A => s.observed + Len(p.items) = Cardinality(R)
      /\ F # A => s.observed + Len(p.items) < Cardinality(R)
      /\ s.observed + Len(p.items) <= Cardinality(R)
      /\ Len(p.items) \in Nat
  <2>1. s.observed + Len(p.items) \in Nat /\ Len(p.items) \in Nat
    BY <1>1, <1>3, <1>5
  <2>2. PICK k \in Nat : k = s.observed + Len(p.items)
    BY <2>1
  <2>3. k = Cardinality(B \cup F) /\ k <= Cardinality(R) /\ (k = Cardinality(R) <=> F = A)
    BY <1>6, <1>7, <2>2
  <2>4. F # A => k < Cardinality(R)
    BY <1>1, <2>3
  <2> QED BY <2>1, <2>2, <2>3, <2>4
<1>9. A \subseteq Nat /\ None \notin A /\ (c # None => c \in Nat)
  BY <1>1, Basics
<1>10. ~Malformed(s, p)
  <2>1. s.count = None \/ p.total = s.count
    BY <1>3, <1>4, <1>5
  <2>2. p.has_next => p.next # None
    BY <1>3, <1>9
  <2>3. ~(p.total < 0)
    BY <1>1, <1>3
  <2> QED BY <2>1, <2>2, <2>3 DEF Malformed
<1>11. p.has_next => p.next \notin s.seen /\ p.next # s.cursor
  <2> SUFFICES ASSUME p.has_next PROVE p.next \notin s.seen /\ p.next # s.cursor
    OBVIOUS
  <2>1. p.next \in Nat /\ p.next # None
    BY <1>3, <1>9
  <2>2. CASE c = None
    BY <1>b, <1>4, <1>5, <2>1, <2>2
  <2>3. CASE c # None
    <3>1. p.next > c /\ c \in Nat
      BY <1>3, <1>9, <2>3
    <3>2. \A x \in s.seen : x <= c
      BY <1>4, <1>5
    <3> QED BY <1>b, <2>1, <3>1, <3>2
  <2> QED BY <2>2, <2>3
<1>12. p.has_next => ~NoProgress(s, p)
  <2> SUFFICES ASSUME p.has_next PROVE ~NoProgress(s, p)
    OBVIOUS
  <2>1. Len(p.items) > 0
    BY <1>3
  <2>2. p.items # << >>
    BY <2>1
  <2>3. s.observed + Len(p.items) < p.total
    BY <1>3, <1>8
  <2>4. ~(s.observed + Len(p.items) >= p.total)
    BY <1>1, <1>3, <1>5, <1>8, <2>3
  <2> QED BY <2>2, <2>4 DEF NoProgress
<1>13. ~AnswerRefused(s, p)
  <2>1. ~(s.observed + Len(p.items) > p.total)
    BY <1>1, <1>3, <1>5, <1>8
  <2>2. ~p.has_next => s.observed + Len(p.items) = p.total
    BY <1>3, <1>8
  <2> QED BY <1>10, <1>11, <1>12, <2>1, <2>2 DEF AnswerRefused, CursorRepeats
<1>14. u = AcceptPage(s, p)
  BY <1>2, <1>13 DEF Answered
<1>15. p.has_next => p.next # None
  BY <1>3, <1>9
<1>16. /\ u \in Process /\ u.pages = Append(P, PageFor(s, p)) /\ u.count = p.total
       /\ u.seen = s.seen \cup IF p.has_next THEN {p.next} ELSE {}
       /\ u.cursor = IF p.has_next THEN p.next ELSE s.cursor
       /\ u.pc = IF ~p.has_next THEN "listed" ELSE IF Len(P) + 1 = PageLimit THEN "failed" ELSE "list"
  BY <1>a, <1>2, <1>14, <1>15, AcceptedFields
<1>17. PICK x \in Page : x = PageFor(s, p) /\ x.items = p.items
  BY <1>2, PageForFields
<1>18. PICK Q : Q = u.pages /\ Q = Append(P, x)
  BY <1>16, <1>17
<1>19. NoDuplicates(Q) /\ NamesIn(Q) = B \cup F
  <2>1. NamesIn(P) \cap NamesOf(x.items) = {} /\ Distinct(x.items)
    BY <1>3, <1>4, <1>6, <1>17
  <2>2. NoDuplicates(Q)
    BY <1>4, <1>18, <2>1, AppendedDistinct
  <2>3. NamesIn(Q) = NamesIn(P) \cup NamesOf(x.items)
    BY <1>18, AppendedItems
  <2> QED BY <1>3, <1>4, <1>17, <2>2, <2>3
<1>20. \A item \in ItemsOf(Q) : item.name \in R /\ item.source = t[item.name]
  <2>1. ItemsOf(Q) = ItemsOf(P) \cup Range(x.items)
    BY <1>18, AppendedItems
  <2>2. \A item \in Range(x.items) : item.name \in R /\ item.source = t[item.name]
    BY <1>e, <1>2, <1>17 DEF Range, FromTable
  <2> QED BY <1>4, <2>1, <2>2
<1>21. CASE ~p.has_next
  <2>1. u.pc = "listed" /\ NamesIn(Q) = R
    BY <1>3, <1>7, <1>16, <1>19, <1>21
  <2> QED BY <1>e, <1>18, <1>19, <1>20, <2>1 DEF ReadsTable
<1>22. CASE p.has_next
  <2>1. Len(P) + 1 # PageLimit
    <3>1. Len(p.items) > 0 /\ s.observed + Len(p.items) < Cardinality(R)
      BY <1>3, <1>8, <1>22
    <3>2. Cardinality(R) <= Cardinality(Names) /\ Cardinality(Names) \in Nat
      BY <1>1, Basics, FS_Subset, FS_CardinalityType
    <3> QED BY <1>1, <1>5, <1>8, <3>1, <3>2, Basics
  <2>2. u.pc = "list" /\ u.cursor = p.next /\ u.seen = s.seen \cup {p.next} /\ u.count = Cardinality(R)
    BY <1>3, <1>16, <1>22, <2>1
  <2>3. p.next \in A /\ After(t, p.next) = A \ F /\ F # A /\ p.next # None /\ p.next \in Nat
    BY <1>3, <1>9, <1>22
  <2>4. NamesIn(Q) = R \ After(t, p.next)
    BY <1>1, <1>f, <1>19, <2>3
  <2>5. After(t, p.next) # {}
    BY <1>1, <2>3
  <2>6. \A y \in u.seen : y <= u.cursor
    <3>1. ASSUME NEW y \in s.seen PROVE y <= p.next
      <4>1. P # << >>
        BY <1>5
      <4>2. y <= c /\ c \in Nat /\ p.next > c /\ y \in Nat
        BY <1>3, <1>4, <1>5, <1>9, <1>22, <4>1, Basics
      <4> QED BY <2>3, <4>2
    <3> QED BY <2>2, <2>3, <3>1
  <2> QED BY <1>e, <1>18, <1>19, <1>20, <2>2, <2>3, <2>4, <2>5, <2>6 DEF ReadsTable
<1> QED BY <1>21, <1>22

\* Also the empty object, which only an empty Control Plane answers.
LEMMA HonestAnswered ==
    ASSUME Cardinality(Names) <= PageLimit, NEW t \in Tables,
           NEW s \in Process, s.pc = "list", ReadingOK(s), ReadsTable(s, t),
           NEW a \in HonestAnswers(t, s.cursor), NEW u, u = Answered(s, a)
    PROVE  ReadsTable(u, t) /\ u.pc \in {"list", "listed"}
<1>1. CASE a \in PagesOf(t, s.cursor)
  BY <1>1, HonestAccepted
<1>2. CASE a = None /\ Present(t) = {}
  <2>1. After(t, s.cursor) = {}
    BY <1>2 DEF After
  <2>2. s.pages = << >>
    BY <2>1 DEF ReadsTable
  <2>3. u = [s EXCEPT !.pages = <<EmptyPage>>, !.count = 0, !.pc = "listed"]
    BY <1>2, <2>2 DEF Answered
  <2>4. u.pc = "listed" /\ ItemsOf(u.pages) = {} /\ NoDuplicates(u.pages)
    BY <2>2, <2>3, EmptyReading
  <2> QED BY <1>2, <2>4 DEF ReadsTable, NamesIn
<1> QED BY <1>1, <1>2 DEF HonestAnswers

\* A process that did not move, on a table that did not change.
LEMMA StandsStill ==
    ASSUME QuietOK, NEW q \in Runs, run'[q] = run[q],
           run[q].pc # "start" => quiet[q] /\ table' = table
    PROVE  Undisturbed(q)'
<1>1. CASE run[q].pc = "start"
  BY <1>1 DEF Undisturbed, ReadsTable
<1>2. CASE run[q].pc # "start"
  <2>1. Undisturbed(q) /\ table' = table
    BY <1>2 DEF QuietOK
  <2> QED BY <2>1 DEF Undisturbed
<1> QED BY <1>1, <1>2

LEMMA OthersStandStill ==
    ASSUME SchemaInv, NEW r \in Runs, Step(r), NEW q \in Runs \ {r}, quiet'[q]
    PROVE  run'[q] = run[q] /\ (run[q].pc # "start" => quiet[q] /\ table' = table)
<1>1. SchemaTypes /\ run \in [Runs -> Process] /\ quiet \in [Runs -> BOOLEAN] /\ table \in Tables
  BY DEF SchemaInv, SchemaTypes, Tables
<1>2. run'[q] = run[q]
  BY <1>1 DEF Step, Begin, request_schema_pages, check_schemas, PlanWrites, WriteSchema, SyncEnds,
              RequestFails, Goto
<1>3. CASE WriteSchema(r)
  <2>1. PICK n \in DOMAIN expected : n = NextWrite(r)
    BY <1>1, <1>3, NextWriteIs, ProcessFields DEF WriteSchema
  <2>2. PICK t \in Tables : Observe(t, r)
    BY <1>1, <1>3, <2>1, Written DEF WriteSchema, WithExpected
  <2> QED BY <1>1, <1>2, <2>2, ObserveIs
<1>4. CASE ~WriteSchema(r)
  <2>1. table' = table
    BY <1>4 DEF Step, Begin, request_schema_pages, check_schemas, PlanWrites, SyncEnds,
                RequestFails, Quietly
  <2>2. quiet' = quiet \/ quiet' = [quiet EXCEPT ![r] = FALSE]
    BY <1>4 DEF Step, Begin, request_schema_pages, check_schemas, PlanWrites, SyncEnds,
                RequestFails, Quietly
  <2>3. quiet'[q] = quiet[q]
    BY <1>1, <2>2
  <2> QED BY <1>2, <2>1, <2>3
<1> QED BY <1>3, <1>4

LEMMA QuietBegin ==
    ASSUME SchemaInv, NEW r \in Runs, Begin(r)
    PROVE  Undisturbed(r)'
<1>1. SchemaTypes /\ run \in [Runs -> Process] /\ run[r] = Idle
  BY DEF SchemaInv, SchemaTypes, Begin
<1>2. PICK w \in {"list", "refused"} : Goto(r, w)
  BY DEF Begin
<1>3. PICK u \in Process : /\ run' = [run EXCEPT ![r] = u] /\ u.pc = w /\ u.pages = << >>
                           /\ u.cursor = None /\ u.count = None /\ u.observed = 0 /\ u.seen = {}
  BY <1>1, <1>2, GotoIs, IdleFields
<1>4. run'[r] = u
  BY <1>1, <1>3
<1>5. CASE w = "refused"
  BY <1>3, <1>4, <1>5 DEF Undisturbed, ReadsTable
<1>6. CASE w = "list"
  <2>1. ItemsOf(u.pages) = {} /\ NoDuplicates(u.pages)
    BY <1>3, <1>6, NothingRead
  <2>2. NamesIn(u.pages) = {}
    BY <2>1 DEF NamesIn
  <2>3. \A t : Present(t) \ After(t, None) = {}
    BY DEF After
  <2>4. ReadsTable(u, table')
    BY <1>3, <1>6, <2>1, <2>2, <2>3 DEF ReadsTable
  <2> QED BY <1>3, <1>4, <1>6, <2>4 DEF Undisturbed
<1> QED BY <1>5, <1>6

LEMMA QuietRequest ==
    ASSUME Cardinality(Names) <= PageLimit, SchemaInv, QuietOK, NEW r \in Runs,
           request_schema_pages(r), quiet'[r]
    PROVE  Undisturbed(r)'
<1>1. /\ SchemaTypes /\ run \in [Runs -> Process] /\ quiet \in [Runs -> BOOLEAN] /\ table \in Tables
      /\ ReadingOK(run[r]) /\ run[r].pc = "list" /\ table' = table
  BY DEF SchemaInv, SchemaTypes, Tables, request_schema_pages, Quietly
<1>2. ~(quiet' = [quiet EXCEPT ![r] = FALSE])
  BY <1>1
<1>3. PICK s \in Process : s = run[r]
  BY <1>1
<1>4. PICK a \in HonestAnswers(table, s.cursor) : run' = [run EXCEPT ![r] = Answered(s, a)] /\ quiet' = quiet
  BY <1>2, <1>3 DEF request_schema_pages, Quietly
<1>5. ReadsTable(s, table)
  BY <1>3, <1>4 DEF QuietOK, Undisturbed
<1>6. PICK u : u = Answered(s, a)
  OBVIOUS
<1>7. ReadsTable(u, table) /\ u.pc \in {"list", "listed"}
  BY <1>1, <1>3, <1>4, <1>5, <1>6, HonestAnswered
<1>8. run'[r] = u
  BY <1>1, <1>4, <1>6
<1> QED BY <1>1, <1>7, <1>8 DEF Undisturbed

\* What an undisturbed reader has listed is the table.
LEMMA ListedIsTable ==
    ASSUME SchemaInv, NEW r \in Runs, Undisturbed(r), run[r].pc = "listed", NEW P, P = run[r].pages
    PROVE  /\ P \in Seq(Page) /\ DOMAIN Found(P) = Present(table) /\ CollectItems(P)
           /\ \A n \in Present(table) : Found(P)[n] = table[n]
<1>1. P \in Seq(Page)
  BY ProcessFields DEF SchemaInv, SchemaTypes
<1>2. /\ NoDuplicates(P) /\ NamesIn(P) = Present(table)
      /\ \A item \in ItemsOf(P) : item.name \in Present(table) /\ item.source = table[item.name]
  BY DEF Undisturbed, ReadsTable
<1>3. DOMAIN Found(P) = Present(table)
  BY <1>1, <1>2, Held
<1>4. \A item \in ItemsOf(P) : WellFormed(item)
  BY <1>2, Basics DEF WellFormed, Present
<1>5. ASSUME NEW n \in Present(table) PROVE Found(P)[n] = table[n]
  <2>1. PICK item \in ItemsOf(P) : item.name = n /\ Found(P)[n] = item.source
    BY <1>2, FoundItem
  <2> QED BY <1>2, <2>1
<1> QED BY <1>1, <1>2, <1>3, <1>4, <1>5 DEF CollectItems

LEMMA QuietCheck ==
    ASSUME SchemaInv, QuietOK, NEW r \in Runs, check_schemas(r), quiet'[r]
    PROVE  Undisturbed(r)'
<1>1. /\ SchemaTypes /\ run \in [Runs -> Process] /\ run[r].pc = "listed" /\ Operation[r] = "schema-check"
      /\ quiet' = quiet /\ table' = table
  BY DEF SchemaInv, SchemaTypes, check_schemas, Quietly
<1>2. Undisturbed(r)
  BY <1>1 DEF QuietOK
<1>3. PICK P : P = run[r].pages
  OBVIOUS
<1>4. /\ DOMAIN Found(P) = Present(table) /\ CollectItems(P)
      /\ \A n \in Present(table) : Found(P)[n] = table[n]
  BY <1>1, <1>2, <1>3, ListedIsTable
<1>5. CollectPagination(P)
  BY <1>1, <1>3, <1>4, PaginationFollows DEF PaginationSound, CollectAgrees
<1>6. (\A n \in DOMAIN expected : Current(table, n)) => collect_schema_pages(P) /\ compare_schema_hashes(P)
  <2> SUFFICES ASSUME \A n \in DOMAIN expected : Current(table, n)
               PROVE  collect_schema_pages(P) /\ compare_schema_hashes(P)
    OBVIOUS
  <2>1. DOMAIN expected \subseteq Present(table)
    BY Basics DEF Current, Present
  <2> QED BY <1>4, <1>5, <2>1 DEF collect_schema_pages, compare_schema_hashes, Current
<1>7. CASE Goto(r, "done")
  <2>1. PICK u \in Process : run' = [run EXCEPT ![r] = u] /\ u.pc = "done"
    BY <1>1, <1>7, GotoIs
  <2>2. run'[r] = u
    BY <1>1, <2>1
  <2> QED BY <1>1, <2>1, <2>2 DEF Undisturbed, ReadsTable
<1>8. CASE Goto(r, "failed") /\ ~(collect_schema_pages(P) /\ compare_schema_hashes(P))
  <2>1. PICK u \in Process : run' = [run EXCEPT ![r] = u] /\ u.pc = "failed"
    BY <1>1, <1>8, GotoIs
  <2>2. run'[r] = u
    BY <1>1, <2>1
  <2>3. \E n \in DOMAIN expected : ~Current(table, n)
    BY <1>6, <1>8
  <2> QED BY <1>1, <2>1, <2>2, <2>3 DEF Undisturbed, ReadsTable
<1> QED BY <1>3, <1>7, <1>8 DEF check_schemas

LEMMA QuietPlan ==
    ASSUME SchemaInv, QuietOK, NEW r \in Runs, PlanWrites(r), quiet'[r]
    PROVE  Undisturbed(r)'
<1>1. /\ SchemaTypes /\ run \in [Runs -> Process] /\ run[r].pc = "listed" /\ Operation[r] = "schema-sync"
      /\ quiet' = quiet /\ table' = table
  BY DEF SchemaInv, SchemaTypes, PlanWrites, Quietly
<1>2. PICK s \in Process : s = run[r]
  BY <1>1
<1>3. PICK P : P = s.pages
  OBVIOUS
<1>4. /\ DOMAIN Found(P) = Present(table) /\ CollectItems(P)
      /\ \A n \in Present(table) : Found(P)[n] = table[n]
  BY <1>1, <1>2, <1>3, ListedIsTable DEF QuietOK
<1>5. PICK todo : todo = Changed(P)
  OBVIOUS
<1>6. PICK posts : posts = Changed(P) \ DOMAIN Found(P)
  OBVIOUS
<1>7. PICK u : u = [s EXCEPT !.pc = "write", !.todo = todo, !.posts = posts]
  OBVIOUS
<1>8. u.pc = "write" /\ u.todo = todo
  BY <1>7 DEF Process
<1>9. run'[r] = u
  BY <1>1, <1>2, <1>3, <1>4, <1>5, <1>6, <1>7 DEF PlanWrites
<1>10. \A n \in DOMAIN expected \ todo : Current(table, n)
  BY <1>4, <1>5 DEF Changed, Current, Present
<1> QED BY <1>1, <1>8, <1>9, <1>10 DEF Undisturbed, ReadsTable

LEMMA QuietWrite ==
    ASSUME SchemaInv, QuietOK, NEW r \in Runs, WriteSchema(r), quiet'[r]
    PROVE  Undisturbed(r)'
<1>1. /\ SchemaTypes /\ run \in [Runs -> Process] /\ run[r].pc = "write" /\ run[r].todo # {}
      /\ Operation[r] = "schema-sync" /\ table \in Tables
  BY DEF SchemaInv, SchemaTypes, WriteSchema, Tables
<1>2. PICK s \in Process : s = run[r]
  BY <1>1
<1>3. PICK n \in DOMAIN expected : n = NextWrite(r) /\ n \in s.todo
  BY <1>1, <1>2, NextWriteIs, ProcessFields
<1>4. PICK z : z = WithExpected(table, n)
  OBVIOUS
<1>5. z \in Tables /\ Current(z, n) /\ \A k \in DOMAIN expected : Current(table, k) => Current(z, k)
  BY <1>1, <1>4, Written
<1>6. CASE Goto(r, "failed")
  <2>1. PICK u \in Process : run' = [run EXCEPT ![r] = u] /\ u.pc = "failed"
    BY <1>1, <1>6, GotoIs
  <2>2. run'[r] = u
    BY <1>1, <2>1
  <2> QED BY <1>1, <2>1, <2>2 DEF Undisturbed, ReadsTable
<1>7. CASE run' = [run EXCEPT ![r].todo = @ \ {n}] /\ Observe(z, r)
  <2>1. PICK todo : todo = s.todo \ {n}
    OBVIOUS
  <2>2. PICK u : u = [s EXCEPT !.todo = todo]
    OBVIOUS
  <2>3. u.pc = "write" /\ u.todo = todo
    BY <1>1, <1>2, <2>2 DEF Process
  <2>4. run'[r] = u
    BY <1>1, <1>2, <1>7, <2>1, <2>2
  <2>5. table' = z /\ quiet[r]
    BY <1>1, <1>5, <1>7, ObserveIs
  <2>6. \A k \in DOMAIN expected \ s.todo : Current(table, k)
    BY <1>1, <1>2, <2>5 DEF QuietOK, Undisturbed
  <2>7. \A k \in DOMAIN expected \ todo : Current(z, k)
    BY <1>5, <2>1, <2>6
  <2> QED BY <2>3, <2>4, <2>5, <2>7 DEF Undisturbed, ReadsTable
<1> QED BY <1>3, <1>4, <1>6, <1>7 DEF WriteSchema, WithExpected

LEMMA QuietEnd ==
    ASSUME SchemaInv, QuietOK, NEW r \in Runs, SyncEnds(r) \/ RequestFails(r), quiet'[r]
    PROVE  Undisturbed(r)'
<1>1. /\ SchemaTypes /\ run \in [Runs -> Process] /\ quiet' = quiet /\ table' = table
  BY DEF SchemaInv, SchemaTypes, SyncEnds, RequestFails, Quietly
<1>2. CASE RequestFails(r)
  <2>1. PICK u \in Process : run' = [run EXCEPT ![r] = u] /\ u.pc = "lost"
    BY <1>1, <1>2, GotoIs DEF RequestFails
  <2>2. run'[r] = u
    BY <1>1, <2>1
  <2> QED BY <2>1, <2>2 DEF Undisturbed, ReadsTable
<1>3. CASE SyncEnds(r)
  <2>1. PICK u \in Process : run' = [run EXCEPT ![r] = u] /\ u.pc = "done"
    BY <1>1, <1>3, GotoIs DEF SyncEnds
  <2>2. run'[r] = u
    BY <1>1, <2>1
  <2>3. \A n \in DOMAIN expected : Current(table, n)
    BY <1>1, <1>3 DEF QuietOK, Undisturbed, SyncEnds
  <2> QED BY <1>1, <2>1, <2>2, <2>3 DEF Undisturbed, ReadsTable
<1> QED BY <1>2, <1>3

LEMMA QuietEdit ==
    ASSUME SchemaInv, QuietOK, Edit, NEW q \in Runs, quiet'[q]
    PROVE  Undisturbed(q)'
<1>1. SchemaTypes /\ table \in Tables /\ run' = run
  BY DEF SchemaInv, SchemaTypes, Tables, Edit
<1>2. PICK n \in Names, x \in Sources \cup {None} : Observe([table EXCEPT ![n] = x], None)
  BY DEF Edit
<1>3. PICK z : z = [table EXCEPT ![n] = x]
  OBVIOUS
<1>4. z \in Tables
  BY <1>1, <1>3 DEF Tables
<1>5. table' = z /\ (run[q].pc # "start" => quiet[q] /\ (z = table \/ q = None))
  BY <1>1, <1>2, <1>3, <1>4, ObserveIs
<1>6. q # None
  BY Basics
<1> QED BY <1>1, <1>5, <1>6, StandsStill

(* On a Control Plane nobody else changes, with no more schemas than the      *)
(* thousand pages request_schema_pages is ready to read, pagination is exact: *)
(* what was listed is the table, schema-check fails only because an expected  *)
(* schema is missing or differs, and schema-sync that reports success leaves  *)
(* every expected schema current.                                             *)
THEOREM QuietIsCorrect ==
    ASSUME Cardinality(Names) <= PageLimit
    PROVE  Spec => []QuietCorrect
<1>1. Init => QuietOK
  <2> SUFFICES ASSUME Init, NEW r \in Runs PROVE Undisturbed(r)
    BY DEF QuietOK
  <2>1. run[r] = Idle
    BY DEF Init
  <2> QED BY <2>1, IdleFields DEF Undisturbed, ReadsTable
<1>2. SchemaInv /\ QuietOK /\ [Next]_vars => QuietOK'
  <2> SUFFICES ASSUME SchemaInv, QuietOK, [Next]_vars, NEW q \in Runs, quiet'[q] PROVE Undisturbed(q)'
    BY DEF QuietOK
  <2>1. ASSUME NEW r \in Runs, Step(r), q # r PROVE Undisturbed(q)'
    BY <2>1, OthersStandStill, StandsStill
  <2>2. CASE Step(q)
    BY <2>2, QuietBegin, QuietRequest, QuietCheck, QuietPlan, QuietWrite, QuietEnd DEF Step
  <2>3. CASE Edit
    BY <2>3, QuietEdit
  <2>4. CASE UNCHANGED vars
    <3>1. run' = run /\ table' = table /\ quiet[q]
      BY <2>4 DEF vars
    <3> QED BY <3>1, StandsStill
  <2> QED BY <2>1, <2>2, <2>3, <2>4 DEF Next, Stutter
<1>3. SchemaInv /\ QuietOK => QuietCorrect
  <2> SUFFICES ASSUME SchemaInv, QuietOK PROVE QuietExact /\ QuietSync
    BY DEF QuietCorrect
  <2>1. ASSUME NEW r \in Runs, quiet[r], run[r].pc = "listed", NEW n \in Names
        PROVE  table[n] = IF n \in DOMAIN Found(run[r].pages) THEN Found(run[r].pages)[n] ELSE None
    <3>1. PICK P : P = run[r].pages
      OBVIOUS
    <3>2. DOMAIN Found(P) = Present(table) /\ \A k \in Present(table) : Found(P)[k] = table[k]
      BY <2>1, <3>1, ListedIsTable DEF QuietOK
    <3>3. n \notin Present(table) => table[n] = None
      BY DEF Present
    <3> QED BY <3>1, <3>2, <3>3
  <2>2. QuietExact
    BY <2>1 DEF QuietExact, QuietOK, Undisturbed
  <2>3. QuietSync
    BY DEF QuietSync, QuietOK, Undisturbed
  <2> QED BY <2>2, <2>3
<1> QED BY <1>1, <1>2, <1>3, SchemaInvariant, PTL DEF Spec
=============================================================================
