----------------------------- MODULE StoreMoves ------------------------------
(***************************************************************************)
(* What the proofs about Store rest on: lists of records (what push,       *)
(* splice and the validation of a file do to them), the inductive          *)
(* invariant, what a request does to a store up to its next wait, and the  *)
(* steps that several actions share.  StoreProofs has the actions and the  *)
(* theorems.                                                               *)
(***************************************************************************)
EXTENDS Store, WellFoundedInduction, TLAPS

-----------------------------------------------------------------------------
(* Lists of records *)

\* A set of numbers that is not empty has a least one: what the inductions
\* below rest on.
LEMMA LeastNumber ==
    ASSUME NEW T \in SUBSET Nat, T # {}
    PROVE  \E x \in T : \A y \in T : x <= y
<1>1. IsWellFoundedOn(OpToRel(<, Nat), Nat)
  BY NatLessThanWellFounded
<1>2. PICK x \in T : \A y \in T : ~(<<y, x>> \in OpToRel(<, Nat))
  BY <1>1, WFMin
<1>3. ASSUME NEW y \in T PROVE x <= y
  <2>1. ~(<<y, x>> \in OpToRel(<, Nat))
    BY <1>2
  <2>2. ~(y < x)
    BY <2>1 DEF OpToRel
  <2> QED BY <2>2
<1> QED BY <1>3

\* The requests of a script ask something of an item.
LEMMA ScriptType ==
    ASSUME NEW sc \in Scripts, NEW i \in DOMAIN sc
    PROVE  sc[i].kind \in Kinds /\ sc[i].item \in Items
<1>1. sc \in Seq([kind : Kinds, item : Items])
  BY ScriptsAssumption
<1> DEFINE S == [kind : Kinds, item : Items]
<1>2. ASSUME NEW t \in Seq(S), NEW k \in DOMAIN t PROVE t[k] \in S
  <2> HIDE DEF S
  <2> QED OBVIOUS
<1>3. sc[i] \in S
  BY <1>1, <1>2
<1> QED BY <1>3

\* What a list holds, by position.
LEMMA HasIndex ==
    ASSUME NEW s \in Seq(Records), NEW x
    PROVE  Has(s, x) <=> \E k \in 1 .. Len(s) : s[k] = x
BY DEF Has

\* push adds the record, and keeps the list free of duplicates when the record
\* was not there (createUser, addGameToCatalog, createGame).
LEMMA PushRecord ==
    ASSUME NEW s \in Seq(Records), NEW x \in Records
    PROVE  /\ Append(s, x) \in Seq(Records)
           /\ \A y : Has(Append(s, x), y) <=> Has(s, y) \/ y = x
           /\ Unique(s) /\ ~Has(s, x) => Unique(Append(s, x))
<1> DEFINE t == Append(s, x)
<1>1. /\ t \in Seq(Records) /\ Len(s) \in Nat /\ Len(t) = Len(s) + 1
      /\ \A i \in 1 .. Len(s) : t[i] = s[i]
      /\ t[Len(s) + 1] = x
  OBVIOUS
<1> HIDE DEF t
<1>2. ASSUME NEW y PROVE Has(t, y) <=> Has(s, y) \/ y = x
  <2>1. (\E k \in 1 .. Len(t) : t[k] = y) <=> (\E k \in 1 .. Len(s) : s[k] = y) \/ y = x
    BY <1>1
  <2> QED BY <1>1, <2>1, HasIndex
<1>3. ASSUME Unique(s), ~Has(s, x) PROVE Unique(t)
  <2>1. DOMAIN s = 1 .. Len(s) /\ DOMAIN t = 1 .. Len(s) + 1
    BY <1>1
  <2>2. \A k \in 1 .. Len(s) : s[k] # x
    BY <1>3, HasIndex
  <2>3. \A j, k \in 1 .. Len(s) : s[j] = s[k] /\ s[j] # Invalid => j = k
    BY <1>3, <2>1 DEF Unique
  <2>4. ASSUME NEW j \in 1 .. Len(s) + 1, NEW k \in 1 .. Len(s) + 1,
               t[j] = t[k], t[j] # Invalid
        PROVE  j = k
    <3>1. CASE j \in 1 .. Len(s) /\ k \in 1 .. Len(s)
      BY <1>1, <2>3, <2>4, <3>1
    <3>2. CASE j = Len(s) + 1 \/ k = Len(s) + 1
      BY <1>1, <2>2, <2>4, <3>2
    <3> QED BY <1>1, <3>1, <3>2
  <2> QED BY <2>1, <2>4 DEF Unique
<1> QED BY <1>1, <1>2, <1>3 DEF t

\* findIndex finds a record that is there.
LEMMA FindIndex ==
    ASSUME NEW s \in Seq(Records), NEW x, Has(s, x)
    PROVE  IndexOf(s, x) \in 1 .. Len(s) /\ s[IndexOf(s, x)] = x
<1>1. DOMAIN s = 1 .. Len(s) /\ Len(s) \in Nat
  OBVIOUS
<1> DEFINE T == {k \in 1 .. Len(s) : s[k] = x}
<1>2. T \in SUBSET Nat /\ T # {}
  BY <1>1, HasIndex
<1>3. PICK k \in T : \A y \in T : k <= y
  BY <1>2, LeastNumber
<1>4. \A j \in 1 .. k - 1 : s[j] # x
  <2>1. \A j \in 1 .. k - 1 : j \in 1 .. Len(s) /\ ~(k <= j)
    BY <1>1
  <2> QED BY <1>3, <2>1
<1>5. k \in DOMAIN s /\ s[k] = x
  BY <1>1
<1> HIDE DEF T
<1>6. \E n \in DOMAIN s : s[n] = x /\ \A j \in 1 .. n - 1 : s[j] # x
  BY <1>4, <1>5
<1> QED BY <1>1, <1>6 DEF IndexOf

\* splice takes one record out.
LEMMA SpliceRecord ==
    ASSUME NEW s \in Seq(Records), NEW n \in 1 .. Len(s)
    PROVE  /\ Without(s, n) \in Seq(Records)
           /\ Len(Without(s, n)) = Len(s) - 1
           /\ \A i \in 1 .. Len(s) - 1 : Without(s, n)[i] = IF i < n THEN s[i] ELSE s[i + 1]
<1>1. Len(s) \in Nat /\ \A i \in 1 .. Len(s) : s[i] \in Records
  OBVIOUS
<1> DEFINE a == SubSeq(s, 1, n - 1)
           b == SubSeq(s, n + 1, Len(s))
<1>2. /\ a \in Seq(Records) /\ Len(a) = n - 1
      /\ \A i \in 1 .. n - 1 : a[i] = s[i]
  <2>1. \A i \in 1 .. n - 1 : s[i] \in Records
    BY <1>1
  <2>2. 1 \in Int /\ n - 1 \in Int
    BY <1>1
  <2>3. /\ a \in Seq(Records)
        /\ Len(a) = IF 1 <= n - 1 THEN (n - 1) - 1 + 1 ELSE 0
        /\ \A i \in 1 .. (n - 1) - 1 + 1 : a[i] = s[1 + i - 1]
    BY <2>1, <2>2
  <2> HIDE DEF a
  <2> QED BY <1>1, <2>3
<1>3. /\ b \in Seq(Records) /\ Len(b) = Len(s) - n
      /\ \A i \in 1 .. Len(s) - n : b[i] = s[n + i]
  <2>1. \A i \in n + 1 .. Len(s) : s[i] \in Records
    BY <1>1
  <2>2. n + 1 \in Int /\ Len(s) \in Int
    BY <1>1
  <2>3. /\ b \in Seq(Records)
        /\ Len(b) = IF n + 1 <= Len(s) THEN Len(s) - (n + 1) + 1 ELSE 0
        /\ \A i \in 1 .. Len(s) - (n + 1) + 1 : b[i] = s[n + 1 + i - 1]
    BY <2>1, <2>2
  <2> HIDE DEF b
  <2> QED BY <1>1, <2>3
<1> HIDE DEF a, b
<1>4. /\ a \o b \in Seq(Records) /\ Len(a \o b) = Len(a) + Len(b)
      /\ \A i \in 1 .. Len(a) + Len(b) : (a \o b)[i] = IF i <= Len(a) THEN a[i] ELSE b[i - Len(a)]
  <2>1. a \in Seq(Records) /\ b \in Seq(Records)
    BY <1>2, <1>3
  <2> QED BY <2>1
<1>5. Without(s, n) = a \o b
  BY DEF Without, a, b
<1> DEFINE c == a \o b
<1> HIDE DEF c
<1>6. /\ c \in Seq(Records) /\ Len(c) = Len(s) - 1
      /\ \A i \in 1 .. Len(s) - 1 : c[i] = IF i <= n - 1 THEN a[i] ELSE b[i - (n - 1)]
  BY <1>1, <1>2, <1>3, <1>4 DEF c
<1>7. \A i \in 1 .. Len(s) - 1 : c[i] = IF i < n THEN s[i] ELSE s[i + 1]
  BY <1>1, <1>2, <1>3, <1>6
<1>8. Without(s, n) = c
  BY <1>5 DEF c
<1> QED BY <1>6, <1>7, <1>8

\* deleteGame takes the game out of a list free of duplicates, and only it.
LEMMA DeleteRecord ==
    ASSUME NEW s \in Seq(Records), NEW x \in Items, Has(s, x), Unique(s)
    PROVE  LET t == Without(s, IndexOf(s, x))
           IN  /\ t \in Seq(Records) /\ Unique(t)
               /\ \A y : Has(t, y) <=> Has(s, y) /\ y # x
<1> DEFINE n == IndexOf(s, x)
           t == Without(s, n)
<1>1. n \in 1 .. Len(s) /\ s[n] = x
  BY FindIndex
<1> HIDE DEF n
<1>2. /\ t \in Seq(Records) /\ Len(t) = Len(s) - 1
      /\ \A i \in 1 .. Len(s) - 1 : t[i] = IF i < n THEN s[i] ELSE s[i + 1]
  BY <1>1, SpliceRecord
<1> HIDE DEF t
<1>3. Len(s) \in Nat /\ DOMAIN s = 1 .. Len(s) /\ DOMAIN t = 1 .. Len(s) - 1
  BY <1>2
<1>4. \A j, k \in 1 .. Len(s) : s[j] = s[k] /\ s[j] # Invalid => j = k
  BY <1>3 DEF Unique
<1>5. x # Invalid
  BY ItemsAssumption
<1>6. ASSUME NEW j \in 1 .. Len(s) - 1, NEW k \in 1 .. Len(s) - 1, t[j] = t[k], t[j] # Invalid
      PROVE  j = k
  <2> DEFINE p == IF j < n THEN j ELSE j + 1
             q == IF k < n THEN k ELSE k + 1
  <2>1. p \in 1 .. Len(s) /\ q \in 1 .. Len(s) /\ t[j] = s[p] /\ t[k] = s[q]
    BY <1>1, <1>2, <1>3
  <2>2. p = q
    <3> HIDE DEF p, q
    <3> QED BY <1>4, <1>6, <2>1
  <2> QED BY <1>1, <1>3, <2>2
<1>7. ASSUME NEW y PROVE Has(t, y) <=> Has(s, y) /\ y # x
  <2>1. ASSUME Has(t, y) PROVE Has(s, y) /\ y # x
    <3>1. PICK k \in 1 .. Len(s) - 1 : t[k] = y
      BY <1>2, <2>1, HasIndex
    <3> DEFINE q == IF k < n THEN k ELSE k + 1
    <3>2. q \in 1 .. Len(s) /\ q # n /\ s[q] = y
      BY <1>1, <1>2, <1>3, <3>1
    <3> HIDE DEF q
    <3>3. y # x
      BY <1>1, <1>4, <1>5, <3>2
    <3> QED BY <3>2, <3>3, HasIndex
  <2>2. ASSUME Has(s, y), y # x PROVE Has(t, y)
    <3>1. PICK k \in 1 .. Len(s) : s[k] = y
      BY <2>2, HasIndex
    <3> DEFINE q == IF k < n THEN k ELSE k - 1
    <3>2. k # n
      BY <1>1, <2>2, <3>1
    <3>3. q \in 1 .. Len(s) - 1 /\ t[q] = y
      BY <1>1, <1>2, <1>3, <3>1, <3>2
    <3> HIDE DEF q
    <3> QED BY <1>2, <3>3, HasIndex
  <2> QED BY <2>1, <2>2
<1>8. Unique(t)
  BY <1>3, <1>6 DEF Unique
<1> QED BY <1>2, <1>7, <1>8 DEF t, n

\* One step of the validation: f[k] holds the valid ones of the first k records.
Selected(f, s, k) ==
    IF k = 0 THEN << >> ELSE IF s[k] = Invalid THEN f[k - 1] ELSE Append(f[k - 1], s[k])
Selects(f, s, n) == f = [k \in 0 .. n |-> Selected(f, s, k)]

\* There is such a function for every n.
LEMMA SelectsExists ==
    ASSUME NEW s, NEW n \in Nat
    PROVE  \E f : Selects(f, s, n)
<1> DEFINE T == {m \in Nat : ~\E f : Selects(f, s, m)}
<1> SUFFICES ASSUME T # {} PROVE FALSE
  OBVIOUS
<1>1. PICK m \in T : \A y \in T : m <= y
  BY LeastNumber
<1>2. m \in Nat /\ ~\E f : Selects(f, s, m)
  OBVIOUS
<1>3. m # 0
  <2> DEFINE f == [k \in 0 .. 0 |-> << >>]
  <2>1. f = [k \in 0 .. 0 |-> Selected(f, s, k)]
    BY DEF Selected
  <2>2. Selects(f, s, 0)
    BY <2>1 DEF Selects
  <2> QED BY <1>2, <2>2
<1>4. m - 1 \in Nat /\ m - 1 \notin T
  BY <1>1, <1>2, <1>3
<1>5. PICK f : Selects(f, s, m - 1)
  BY <1>4
<1> DEFINE g == [k \in 0 .. m |-> Selected(f, s, k)]
<1>6. \A k \in 0 .. m - 1 : g[k] = f[k]
  <2>1. \A k \in 0 .. m - 1 : f[k] = Selected(f, s, k)
    BY <1>5, Zenon DEF Selects
  <2>2. \A k \in 0 .. m - 1 : k \in 0 .. m
    BY <1>2
  <2> QED BY <2>1, <2>2, Zenon
<1>7. \A k \in 0 .. m : Selected(f, s, k) = Selected(g, s, k)
  <2>1. \A k \in 0 .. m : k # 0 => k - 1 \in 0 .. m - 1
    BY <1>2
  <2> HIDE DEF g
  <2> QED BY <1>6, <2>1 DEF Selected
<1>8. Selects(g, s, m)
  BY <1>7 DEF Selects
<1> QED BY <1>2, <1>8

\* v holds the valid ones of the first k records of s, each once.
Filtered(v, s, k) ==
    /\ v \in Seq(Records) /\ Unique(v)
    /\ \A x : Has(v, x) <=> x # Invalid /\ \E j \in 1 .. k : s[j] = x

\* Of no records, none is kept.
LEMMA FilteredNone ==
    ASSUME NEW s
    PROVE  Filtered(<< >>, s, 0)
<1>1. << >> \in Seq(Records) /\ DOMAIN << >> = {}
  OBVIOUS
<1>2. Unique(<< >>)
  BY <1>1 DEF Unique
<1>3. \A x : ~Has(<< >>, x)
  BY DEF Has
<1> QED BY <1>1, <1>2, <1>3 DEF Filtered

\* The validation of the next record keeps it, or leaves it out.
LEMMA FilteredNext ==
    ASSUME NEW s \in Seq(Records), Unique(s), NEW k \in 1 .. Len(s), NEW v, Filtered(v, s, k - 1)
    PROVE  Filtered(IF s[k] = Invalid THEN v ELSE Append(v, s[k]), s, k)
<1>1. Len(s) \in Nat /\ DOMAIN s = 1 .. Len(s) /\ s[k] \in Records
  OBVIOUS
<1>2. /\ v \in Seq(Records) /\ Unique(v)
      /\ \A x : Has(v, x) <=> x # Invalid /\ \E j \in 1 .. k - 1 : s[j] = x
  BY DEF Filtered
<1>3. \A x : (\E j \in 1 .. k : s[j] = x) <=> (\E j \in 1 .. k - 1 : s[j] = x) \/ x = s[k]
  <2>1. \A j : j \in 1 .. k <=> j \in 1 .. k - 1 \/ j = k
    BY <1>1
  <2> QED BY <2>1
<1>4. CASE s[k] = Invalid
  <2>1. \A x : Has(v, x) <=> x # Invalid /\ \E j \in 1 .. k : s[j] = x
    BY <1>2, <1>3, <1>4
  <2> QED BY <1>2, <1>4, <2>1 DEF Filtered
<1>5. CASE s[k] # Invalid
  <2>1. ~Has(v, s[k])
    <3>1. \A j \in 1 .. k - 1 : j \in DOMAIN s /\ k \in DOMAIN s /\ j # k
      BY <1>1
    <3>2. \A j \in 1 .. k - 1 : s[j] # s[k]
      BY <1>5, <3>1 DEF Unique
    <3> QED BY <1>2, <3>2
  <2>2. /\ Append(v, s[k]) \in Seq(Records)
        /\ \A y : Has(Append(v, s[k]), y) <=> Has(v, y) \/ y = s[k]
        /\ Unique(Append(v, s[k]))
    BY <1>1, <1>2, <2>1, PushRecord
  <2>3. \A x : Has(Append(v, s[k]), x) <=> x # Invalid /\ \E j \in 1 .. k : s[j] = x
    BY <1>2, <1>3, <1>5, <2>2
  <2> QED BY <1>5, <2>2, <2>3 DEF Filtered
<1> QED BY <1>4, <1>5

\* The validation of a file (ensureLoaded) keeps the valid records and nothing
\* else.
LEMMA ValidRecords ==
    ASSUME NEW s \in Seq(Records), Unique(s)
    PROVE  /\ Valid(s) \in Seq(Records) /\ Unique(Valid(s))
           /\ \A x : Has(Valid(s), x) <=> Has(s, x) /\ x # Invalid
<1>1. Len(s) \in Nat
  OBVIOUS
<1> DEFINE f == CHOOSE g : g = [k \in 0 .. Len(s) |->
                   IF k = 0 THEN << >>
                   ELSE IF s[k] = Invalid THEN g[k - 1] ELSE Append(g[k - 1], s[k])]
<1>2. Valid(s) = f[Len(s)]
  BY DEF Valid
<1>3. Selects(f, s, Len(s))
  BY <1>1, SelectsExists DEF Selects, Selected
<1> HIDE DEF f
<1> DEFINE T == {k \in 0 .. Len(s) : ~Filtered(f[k], s, k)}
<1>4. T = {}
  <2> SUFFICES ASSUME T # {} PROVE FALSE
    OBVIOUS
  <2>1. T \in SUBSET Nat
    OBVIOUS
  <2>2. PICK k \in T : \A y \in T : k <= y
    BY <2>1, LeastNumber
  <2>3. k \in 0 .. Len(s) /\ ~Filtered(f[k], s, k)
    OBVIOUS
  <2>4. f[k] = Selected(f, s, k)
    BY <1>3, <2>3, Zenon DEF Selects
  <2>5. k # 0
    BY <2>3, <2>4, FilteredNone DEF Selected
  <2>6. k \in 1 .. Len(s) /\ k - 1 \in 0 .. Len(s) /\ ~(k <= k - 1)
    BY <1>1, <2>3, <2>5
  <2>7. Filtered(f[k - 1], s, k - 1)
    BY <2>2, <2>6
  <2>8. f[k] = IF s[k] = Invalid THEN f[k - 1] ELSE Append(f[k - 1], s[k])
    BY <2>4, <2>5 DEF Selected
  <2> HIDE DEF T
  <2> QED BY <2>3, <2>6, <2>7, <2>8, FilteredNext
<1>5. Filtered(Valid(s), s, Len(s))
  BY <1>1, <1>2, <1>4
<1> QED BY <1>5, HasIndex DEF Filtered

-----------------------------------------------------------------------------
(* The inductive invariant *)

Pcs == {"none", "hash", "metadata", "exists", "read", "seed", "save", "queued"} \union Answers
Stores == [state : {"null", "absent", "torn", "whole"}, users : Seq(Records), games : Seq(Records)]
Requests == [kind : Kinds \union {"none"}, item : Records, pc : Pcs,
             checks : BOOLEAN, loading : BOOLEAN, before : SUBSET Ids]

\* What is known of request i, r, of the script sc from where it waits.
RequestOK(r, sc, i) ==
    /\ r \in Requests
    /\ r.pc # "none" => /\ i \in DOMAIN sc
                        /\ r.kind = sc[i].kind /\ r.item = sc[i].item
    /\ r.pc = "hash" => r.kind \in AccountKinds
    /\ r.pc = "metadata" => r.kind = "claim"
    /\ r.pc \in {"hash", "metadata"} => ~r.checks /\ ~r.loading
    /\ r.pc \in {"exists", "read", "seed"} => r.loading
    /\ r.pc = "done" => ~r.loading
    /\ r.checks => r.kind \in {"bootstrap", "claim"}

Types ==
    /\ script \in Scripts
    /\ storeData \in Stores /\ file \in Stores /\ written \in Stores
    /\ DOMAIN requests = Ids
    /\ writeQueue \in Seq(Ids) /\ opened \in BOOLEAN

\* And the answers a request found when it came in are still there.
RequestsOK(rq, sc) ==
    \A i \in Ids : RequestOK(rq[i], sc, i) /\ \A j \in rq[i].before : rq[j].pc = "done"
RequestInv == RequestsOK(requests, script)

\* No save is queued twice, or without a store to write; and a fresh store is
\* made for a file that cannot be read.
QueueInv ==
    /\ TypeOK
    /\ \A j, k \in 1 .. Len(writeQueue) : writeQueue[j] = writeQueue[k] => j = k
    /\ \A i \in Ids : requests[i].pc \in {"save", "queued"} => storeData # null
    /\ \A i \in Ids : requests[i].pc = "seed" /\ storeData = null => file.state # "whole"

\* A store without duplicates, in which nobody has an identifier that is still
\* to be made.
Clean(rq, sc, s) ==
    /\ Unique(s.users) /\ Unique(s.games)
    /\ \A i \in Ids \cap DOMAIN sc :
          sc[i].kind = "create" /\ (rq[i].pc = "none" \/ rq[i].loading) =>
              ~Has(s.games, sc[i].item)

CleanInv ==
    /\ Clean(requests, script, storeData)
    /\ Clean(requests, script, file)
    /\ Clean(requests, script, written)

\* Honoured, as a function of the requests.
Undone(rq, i, kinds) ==
    \E j \in Ids : /\ rq[j].pc # "none" /\ j \notin rq[i].before
                   /\ rq[j].kind \in kinds /\ rq[j].item = rq[i].item
Kept(rq, i, s) ==
    /\ rq[i].kind \in AccountKinds => Has(s.users, rq[i].item)
    /\ rq[i].kind \in {"claim", "create"} => Has(s.games, rq[i].item) \/ Undone(rq, i, {"delete"})
    /\ rq[i].kind = "delete" => ~Has(s.games, rq[i].item) \/ Undone(rq, i, {"claim", "create"})

\* Request i has changed the store in memory.
Applied(rq, i) == rq[i].pc \in {"save", "queued", "done"} /\ ~rq[i].loading

Saving == \E i \in Ids : requests[i].pc = "save"

MemoryKeeps ==
    storeData # null => \A i \in Ids : Applied(requests, i) => Kept(requests, i, storeData)
FileKeeps ==
    file.state = "whole" => \A i \in Ids : requests[i].pc = "done" => Kept(requests, i, file)
\* The save under way writes what has been answered, and what it will answer.
SaveKeeps ==
    writeQueue # <<>> =>
        \A i \in Ids : requests[i].pc = "done" \/ (i = Head(writeQueue) /\ Applied(requests, i)) =>
            Kept(requests, i, written)
\* Nothing is answered before there is a file, and a cut file has its save.
FileBefore == ~opened /\ file.state # "whole" => \A i \in Ids : requests[i].pc # "done"
\* The file holds the store in memory, or will when the last save ends.
FileIsStore == storeData # null /\ ~Saving /\ writeQueue = <<>> => file = storeData
LastSaveIsStore == ~Saving /\ Len(writeQueue) = 1 => written = storeData
\* A bootstrap that finds an account answered has yet to ask hasUsers, or has
\* been refused.
LateBootstraps(rq) ==
    \A i \in Ids : \A j \in rq[i].before :
       rq[i].kind = "bootstrap" /\ rq[j].kind \in AccountKinds =>
           rq[i].pc = "refused" \/ (rq[i].checks /\ rq[i].loading)
LateBootstrap == LateBootstraps(requests)

AnswerInv ==
    /\ MemoryKeeps /\ FileKeeps /\ SaveKeeps /\ FileBefore
    /\ FileIsStore /\ LastSaveIsStore /\ LateBootstrap

IInv ==
    /\ Types /\ RequestInv /\ QueueInv /\ CleanInv
    /\ marred = {} => AnswerInv

-----------------------------------------------------------------------------
(* What a request does to a store *)

\* Request r, now q, has made t of the store s, up to its next wait.
Outcome(r, s, q, t) ==
    /\ q \in Requests /\ t \in Stores /\ t.state = "whole"
    /\ q.kind = r.kind /\ q.item = r.item /\ q.before = r.before /\ q.loading = r.loading
    /\ ~q.checks
    /\ Unique(t.users) /\ Unique(t.games)
    /\ \/ /\ t = s
          /\ \/ q.pc = "refused"
             \/ q.pc = "hash" /\ r.kind = "bootstrap" /\ s.users = <<>>
             \/ q.pc = "metadata" /\ r.kind = "claim"
       \/ /\ q.pc = "save" /\ ~r.checks
          /\ \/ /\ r.kind \in AccountKinds /\ t.games = s.games
                /\ \A y : Has(t.users, y) <=> Has(s.users, y) \/ y = r.item
             \/ /\ r.kind \in {"claim", "create"} /\ t.users = s.users
                /\ \A y : Has(t.games, y) <=> Has(s.games, y) \/ y = r.item
             \/ /\ r.kind = "delete" /\ t.users = s.users
                /\ \A y : Has(t.games, y) <=> Has(s.games, y) /\ y # r.item

\* The handlers refuse, wait, or change the store and save it.
LEMMA HandleOutcome ==
    ASSUME NEW r \in Requests, NEW s \in Stores, s.state = "whole",
           r.kind \in Kinds, r.item \in Items,
           r.checks => r.kind \in {"bootstrap", "claim"},
           Unique(s.users), Unique(s.games),
           r.kind = "create" => ~Has(s.games, r.item)
    PROVE  Outcome(r, s, Handle(r, s).request, Handle(r, s).store)
<1>1. s.users \in Seq(Records) /\ s.games \in Seq(Records) /\ r.item \in Records
  BY DEF Stores, Records
<1>2. ASSUME NEW pc \in {"refused", "hash", "metadata"},
             pc = "hash" => r.kind = "bootstrap" /\ s.users = <<>>,
             pc = "metadata" => r.kind = "claim"
      PROVE  Outcome(r, s, Waits(r, s, pc).request, Waits(r, s, pc).store)
  <2>1. /\ Waits(r, s, pc).store = s
        /\ Waits(r, s, pc).request = [r EXCEPT !.pc = pc, !.checks = FALSE]
    BY DEF Waits
  <2> DEFINE q == [r EXCEPT !.pc = pc, !.checks = FALSE]
  <2>2. /\ q \in Requests /\ q.pc = pc /\ ~q.checks
        /\ q.kind = r.kind /\ q.item = r.item /\ q.before = r.before /\ q.loading = r.loading
    BY DEF Requests, Pcs, Answers
  <2> HIDE DEF q
  <2> QED BY <1>2, <2>1, <2>2 DEF Outcome, q
<1>3. ASSUME NEW t \in Stores, t.state = "whole", ~r.checks, Unique(t.users), Unique(t.games),
             \/ /\ r.kind \in AccountKinds /\ t.games = s.games
                /\ \A y : Has(t.users, y) <=> Has(s.users, y) \/ y = r.item
             \/ /\ r.kind \in {"claim", "create"} /\ t.users = s.users
                /\ \A y : Has(t.games, y) <=> Has(s.games, y) \/ y = r.item
             \/ /\ r.kind = "delete" /\ t.users = s.users
                /\ \A y : Has(t.games, y) <=> Has(s.games, y) /\ y # r.item
      PROVE  Outcome(r, s, Saves(r, t).request, Saves(r, t).store)
  <2>1. Saves(r, t).store = t /\ Saves(r, t).request = [r EXCEPT !.pc = "save"]
    BY DEF Saves
  <2> DEFINE q == [r EXCEPT !.pc = "save"]
  <2>2. /\ q \in Requests /\ q.pc = "save" /\ ~q.checks
        /\ q.kind = r.kind /\ q.item = r.item /\ q.before = r.before /\ q.loading = r.loading
    BY <1>3 DEF Requests, Pcs, Answers
  <2> HIDE DEF q
  <2> QED BY <1>3, <2>1, <2>2 DEF Outcome, q
<1>4. Outcome(r, s, Refuse(r, s).request, Refuse(r, s).store)
  BY <1>2 DEF Refuse
<1>5. CASE r.kind = "bootstrap" /\ r.checks
  <2>1. Handle(r, s) = ControllerBootstrap(r, s)
    BY <1>5 DEF Handle, AccountKinds
  <2>2. s.users = <<>> => Outcome(r, s, Waits(r, s, "hash").request, Waits(r, s, "hash").store)
    BY <1>2, <1>5
  <2> QED BY <1>4, <2>1, <2>2 DEF ControllerBootstrap
<1>6. CASE r.kind = "claim" /\ r.checks
  <2>1. Handle(r, s) = ControllerClaimGame(r, s)
    BY <1>6 DEF Handle, AccountKinds
  <2>2. Outcome(r, s, Waits(r, s, "metadata").request, Waits(r, s, "metadata").store)
    BY <1>2, <1>6
  <2> QED BY <1>4, <2>1, <2>2 DEF ControllerClaimGame
<1>7. CASE r.kind \in AccountKinds /\ ~r.checks
  <2>1. Handle(r, s) = createUser(r, s)
    BY <1>7 DEF Handle, AccountKinds
  <2>2. ASSUME ~Has(s.users, r.item)
        PROVE  Outcome(r, s, PushUser(r, s).request, PushUser(r, s).store)
    <3> DEFINE t == [s EXCEPT !.users = Append(s.users, r.item)]
    <3>1. /\ Append(s.users, r.item) \in Seq(Records) /\ Unique(Append(s.users, r.item))
          /\ \A y : Has(Append(s.users, r.item), y) <=> Has(s.users, y) \/ y = r.item
      BY <1>1, <2>2, PushRecord
    <3>2. /\ t \in Stores /\ t.state = "whole" /\ t.games = s.games
          /\ t.users = Append(s.users, r.item)
      BY <3>1 DEF Stores
    <3>3. PushUser(r, s) = Saves(r, t)
      BY DEF PushUser
    <3> HIDE DEF t
    <3> QED BY <1>3, <1>7, <3>1, <3>2, <3>3
  <2> QED BY <1>4, <2>1, <2>2 DEF createUser
<1>8. ASSUME r.kind \in {"claim", "create"}, ~r.checks, ~Has(s.games, r.item)
      PROVE  Outcome(r, s, PushGame(r, s).request, PushGame(r, s).store)
  <2> DEFINE t == [s EXCEPT !.games = Append(s.games, r.item)]
  <2>1. /\ Append(s.games, r.item) \in Seq(Records) /\ Unique(Append(s.games, r.item))
        /\ \A y : Has(Append(s.games, r.item), y) <=> Has(s.games, y) \/ y = r.item
    BY <1>1, <1>8, PushRecord
  <2>2. /\ t \in Stores /\ t.state = "whole" /\ t.users = s.users
        /\ t.games = Append(s.games, r.item)
    BY <2>1 DEF Stores
  <2>3. PushGame(r, s) = Saves(r, t)
    BY DEF PushGame
  <2> HIDE DEF t
  <2> QED BY <1>3, <1>8, <2>1, <2>2, <2>3
<1>9. CASE r.kind = "claim" /\ ~r.checks
  <2>1. Handle(r, s) = addGameToCatalog(r, s)
    BY <1>9 DEF Handle, AccountKinds
  <2> QED BY <1>4, <1>8, <1>9, <2>1 DEF addGameToCatalog
<1>10. CASE r.kind = "create"
  <2>1. Handle(r, s) = createGame(r, s) /\ ~r.checks
    BY <1>10 DEF Handle, AccountKinds
  <2> QED BY <1>8, <1>10, <2>1 DEF createGame
<1>11. CASE r.kind = "delete"
  <2>1. Handle(r, s) = deleteGame(r, s) /\ ~r.checks
    BY <1>11 DEF Handle, AccountKinds
  <2> DEFINE g == Without(s.games, IndexOf(s.games, r.item))
             t == [s EXCEPT !.games = g]
  <2>2. ASSUME Has(s.games, r.item)
        PROVE  Outcome(r, s, Saves(r, t).request, Saves(r, t).store)
    <3>1. /\ g \in Seq(Records) /\ Unique(g)
          /\ \A y : Has(g, y) <=> Has(s.games, y) /\ y # r.item
      BY <1>1, <2>2, DeleteRecord
    <3> HIDE DEF g
    <3>2. t \in Stores /\ t.state = "whole" /\ t.users = s.users /\ t.games = g
      BY <3>1 DEF Stores
    <3> HIDE DEF t
    <3> QED BY <1>3, <1>11, <2>1, <3>1, <3>2
  <2>3. Has(s.games, r.item) => deleteGame(r, s) = Saves(r, t)
    BY DEF deleteGame
  <2>4. ~Has(s.games, r.item) => deleteGame(r, s) = Refuse(r, s)
    BY DEF deleteGame
  <2> HIDE DEF t
  <2> QED BY <1>4, <2>1, <2>2, <2>3, <2>4
<1> QED BY <1>5, <1>6, <1>7, <1>9, <1>10, <1>11 DEF Kinds

-----------------------------------------------------------------------------
(* Steps of one request *)

\* Request i moves on from rq to rq2: it was not answered, and keeps what it
\* asks.
Moves(rq, rq2, i) ==
    /\ DOMAIN rq2 = Ids
    /\ \A j \in Ids \ {i} : rq2[j] = rq[j]
    /\ rq[i].pc # "done" /\ rq2[i].pc # "none"
    /\ rq[i].pc # "none" => /\ rq2[i].kind = rq[i].kind /\ rq2[i].item = rq[i].item
                            /\ rq2[i].before = rq[i].before
    /\ \A k \in rq2[i].before : rq[k].pc = "done"
    /\ rq2[i].kind = "create" /\ rq2[i].loading => rq[i].pc = "none" \/ rq[i].loading

\* What is known of the requests stays so.
LEMMA MovesRequests ==
    ASSUME NEW rq, NEW rq2, NEW sc, NEW i \in Ids, Moves(rq, rq2, i),
           RequestsOK(rq, sc), RequestOK(rq2[i], sc, i)
    PROVE  RequestsOK(rq2, sc)
<1>1. \A j \in Ids : RequestOK(rq2[j], sc, j)
  BY DEF Moves, RequestsOK
<1>2. \A j \in Ids : rq2[j].before \subseteq Ids
  BY <1>1 DEF RequestOK, Requests
<1>3. ASSUME NEW j \in Ids, NEW k \in rq2[j].before PROVE rq2[k].pc = "done"
  <2>1. rq[k].pc = "done"
    BY <1>3 DEF Moves, RequestsOK
  <2>2. k \in Ids \ {i}
    BY <1>2, <1>3, <2>1 DEF Moves
  <2> QED BY <2>1, <2>2 DEF Moves
<1> QED BY <1>1, <1>3 DEF RequestsOK

\* A store without duplicates or identifiers to be made stays one.
LEMMA MovesClean ==
    ASSUME NEW rq, NEW rq2, NEW sc, NEW i \in Ids, NEW s, Moves(rq, rq2, i),
           RequestOK(rq2[i], sc, i), Clean(rq, sc, s)
    PROVE  Clean(rq2, sc, s)
<1>1. Unique(s.users) /\ Unique(s.games)
  BY DEF Clean
<1>2. ASSUME NEW j \in Ids \cap DOMAIN sc,
             sc[j].kind = "create", rq2[j].pc = "none" \/ rq2[j].loading
      PROVE  ~Has(s.games, sc[j].item)
  <2>1. rq[j].pc = "none" \/ rq[j].loading
    BY <1>2 DEF Moves, RequestOK
  <2> QED BY <1>2, <2>1 DEF Clean
<1> QED BY <1>1, <1>2 DEF Clean

\* A bootstrap after an answered account stays late when it is another request
\* that moves on, or when it is refused or has still to ask.
LEMMA MovesLate ==
    ASSUME NEW rq, NEW rq2, NEW sc, NEW i \in Ids, Moves(rq, rq2, i),
           RequestsOK(rq, sc), RequestsOK(rq2, sc), LateBootstraps(rq),
           \A k \in rq2[i].before :
              rq2[i].kind = "bootstrap" /\ rq[k].kind \in AccountKinds =>
                  rq2[i].pc = "refused" \/ (rq2[i].checks /\ rq2[i].loading)
    PROVE  LateBootstraps(rq2)
<1>1. ASSUME NEW j \in Ids, NEW k \in rq2[j].before PROVE rq2[k].kind = rq[k].kind
  <2>1. k \in Ids
    BY <1>1 DEF RequestsOK, RequestOK, Requests
  <2>2. rq[k].pc = "done"
    BY <1>1 DEF Moves, RequestsOK
  <2> QED BY <2>1, <2>2 DEF Moves
<1>2. \A j \in Ids \ {i} : rq2[j] = rq[j]
  BY DEF Moves
<1> QED BY <1>1, <1>2 DEF LateBootstraps

\* What a store keeps of a request it keeps.
LEMMA MovesKept ==
    ASSUME NEW rq, NEW rq2, NEW i \in Ids, NEW j \in Ids, NEW s, Moves(rq, rq2, i),
           rq[j].pc # "none", Kept(rq, j, s)
    PROVE  Kept(rq2, j, s)
<1>1. rq2[j].kind = rq[j].kind /\ rq2[j].item = rq[j].item /\ rq2[j].before = rq[j].before
  BY DEF Moves
<1>2. ASSUME NEW kinds, Undone(rq, j, kinds) PROVE Undone(rq2, j, kinds)
  <2>1. PICK k \in Ids : /\ rq[k].pc # "none" /\ k \notin rq[j].before
                         /\ rq[k].kind \in kinds /\ rq[k].item = rq[j].item
    BY <1>2 DEF Undone
  <2>2. rq2[k].pc # "none" /\ rq2[k].kind = rq[k].kind /\ rq2[k].item = rq[k].item
    BY <2>1 DEF Moves
  <2> QED BY <1>1, <2>1, <2>2 DEF Undone
<1> QED BY <1>1, <1>2 DEF Kept

\* The change request i makes leaves it kept, and the others too: a request
\* that it undoes had not found its answer.
LEMMA OutcomeKept ==
    ASSUME NEW rq, NEW rq2, NEW i \in Ids, NEW j \in Ids, NEW r, NEW s, NEW t,
           Moves(rq, rq2, i), Outcome(r, s, rq2[i], t),
           j # i => Kept(rq2, j, s) /\ \A k \in rq[j].before : rq[k].pc = "done",
           j = i => rq2[i].pc = "save"
    PROVE  Kept(rq2, j, t)
<1>1. CASE j = i
  <2>1. rq2[i].kind = r.kind /\ rq2[i].item = r.item
    BY DEF Outcome
  <2> QED BY <1>1, <2>1 DEF Outcome, Kept, AccountKinds
<1>2. CASE j # i
  <2>1. i \notin rq2[j].before /\ rq2[i].pc # "none"
    BY <1>2 DEF Moves
  <2>2. CASE t = s
    BY <1>2, <2>2
  <2>3. CASE r.kind \in AccountKinds /\ t.games = s.games
             /\ \A y : Has(t.users, y) <=> Has(s.users, y) \/ y = r.item
    BY <1>2, <2>3 DEF Kept
  <2>4. CASE r.kind \in {"claim", "create"} /\ t.users = s.users
             /\ \A y : Has(t.games, y) <=> Has(s.games, y) \/ y = r.item
    <3>1. rq2[j].item = r.item => Undone(rq2, j, {"claim", "create"})
      BY <2>1, <2>4 DEF Undone, Outcome
    <3> QED BY <1>2, <2>4, <3>1 DEF Kept
  <2>5. CASE r.kind = "delete" /\ t.users = s.users
             /\ \A y : Has(t.games, y) <=> Has(s.games, y) /\ y # r.item
    <3>1. rq2[j].item = r.item => Undone(rq2, j, {"delete"})
      BY <2>1, <2>5 DEF Undone, Outcome
    <3> QED BY <1>2, <2>5, <3>1 DEF Kept
  <2> QED BY <2>2, <2>3, <2>4, <2>5 DEF Outcome
<1> QED BY <1>1, <1>2

\* The change request i makes leaves the store without duplicates: nobody else
\* has the identifier createGame makes.
LEMMA OutcomeClean ==
    ASSUME NEW rq, NEW rq2, NEW sc \in Scripts, NEW i \in Ids, NEW r, NEW s, NEW t,
           Moves(rq, rq2, i), Outcome(r, s, rq2[i], t), ~rq2[i].loading,
           RequestOK(rq2[i], sc, i), Clean(rq, sc, s)
    PROVE  Clean(rq2, sc, t)
<1>1. Unique(t.users) /\ Unique(t.games)
  BY DEF Outcome
<1>2. ASSUME NEW j \in Ids \cap DOMAIN sc,
             sc[j].kind = "create", rq2[j].pc = "none" \/ rq2[j].loading
      PROVE  ~Has(t.games, sc[j].item)
  <2>1. j # i
    BY <1>2 DEF Moves
  <2>2. ~Has(s.games, sc[j].item)
    BY <1>2, <2>1 DEF Moves, Clean
  <2>3. i \in DOMAIN sc /\ rq2[i].kind = sc[i].kind /\ rq2[i].item = sc[i].item
    BY DEF Moves, RequestOK
  <2>4. r.kind = sc[i].kind /\ r.item = sc[i].item
    BY <2>3 DEF Outcome
  <2>5. r.kind \in {"claim", "create"} => r.item # sc[j].item
    BY <1>2, <2>1, <2>3, <2>4, ScriptsAssumption
  <2>6. Has(t.games, sc[j].item) =>
            Has(s.games, sc[j].item) \/ (r.kind \in {"claim", "create"} /\ r.item = sc[j].item)
    BY DEF Outcome
  <2> QED BY <2>2, <2>5, <2>6
<1> QED BY <1>1, <1>2 DEF Clean

\* Request i, r, goes on with a store s, by Handle.
LEMMA ProceedOutcome ==
    ASSUME NEW rq, NEW sc \in Scripts, NEW i \in Ids, NEW r \in Requests, NEW s \in Stores,
           s.state = "whole", i \in DOMAIN sc, r.kind = sc[i].kind, r.item = sc[i].item,
           r.checks => r.kind \in {"bootstrap", "claim"}, Clean(rq, sc, s),
           r.kind = "create" => rq[i].pc = "none" \/ rq[i].loading
    PROVE  LET r0 == [r EXCEPT !.loading = FALSE]
           IN  /\ Outcome(r0, s, Handle(r0, s).request, Handle(r0, s).store)
               /\ r0.kind = r.kind /\ r0.item = r.item /\ r0.before = r.before
               /\ r0.checks = r.checks /\ ~r0.loading
<1> DEFINE r0 == [r EXCEPT !.loading = FALSE]
<1>1. /\ r0 \in Requests /\ r0.kind = r.kind /\ r0.item = r.item /\ r0.before = r.before
      /\ r0.checks = r.checks /\ ~r0.loading
  BY DEF Requests
<1>2. r.kind \in Kinds /\ r.item \in Items
  BY ScriptType
<1>3. Unique(s.users) /\ Unique(s.games)
  BY DEF Clean
<1>4. r.kind = "create" => ~Has(s.games, r.item)
  BY DEF Clean
<1> HIDE DEF r0
<1>5. Outcome(r0, s, Handle(r0, s).request, Handle(r0, s).store)
  BY <1>1, <1>2, <1>3, <1>4, HandleOutcome
<1> QED BY <1>1, <1>5 DEF r0

\* Where a request stands after it has gone on.
LEMMA OutcomeRequest ==
    ASSUME NEW r, NEW s, NEW q, NEW t, NEW sc, NEW i, Outcome(r, s, q, t), ~r.loading,
           i \in DOMAIN sc, r.kind = sc[i].kind, r.item = sc[i].item
    PROVE  RequestOK(q, sc, i) /\ ~q.loading /\ q.pc \in {"refused", "hash", "metadata", "save"}
BY DEF Outcome, RequestOK, AccountKinds

\* The requests whose saves are queued stay so when another one moves on.
LEMMA QueuedStay ==
    ASSUME IInv, NEW i \in Ids, Moves(requests, requests', i), requests[i].pc # "queued"
    PROVE  \A k \in DOMAIN writeQueue : /\ writeQueue[k] \in Ids \ {i}
                                        /\ requests'[writeQueue[k]].pc = "queued"
<1>1. \A k \in DOMAIN writeQueue : writeQueue[k] \in Ids
  BY DEF IInv, Types
<1>2. \A k \in DOMAIN writeQueue : requests[writeQueue[k]].pc = "queued"
  BY DEF IInv, QueueInv, TypeOK
<1> QED BY <1>1, <1>2 DEF Moves

\* A request that is not queued moves on, and the store and the disk do not.
LEMMA QuietMove ==
    ASSUME IInv, NEW i \in Ids, Moves(requests, requests', i),
           RequestOK(requests'[i], script, i),
           UNCHANGED <<script, storeData, diskVars>>,
           requests[i].pc # "queued", requests'[i].pc \notin {"save", "queued", "done"},
           requests'[i].pc = "seed" /\ storeData = null => file.state # "whole",
           marred' = {} =>
               /\ marred = {} /\ requests[i].pc # "save"
               /\ \A j \in requests'[i].before :
                     requests'[i].kind = "bootstrap" /\ requests[j].kind \in AccountKinds =>
                         requests'[i].pc = "refused" \/ (requests'[i].checks /\ requests'[i].loading)
    PROVE  IInv'
<1>1. /\ script' = script /\ storeData' = storeData /\ file' = file
      /\ writeQueue' = writeQueue /\ written' = written /\ opened' = opened
  BY DEF diskVars
<1>2. Types'
  BY <1>1 DEF IInv, Types, Moves
<1>3. RequestInv'
  <2>1. RequestsOK(requests', script)
    BY MovesRequests DEF IInv, RequestInv
  <2> QED BY <1>1, <2>1 DEF RequestInv
<1>4. QueueInv'
  <2>1. TypeOK'
    <3>1. \A k \in DOMAIN writeQueue : requests'[writeQueue[k]].pc = "queued"
      BY QueuedStay
    <3> QED BY <1>1, <3>1 DEF IInv, QueueInv, TypeOK
  <2>2. \A j \in Ids : requests'[j].pc \in {"save", "queued"} => storeData # null
    BY DEF IInv, QueueInv, Moves
  <2>3. \A j \in Ids : requests'[j].pc = "seed" /\ storeData = null => file.state # "whole"
    BY DEF IInv, QueueInv, Moves
  <2> QED BY <1>1, <2>1, <2>2, <2>3 DEF IInv, QueueInv
<1>5. CleanInv'
  <2>1. /\ Clean(requests, script, storeData) /\ Clean(requests, script, file)
        /\ Clean(requests, script, written)
    BY DEF IInv, CleanInv
  <2>2. /\ Clean(requests', script, storeData) /\ Clean(requests', script, file)
        /\ Clean(requests', script, written)
    BY <2>1, MovesClean
  <2> QED BY <1>1, <2>2 DEF CleanInv
<1>6. ASSUME marred' = {} PROVE AnswerInv'
  <2>1. AnswerInv /\ requests[i].pc # "save"
    BY <1>6 DEF IInv
  <2>2. \A j \in Ids : requests'[j].pc \in {"save", "queued", "done"} =>
            j # i /\ requests'[j] = requests[j] /\ requests[j].pc # "none"
    BY DEF Moves
  <2>3. Saving' <=> Saving
    BY <2>1, <2>2 DEF Saving, Moves
  <2>4. MemoryKeeps'
    <3>1. ASSUME storeData # null, NEW j \in Ids, Applied(requests', j)
          PROVE  Kept(requests', j, storeData)
      <4>1. Applied(requests, j) /\ requests[j].pc # "none"
        BY <2>2, <3>1 DEF Applied
      <4> QED BY <2>1, <3>1, <4>1, MovesKept DEF AnswerInv, MemoryKeeps
    <3> QED BY <1>1, <3>1 DEF MemoryKeeps
  <2>5. FileKeeps'
    <3>1. ASSUME file.state = "whole", NEW j \in Ids, requests'[j].pc = "done"
          PROVE  Kept(requests', j, file)
      BY <2>1, <2>2, <3>1, MovesKept DEF AnswerInv, FileKeeps
    <3> QED BY <1>1, <3>1 DEF FileKeeps
  <2>6. SaveKeeps'
    <3>1. ASSUME writeQueue # <<>>, NEW j \in Ids,
                 requests'[j].pc = "done" \/ (j = Head(writeQueue) /\ Applied(requests', j))
          PROVE  Kept(requests', j, written)
      <4>1. /\ requests[j].pc # "none"
            /\ requests[j].pc = "done" \/ (j = Head(writeQueue) /\ Applied(requests, j))
        BY <2>2, <3>1 DEF Applied
      <4> QED BY <2>1, <3>1, <4>1, MovesKept DEF AnswerInv, SaveKeeps
    <3> QED BY <1>1, <3>1 DEF SaveKeeps
  <2>7. FileBefore'
    BY <1>1, <2>1, <2>2 DEF AnswerInv, FileBefore
  <2>8. FileIsStore' /\ LastSaveIsStore'
    BY <1>1, <2>1, <2>3 DEF AnswerInv, FileIsStore, LastSaveIsStore
  <2>9. LateBootstrap'
    <3>1. RequestsOK(requests, script) /\ RequestsOK(requests', script)
      BY <1>1, <1>3 DEF IInv, RequestInv
    <3>2. LateBootstraps(requests)
      BY <2>1 DEF AnswerInv, LateBootstrap
    <3>3. LateBootstraps(requests')
      BY <1>6, <3>1, <3>2, MovesLate
    <3> QED BY <3>3 DEF LateBootstrap
  <2> QED BY <2>4, <2>5, <2>6, <2>7, <2>8, <2>9 DEF AnswerInv
<1> QED BY <1>2, <1>3, <1>4, <1>5, <1>6 DEF IInv

\* A bootstrap that asks hasUsers when an account is kept is refused.
LEMMA LateRefused ==
    ASSUME NEW rq, NEW j, NEW r, NEW s \in Stores, NEW q, NEW t,
           Kept(rq, j, s), rq[j].kind \in AccountKinds,
           Outcome(r, s, q, t), r.kind = "bootstrap", r.checks
    PROVE  q.pc = "refused"
<1>1. Has(s.users, rq[j].item)
  BY DEF Kept
<1>2. s.users # <<>>
  BY <1>1 DEF Has
<1> QED BY <1>2 DEF Outcome

\* A request that is not queued changes the store in memory.
LEMMA PushMove ==
    ASSUME IInv, NEW i \in Ids, NEW r, Moves(requests, requests', i),
           Outcome(r, storeData, requests'[i], storeData'),
           requests'[i].pc = "save", ~requests'[i].loading,
           RequestOK(requests'[i], script, i), storeData # null,
           UNCHANGED <<script, diskVars, marred>>, requests[i].pc # "queued",
           marred = {} => \A j \in requests'[i].before :
               ~(requests'[i].kind = "bootstrap" /\ requests[j].kind \in AccountKinds)
    PROVE  IInv'
<1>1. /\ script' = script /\ marred' = marred /\ file' = file
      /\ writeQueue' = writeQueue /\ written' = written /\ opened' = opened
  BY DEF diskVars
<1>2. storeData' \in Stores /\ storeData'.state = "whole" /\ storeData' # null
  <2>1. storeData' \in Stores /\ storeData'.state = "whole"
    BY DEF Outcome
  <2>2. null.state = "null"
    BY DEF null
  <2> QED BY <2>1, <2>2
<1>3. Types'
  BY <1>1, <1>2 DEF IInv, Types, Moves
<1>4. RequestInv'
  <2>1. RequestsOK(requests', script)
    BY MovesRequests DEF IInv, RequestInv
  <2> QED BY <1>1, <2>1 DEF RequestInv
<1>5. QueueInv'
  <2>1. \A k \in DOMAIN writeQueue : requests'[writeQueue[k]].pc = "queued"
    BY QueuedStay
  <2>2. TypeOK'
    BY <1>1, <1>2, <2>1 DEF IInv, QueueInv, TypeOK
  <2> QED BY <1>1, <1>2, <2>2 DEF IInv, QueueInv
<1>6. CleanInv'
  <2>1. /\ Clean(requests, script, storeData) /\ Clean(requests, script, file)
        /\ Clean(requests, script, written)
    BY DEF IInv, CleanInv
  <2>2. Clean(requests', script, file) /\ Clean(requests', script, written)
    BY <2>1, MovesClean
  <2>3. Clean(requests', script, storeData')
    BY <2>1, OutcomeClean DEF IInv, Types
  <2> QED BY <1>1, <2>2, <2>3 DEF CleanInv
<1>7. ASSUME marred = {} PROVE AnswerInv'
  <2>1. AnswerInv
    BY <1>7 DEF IInv
  <2>2. \A j \in Ids : j # i => requests'[j] = requests[j]
    BY DEF Moves
  <2>3. \A j \in Ids : requests'[j].pc \in {"queued", "done"} =>
            j # i /\ requests'[j] = requests[j] /\ requests[j].pc # "none"
    BY <2>2
  <2>4. Saving'
    BY DEF Saving
  <2>5. MemoryKeeps'
    <3>1. ASSUME NEW j \in Ids, Applied(requests', j) PROVE Kept(requests', j, storeData')
      <4>1. ASSUME j # i
            PROVE  Kept(requests', j, storeData) /\ \A k \in requests[j].before : requests[k].pc = "done"
        <5>1. Applied(requests, j) /\ requests[j].pc # "none"
          BY <2>2, <3>1, <4>1 DEF Applied
        <5>2. Kept(requests, j, storeData)
          BY <2>1, <5>1 DEF AnswerInv, MemoryKeeps
        <5> QED BY <5>1, <5>2, MovesKept DEF IInv, RequestInv, RequestsOK
      <4> QED BY <4>1, OutcomeKept
    <3> QED BY <3>1 DEF MemoryKeeps
  <2>6. FileKeeps'
    <3>1. ASSUME file.state = "whole", NEW j \in Ids, requests'[j].pc = "done"
          PROVE  Kept(requests', j, file)
      BY <2>1, <2>3, <3>1, MovesKept DEF AnswerInv, FileKeeps
    <3> QED BY <1>1, <3>1 DEF FileKeeps
  <2>7. SaveKeeps'
    <3>1. ASSUME writeQueue # <<>>, NEW j \in Ids,
                 requests'[j].pc = "done" \/ (j = Head(writeQueue) /\ Applied(requests', j))
          PROVE  Kept(requests', j, written)
      <4>1. Head(writeQueue) # i
        <5>1. writeQueue \in Seq(Ids)
          BY DEF IInv, Types
        <5>2. Head(writeQueue) = writeQueue[1] /\ 1 \in DOMAIN writeQueue
          BY <3>1, <5>1
        <5> QED BY <5>2, QueuedStay
      <4>2. /\ requests[j].pc # "none"
            /\ requests[j].pc = "done" \/ (j = Head(writeQueue) /\ Applied(requests, j))
        BY <2>2, <2>3, <3>1, <4>1 DEF Applied
      <4> QED BY <2>1, <3>1, <4>2, MovesKept DEF AnswerInv, SaveKeeps
    <3> QED BY <1>1, <3>1 DEF SaveKeeps
  <2>8. FileBefore'
    BY <1>1, <2>1, <2>3 DEF AnswerInv, FileBefore
  <2>9. FileIsStore' /\ LastSaveIsStore'
    BY <2>4 DEF FileIsStore, LastSaveIsStore
  <2>10. LateBootstrap'
    <3>1. RequestsOK(requests, script) /\ RequestsOK(requests', script)
      BY <1>1, <1>4 DEF IInv, RequestInv
    <3>2. LateBootstraps(requests)
      BY <2>1 DEF AnswerInv, LateBootstrap
    <3>3. LateBootstraps(requests')
      BY <1>7, <3>1, <3>2, MovesLate
    <3> QED BY <3>3 DEF LateBootstrap
  <2> QED BY <2>5, <2>6, <2>7, <2>8, <2>9, <2>10 DEF AnswerInv
<1> QED BY <1>1, <1>3, <1>4, <1>5, <1>6, <1>7 DEF IInv

\* ensureLoaded, called by a request that comes in or resumes: it waits for the
\* load, or goes on with the store.
LEMMA EnsureLoadedKeeps ==
    ASSUME IInv, NEW i \in Ids, NEW r \in Requests, ensureLoaded(i, r),
           UNCHANGED <<script, diskVars, marred>>,
           i \in DOMAIN script, r.kind = script[i].kind, r.item = script[i].item,
           r.checks => r.kind \in {"bootstrap", "claim"},
           requests[i].pc \in {"none", "hash", "metadata"},
           requests[i].pc # "none" => /\ requests[i].kind = r.kind /\ requests[i].item = r.item
                                      /\ requests[i].before = r.before,
           \A k \in r.before : requests[k].pc = "done",
           r.kind = "create" => requests[i].pc = "none",
           marred = {} => \A j \in r.before :
               r.kind = "bootstrap" /\ requests[j].kind \in AccountKinds => r.checks
    PROVE  IInv'
<1>1. DOMAIN requests = Ids /\ script \in Scripts /\ storeData \in Stores
  BY DEF IInv, Types
<1>2. CASE storeData = null
  <2> DEFINE q == [r EXCEPT !.pc = "exists", !.loading = TRUE]
  <2>1. /\ q \in Requests /\ q.pc = "exists" /\ q.loading /\ q.checks = r.checks
        /\ q.kind = r.kind /\ q.item = r.item /\ q.before = r.before
    BY DEF Requests, Pcs
  <2>2. requests' = [requests EXCEPT ![i] = q] /\ storeData' = storeData
    BY <1>2 DEF ensureLoaded
  <2> HIDE DEF q
  <2>3. DOMAIN requests' = Ids /\ requests'[i] = q /\ \A j \in Ids \ {i} : requests'[j] = requests[j]
    BY <1>1, <2>2
  <2>4. Moves(requests, requests', i)
    BY <2>1, <2>3 DEF Moves
  <2>5. RequestOK(requests'[i], script, i)
    BY <2>1, <2>3 DEF RequestOK
  <2> QED BY <2>1, <2>2, <2>3, <2>4, <2>5, QuietMove
<1>3. CASE storeData # null
  <2> DEFINE r0 == [r EXCEPT !.loading = FALSE]
             q == Handle(r0, storeData).request
             t == Handle(r0, storeData).store
  <2>1. requests' = [requests EXCEPT ![i] = q] /\ storeData' = t
    BY <1>3 DEF ensureLoaded, Proceed
  <2>2. storeData.state = "whole" /\ Clean(requests, script, storeData)
    BY <1>3 DEF IInv, QueueInv, TypeOK, CleanInv
  <2>3. /\ Outcome(r0, storeData, q, t)
        /\ r0.kind = r.kind /\ r0.item = r.item /\ r0.before = r.before
        /\ r0.checks = r.checks /\ ~r0.loading
    BY <1>1, <2>2, ProceedOutcome
  <2> HIDE DEF r0, q, t
  <2>4. /\ RequestOK(q, script, i) /\ ~q.loading
        /\ q.pc \in {"refused", "hash", "metadata", "save"}
    BY <2>3, OutcomeRequest
  <2>5. DOMAIN requests' = Ids /\ requests'[i] = q /\ \A j \in Ids \ {i} : requests'[j] = requests[j]
    BY <1>1, <2>1
  <2>6. q.kind = r.kind /\ q.item = r.item /\ q.before = r.before
    BY <2>3 DEF Outcome
  <2>7. Moves(requests, requests', i)
    BY <2>4, <2>5, <2>6 DEF Moves
  <2>8. ASSUME marred = {}, NEW j \in r.before,
               r.kind = "bootstrap", requests[j].kind \in AccountKinds
        PROVE  q.pc = "refused"
    <3>1. j \in Ids /\ Applied(requests, j)
      BY <2>8 DEF Requests, Applied, IInv, RequestInv, RequestsOK, RequestOK
    <3>2. Kept(requests, j, storeData)
      BY <1>3, <2>8, <3>1 DEF IInv, AnswerInv, MemoryKeeps
    <3>3. r0.checks /\ r0.kind = "bootstrap"
      BY <2>3, <2>8
    <3> QED BY <1>1, <2>3, <2>8, <3>2, <3>3, LateRefused
  <2>9. CASE q.pc = "save"
    <3>1. marred = {} => \A j \in q.before :
              ~(q.kind = "bootstrap" /\ requests[j].kind \in AccountKinds)
      BY <2>6, <2>8, <2>9
    <3> QED BY <1>3, <2>1, <2>3, <2>4, <2>5, <2>7, <2>9, <3>1, PushMove
  <2>10. CASE q.pc # "save"
    <3>1. t = storeData /\ q.pc \notin {"save", "queued", "done", "seed"}
      BY <2>3, <2>4, <2>10 DEF Outcome
    <3>2. marred = {} => \A j \in q.before :
              q.kind = "bootstrap" /\ requests[j].kind \in AccountKinds => q.pc = "refused"
      BY <2>6, <2>8
    <3> QED BY <2>1, <2>4, <2>5, <2>7, <3>1, <3>2, QuietMove
  <2> QED BY <2>9, <2>10
<1> QED BY <1>2, <1>3

\* The load that request i ends replaces no store in use, and what was answered
\* is in what it read.
LoadKeeps(i) ==
    marred' = {} =>
        /\ marred = {} /\ storeData = null
        /\ \A j \in Ids : requests[j].pc = "done" => Kept(requests', j, storeData')
        /\ Applied(requests', i) => Kept(requests', i, storeData')
        /\ requests'[i].pc # "save" => storeData' = file
        /\ \A j \in requests'[i].before :
              requests'[i].kind = "bootstrap" /\ requests[j].kind \in AccountKinds =>
                  requests'[i].pc = "refused" \/ (requests'[i].checks /\ requests'[i].loading)

\* A request reads the store from the disk.  Unless that store replaces one in
\* use, nothing is being saved, and what was answered is in it.
LEMMA LoadMove ==
    ASSUME IInv, NEW i \in Ids, Moves(requests, requests', i),
           RequestOK(requests'[i], script, i), UNCHANGED <<script, diskVars>>,
           storeData' \in Stores, storeData'.state = "whole",
           Clean(requests', script, storeData'),
           requests[i].pc # "queued", requests'[i].pc \notin {"queued", "done", "seed"}, LoadKeeps(i)
    PROVE  IInv'
<1>1. /\ script' = script /\ file' = file
      /\ writeQueue' = writeQueue /\ written' = written /\ opened' = opened
  BY DEF diskVars
<1>2. storeData' # null
  BY DEF null
<1>3. Types'
  BY <1>1 DEF IInv, Types, Moves
<1>4. RequestInv'
  <2>1. RequestsOK(requests', script)
    BY MovesRequests DEF IInv, RequestInv
  <2> QED BY <1>1, <2>1 DEF RequestInv
<1>5. QueueInv'
  <2>1. \A k \in DOMAIN writeQueue : requests'[writeQueue[k]].pc = "queued"
    BY QueuedStay
  <2>2. TypeOK'
    BY <1>1, <1>2, <2>1 DEF IInv, QueueInv, TypeOK
  <2> QED BY <1>1, <1>2, <2>2 DEF IInv, QueueInv
<1>6. CleanInv'
  <2>1. Clean(requests, script, file) /\ Clean(requests, script, written)
    BY DEF IInv, CleanInv
  <2>2. Clean(requests', script, file) /\ Clean(requests', script, written)
    BY <2>1, MovesClean
  <2> QED BY <1>1, <2>2 DEF CleanInv
<1>7. ASSUME marred' = {} PROVE AnswerInv'
  <2>1. AnswerInv /\ storeData = null /\ writeQueue = <<>>
    BY <1>7 DEF IInv, QueueInv, TypeOK, LoadKeeps
  <2>2. \A j \in Ids : j # i => requests'[j] = requests[j]
    BY DEF Moves
  <2>3. \A j \in Ids : requests[j].pc \notin {"save", "queued"}
    BY <2>1 DEF IInv, QueueInv
  <2>4. \A j \in Ids : requests'[j].pc = "done" => requests[j].pc = "done"
    BY <2>2
  <2>5. MemoryKeeps'
    <3>1. ASSUME NEW j \in Ids, Applied(requests', j) PROVE Kept(requests', j, storeData')
      <4>1. j = i \/ requests[j].pc = "done"
        BY <2>2, <2>3, <3>1 DEF Applied
      <4> QED BY <1>7, <3>1, <4>1 DEF LoadKeeps
    <3> QED BY <3>1 DEF MemoryKeeps
  <2>6. FileKeeps'
    <3>1. ASSUME file.state = "whole", NEW j \in Ids, requests'[j].pc = "done"
          PROVE  Kept(requests', j, file)
      BY <2>1, <2>4, <3>1, MovesKept DEF AnswerInv, FileKeeps
    <3> QED BY <1>1, <3>1 DEF FileKeeps
  <2>7. SaveKeeps'
    BY <1>1, <2>1 DEF SaveKeeps
  <2>8. FileBefore'
    BY <1>1, <2>1, <2>4 DEF AnswerInv, FileBefore
  <2>9. FileIsStore'
    BY <1>1, <1>7 DEF FileIsStore, Saving, LoadKeeps
  <2>10. LastSaveIsStore'
    <3>1. writeQueue' = <<>>
      BY <1>1, <2>1
    <3>2. Len(writeQueue') = 0
      BY <3>1
    <3> QED BY <3>2 DEF LastSaveIsStore
  <2>11. LateBootstrap'
    <3>1. RequestsOK(requests, script) /\ RequestsOK(requests', script)
      BY <1>1, <1>4 DEF IInv, RequestInv
    <3>2. LateBootstraps(requests)
      BY <2>1 DEF AnswerInv, LateBootstrap
    <3>3. LateBootstraps(requests')
      BY <1>7, <3>1, <3>2, MovesLate DEF LoadKeeps
    <3> QED BY <3>3 DEF LateBootstrap
  <2> QED BY <2>5, <2>6, <2>7, <2>8, <2>9, <2>10, <2>11 DEF AnswerInv
<1> QED BY <1>3, <1>4, <1>5, <1>6, <1>7 DEF IInv

\* A request that waits for something else, with only its pc changed.
LEMMA WaitMoves ==
    ASSUME IInv, NEW i \in Ids, NEW pc, Wait(i, pc), requests[i].pc \notin {"none", "done"},
           pc \in {"seed", "read", "save", "queued", "error", "done"},
           pc \in {"seed", "read"} => requests[i].loading,
           pc = "done" => ~requests[i].loading
    PROVE  /\ Moves(requests, requests', i) /\ RequestOK(requests'[i], script, i)
           /\ requests'[i].pc = pc /\ requests'[i].loading = requests[i].loading
           /\ requests'[i].kind = requests[i].kind /\ requests'[i].checks = requests[i].checks
           /\ requests'[i].before = requests[i].before
<1>1. DOMAIN requests = Ids /\ RequestOK(requests[i], script, i)
  BY DEF IInv, Types, RequestInv, RequestsOK
<1> DEFINE q == [requests[i] EXCEPT !.pc = pc]
<1>2. /\ q \in Requests /\ q.pc = pc /\ q.loading = requests[i].loading
      /\ q.kind = requests[i].kind /\ q.item = requests[i].item
      /\ q.checks = requests[i].checks /\ q.before = requests[i].before
  BY <1>1 DEF RequestOK, Requests, Pcs, Answers
<1>3. requests' = [requests EXCEPT ![i] = q]
  BY DEF Wait
<1> HIDE DEF q
<1>4. DOMAIN requests' = Ids /\ requests'[i] = q /\ \A j \in Ids \ {i} : requests'[j] = requests[j]
  BY <1>1, <1>3
<1>5. \A k \in q.before : requests[k].pc = "done"
  BY <1>2 DEF IInv, RequestInv, RequestsOK
<1>6. Moves(requests, requests', i)
  BY <1>2, <1>4, <1>5 DEF Moves
<1>7. RequestOK(q, script, i)
  BY <1>1, <1>2 DEF RequestOK
<1> QED BY <1>2, <1>4, <1>6, <1>7

\* A late bootstrap that loads the store has yet to ask.
LEMMA LateWaits ==
    ASSUME IInv, NEW i \in Ids, marred = {}, requests[i].pc # "refused",
           NEW j \in requests[i].before,
           requests[i].kind = "bootstrap", requests[j].kind \in AccountKinds
    PROVE  requests[i].checks /\ requests[i].loading
BY DEF IInv, AnswerInv, LateBootstrap, LateBootstraps
=============================================================================
