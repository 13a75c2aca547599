----------------------------- MODULE StoreProofs -----------------------------
(***************************************************************************)
(* Proofs about Store, for any requests, files and seed games: no two      *)
(* accounts or games are ever the same (NoDuplicates), and what was        *)
(* answered is kept (AnsweredStays).                                       *)
(***************************************************************************)
EXTENDS StoreMoves

-----------------------------------------------------------------------------
(* The steps *)

\* A request that comes in (the routes of authController and gamesController).
LEMMA ArriveKeeps ==
    ASSUME IInv, NEW i \in Ids, Arrive(i), UNCHANGED script
    PROVE  IInv'
<1> DEFINE kind == script[i].kind
           r == [kind |-> kind, item |-> script[i].item, pc |-> "hash",
                 checks |-> kind \in {"bootstrap", "claim"}, loading |-> FALSE,
                 before |-> Done]
<1>1. /\ requests[i].pc = "none" /\ UNCHANGED <<diskVars, marred>>
      /\ kind = "register" => requests' = [requests EXCEPT ![i] = r] /\ UNCHANGED storeData
      /\ kind # "register" => ensureLoaded(i, r)
  BY DEF Arrive
<1>2. i \in DOMAIN script /\ kind \in Kinds /\ script[i].item \in Items
  <2>1. script \in Scripts
    BY DEF IInv, Types
  <2>2. script \in Seq([kind : Kinds, item : Items])
    BY <2>1, ScriptsAssumption
  <2>3. i \in DOMAIN script
    BY <2>2, BoundsAssumption DEF Arrive, Ids
  <2> QED BY <2>1, <2>3, ScriptType
<1>3. /\ r \in Requests /\ r.kind = kind /\ r.item = script[i].item /\ r.pc = "hash"
      /\ r.checks = (kind \in {"bootstrap", "claim"}) /\ ~r.loading /\ r.before = Done
  <2>1. Done \in SUBSET Ids
    BY DEF Done
  <2>2. script[i].item \in Records /\ kind \in Kinds \union {"none"}
    BY <1>2 DEF Records
  <2> HIDE DEF kind
  <2>3. (kind \in {"bootstrap", "claim"}) \in BOOLEAN
    OBVIOUS
  <2> QED BY <2>1, <2>2, <2>3 DEF Requests, Pcs
<1> HIDE DEF r
<1>4. \A k \in r.before : requests[k].pc = "done"
  BY <1>3 DEF Done
<1>5. CASE kind = "register"
  <2>1. DOMAIN requests' = Ids /\ requests'[i] = r /\ \A j \in Ids \ {i} : requests'[j] = requests[j]
    BY <1>1, <1>5 DEF IInv, Types
  <2>2. Moves(requests, requests', i)
    BY <1>1, <1>3, <1>4, <2>1 DEF Moves
  <2>3. RequestOK(r, script, i)
    BY <1>2, <1>3, <1>5 DEF RequestOK, AccountKinds
  <2> QED BY <1>1, <1>3, <1>5, <2>1, <2>2, <2>3, QuietMove
<1>6. CASE kind # "register"
  BY <1>1, <1>2, <1>3, <1>4, <1>6, EnsureLoadedKeeps
<1> QED BY <1>5, <1>6

\* A request that resumes after the key derivation or the metadata.
LEMMA ResumeKeeps ==
    ASSUME IInv, NEW i \in Ids, Resume(i), UNCHANGED script
    PROVE  IInv'
<1> DEFINE r == requests[i]
<1>1. /\ r.pc \in {"hash", "metadata"} /\ ensureLoaded(i, r)
      /\ UNCHANGED <<diskVars, marred>>
  BY DEF Resume
<1>2. RequestOK(r, script, i) /\ \A k \in r.before : requests[k].pc = "done"
  BY DEF IInv, RequestInv, RequestsOK
<1>3. /\ r \in Requests /\ i \in DOMAIN script /\ r.kind = script[i].kind /\ r.item = script[i].item
      /\ r.kind # "create" /\ ~r.checks
  BY <1>1, <1>2 DEF RequestOK, AccountKinds
<1>4. marred = {} => \A j \in r.before :
          ~(r.kind = "bootstrap" /\ requests[j].kind \in AccountKinds)
  BY <1>1, <1>3, LateWaits
<1> QED BY <1>1, <1>2, <1>3, <1>4, EnsureLoadedKeeps

\* ensureLoaded learns whether there is a file.
LEMMA PathExistsKeeps ==
    ASSUME IInv, NEW i \in Ids, PathExists(i), UNCHANGED script
    PROVE  IInv'
<1> DEFINE pc == IF file.state = "absent" THEN "seed" ELSE "read"
<1>1. requests[i].pc = "exists" /\ Wait(i, pc) /\ UNCHANGED <<storeData, diskVars, marred>>
  BY DEF PathExists
<1>2. pc \in {"seed", "read"} /\ (pc = "seed" => file.state # "whole")
  OBVIOUS
<1> HIDE DEF pc
<1>3. requests[i].loading
  BY <1>1 DEF IInv, RequestInv, RequestsOK, RequestOK
<1>4. /\ Moves(requests, requests', i) /\ RequestOK(requests'[i], script, i)
      /\ requests'[i].pc = pc /\ requests'[i].loading = requests[i].loading
      /\ requests'[i].kind = requests[i].kind /\ requests'[i].checks = requests[i].checks
      /\ requests'[i].before = requests[i].before
  BY <1>1, <1>2, <1>3, WaitMoves
<1>5. marred = {} => \A j \in requests[i].before :
          requests[i].kind = "bootstrap" /\ requests[j].kind \in AccountKinds => requests[i].checks
  BY <1>1, LateWaits
<1> QED BY <1>1, <1>2, <1>3, <1>4, <1>5, QuietMove

\* Replaces tells whether the store read replaces one in use.
LEMMA ReplacesTells ==
    ASSUME Replaces, marred' = {}
    PROVE  marred = {} /\ storeData = null
BY DEF Replaces

\* A file that holds the same valid records keeps the same requests.
LEMMA ValidKeeps ==
    ASSUME NEW rq, NEW j, NEW s, NEW t, Kept(rq, j, s), rq[j].item # Invalid,
           \A x : Has(t.users, x) <=> Has(s.users, x) /\ x # Invalid,
           \A x : Has(t.games, x) <=> Has(s.games, x) /\ x # Invalid
    PROVE  Kept(rq, j, t)
BY DEF Kept

\* The items of the requests that have come in are valid.
LEMMA ItemsValid ==
    ASSUME IInv, NEW j \in Ids, requests[j].pc # "none"
    PROVE  requests[j].item # Invalid
<1>1. j \in DOMAIN script /\ requests[j].item = script[j].item
  BY DEF IInv, RequestInv, RequestsOK, RequestOK
<1>2. script \in Scripts
  BY DEF IInv, Types
<1> QED BY <1>1, <1>2, ScriptType, ItemsAssumption

\* ensureLoaded reads the file: it does not parse, has records to skip, or is
\* valid.
LEMMA ReadFileKeeps ==
    ASSUME IInv, NEW i \in Ids, ReadFile(i), UNCHANGED script
    PROVE  IInv'
<1> DEFINE v == Whole(Valid(file.users), Valid(file.games))
<1>1. /\ requests[i].pc = "read" /\ UNCHANGED <<diskVars, script>>
      /\ \/ file.state = "torn" /\ Wait(i, "seed") /\ UNCHANGED <<storeData, marred>>
         \/ file.state = "whole" /\ v # file /\ storeData' = v /\ Wait(i, "save") /\ Replaces
         \/ file = v /\ Proceed(i, requests[i], file) /\ Replaces
  BY DEF ReadFile
<1>2. /\ RequestOK(requests[i], script, i) /\ requests[i].loading
      /\ \A k \in requests[i].before : requests[k].pc = "done"
  BY <1>1 DEF IInv, RequestInv, RequestsOK, RequestOK
<1>3. file \in Stores /\ Clean(requests, script, file) /\ script \in Scripts /\ DOMAIN requests = Ids
  BY DEF IInv, Types, CleanInv
<1>4. marred = {} => \A j \in requests[i].before :
          requests[i].kind = "bootstrap" /\ requests[j].kind \in AccountKinds => requests[i].checks
  BY <1>1, LateWaits
<1>5. CASE file.state = "torn" /\ Wait(i, "seed") /\ UNCHANGED <<storeData, marred>>
  <2>1. /\ Moves(requests, requests', i) /\ RequestOK(requests'[i], script, i)
        /\ requests'[i].pc = "seed" /\ requests'[i].loading = requests[i].loading
        /\ requests'[i].kind = requests[i].kind /\ requests'[i].checks = requests[i].checks
        /\ requests'[i].before = requests[i].before
    BY <1>1, <1>2, <1>5, WaitMoves
  <2> QED BY <1>1, <1>2, <1>4, <1>5, <2>1, QuietMove
<1>6. CASE file.state = "whole" /\ v # file /\ storeData' = v /\ Wait(i, "save") /\ Replaces
  <2>1. /\ Moves(requests, requests', i) /\ RequestOK(requests'[i], script, i)
        /\ requests'[i].pc = "save" /\ requests'[i].loading = requests[i].loading
        /\ requests'[i].kind = requests[i].kind /\ requests'[i].checks = requests[i].checks
        /\ requests'[i].before = requests[i].before
    BY <1>1, <1>6, WaitMoves
  <2>2. /\ file.users \in Seq(Records) /\ file.games \in Seq(Records)
        /\ Unique(file.users) /\ Unique(file.games)
    BY <1>3 DEF Stores, Clean
  <2>3. /\ Valid(file.users) \in Seq(Records) /\ Unique(Valid(file.users))
        /\ \A x : Has(Valid(file.users), x) <=> Has(file.users, x) /\ x # Invalid
    BY <2>2, ValidRecords
  <2>4. /\ Valid(file.games) \in Seq(Records) /\ Unique(Valid(file.games))
        /\ \A x : Has(Valid(file.games), x) <=> Has(file.games, x) /\ x # Invalid
    BY <2>2, ValidRecords
  <2>5. /\ v.users = Valid(file.users) /\ v.games = Valid(file.games) /\ v.state = "whole"
        /\ v \in Stores
    BY <2>3, <2>4 DEF Whole, Stores
  <2> HIDE DEF v
  <2>6. Clean(requests', script, v)
    <3>1. Clean(requests', script, file)
      BY <1>3, <2>1, MovesClean
    <3> QED BY <2>3, <2>4, <2>5, <3>1 DEF Clean
  <2>7. ASSUME marred' = {}, NEW j \in Ids, requests[j].pc = "done"
        PROVE  Kept(requests', j, v)
    <3>1. Kept(requests, j, file)
      BY <1>6, <2>7, ReplacesTells DEF IInv, AnswerInv, FileKeeps
    <3>2. requests[j].item # Invalid
      BY <2>7, ItemsValid
    <3>3. Kept(requests, j, v)
      BY <2>3, <2>4, <2>5, <3>1, <3>2, ValidKeeps
    <3> QED BY <2>1, <2>7, <3>3, MovesKept
  <2>8. ~Applied(requests', i)
    BY <1>2, <2>1 DEF Applied
  <2>9. LoadKeeps(i)
    BY <1>1, <1>2, <1>4, <1>6, <2>1, <2>7, <2>8, ReplacesTells DEF LoadKeeps
  <2> QED BY <1>1, <1>2, <1>6, <2>1, <2>5, <2>6, <2>9, LoadMove
<1>7. CASE file = v /\ Proceed(i, requests[i], file) /\ Replaces
  <2>0. file.state = "whole"
    BY <1>7 DEF Whole
  <2> DEFINE r == requests[i]
             r0 == [r EXCEPT !.loading = FALSE]
             q == Handle(r0, file).request
             t == Handle(r0, file).store
  <2>1. requests' = [requests EXCEPT ![i] = q] /\ storeData' = t
    BY <1>7 DEF Proceed
  <2>2. /\ r \in Requests /\ i \in DOMAIN script /\ r.kind = script[i].kind
        /\ r.item = script[i].item /\ (r.checks => r.kind \in {"bootstrap", "claim"})
    BY <1>1, <1>2 DEF RequestOK
  <2>3. /\ Outcome(r0, file, q, t)
        /\ r0.kind = r.kind /\ r0.item = r.item /\ r0.before = r.before
        /\ r0.checks = r.checks /\ ~r0.loading
    BY <1>2, <1>3, <2>0, <2>2, ProceedOutcome
  <2> HIDE DEF r0, q, t
  <2>4. /\ RequestOK(q, script, i) /\ ~q.loading
        /\ q.pc \in {"refused", "hash", "metadata", "save"}
    BY <2>2, <2>3, OutcomeRequest
  <2>5. DOMAIN requests' = Ids /\ requests'[i] = q /\ \A j \in Ids \ {i} : requests'[j] = requests[j]
    BY <1>3, <2>1
  <2>6. q.kind = r.kind /\ q.item = r.item /\ q.before = r.before
    BY <2>3 DEF Outcome
  <2>7. Moves(requests, requests', i)
    BY <1>1, <1>2, <2>4, <2>5, <2>6 DEF Moves
  <2>8. t \in Stores /\ t.state = "whole"
    BY <2>3 DEF Outcome
  <2>9. Clean(requests', script, t)
    BY <1>3, <2>3, <2>4, <2>5, <2>7, OutcomeClean
  <2>10. ASSUME marred' = {}, NEW j \in Ids, requests[j].pc = "done"
         PROVE  Kept(requests, j, file) /\ Kept(requests', j, t)
    <3>1. Kept(requests, j, file)
      BY <1>7, <2>0, <2>10, ReplacesTells DEF IInv, AnswerInv, FileKeeps
    <3>2. Kept(requests', j, file) /\ j # i
      BY <1>1, <2>7, <2>10, <3>1, MovesKept
    <3>3. \A k \in requests[j].before : requests[k].pc = "done"
      BY DEF IInv, RequestInv, RequestsOK
    <3> QED BY <2>3, <2>5, <2>7, <3>1, <3>2, <3>3, OutcomeKept
  <2>11. Applied(requests', i) => Kept(requests', i, t)
    <3>1. Applied(requests', i) => q.pc = "save"
      BY <2>4, <2>5 DEF Applied
    <3> QED BY <2>3, <2>5, <2>7, <3>1, OutcomeKept
  <2>12. q.pc # "save" => t = file
    BY <2>3 DEF Outcome
  <2>13. ASSUME marred' = {}, NEW j \in q.before,
                q.kind = "bootstrap", requests[j].kind \in AccountKinds
         PROVE  q.pc = "refused"
    <3>1. j \in Ids /\ requests[j].pc = "done"
      BY <1>2, <2>2, <2>6, <2>13 DEF Requests
    <3>2. Kept(requests, j, file)
      BY <2>10, <2>13, <3>1
    <3>3. r0.checks /\ r0.kind = "bootstrap"
      BY <1>4, <1>7, <2>3, <2>6, <2>13, ReplacesTells
    <3> QED BY <1>3, <2>3, <2>13, <3>2, <3>3, LateRefused
  <2>14. LoadKeeps(i)
    <3>1. requests'[i] = q /\ storeData' = t
      BY <2>1, <2>5
    <3>2. marred' = {} => marred = {} /\ storeData = null
      BY <1>1, <1>7, ReplacesTells
    <3> QED BY <2>10, <2>11, <2>12, <2>13, <3>1, <3>2 DEF LoadKeeps
  <2> QED BY <1>1, <1>7, <2>1, <2>4, <2>5, <2>7, <2>8, <2>9, <2>14, LoadMove
<1> QED BY <1>1, <1>5, <1>6, <1>7

\* ensureLoaded makes a fresh store of the seed games: nothing was answered.
LEMMA ReadSeedKeeps ==
    ASSUME IInv, NEW i \in Ids, ReadSeed(i), UNCHANGED script
    PROVE  IInv'
<1> DEFINE v == Whole(<<>>, SeedGames)
<1>1. /\ requests[i].pc = "seed" /\ UNCHANGED <<diskVars, script>>
      /\ storeData' = v /\ Replaces /\ Wait(i, "save")
  BY DEF ReadSeed
<1>2. requests[i].loading
  BY <1>1 DEF IInv, RequestInv, RequestsOK, RequestOK
<1>3. /\ Moves(requests, requests', i) /\ RequestOK(requests'[i], script, i)
      /\ requests'[i].pc = "save" /\ requests'[i].loading = requests[i].loading
      /\ requests'[i].kind = requests[i].kind /\ requests'[i].checks = requests[i].checks
      /\ requests'[i].before = requests[i].before
  BY <1>1, WaitMoves
<1>4. /\ v \in Stores /\ v.state = "whole" /\ v.users = <<>> /\ v.games = SeedGames
  <2>1. SeedGames \in Seq(Records)
    BY SeedAssumption DEF Records
  <2> QED BY <2>1 DEF Whole, Stores
<1> HIDE DEF v
<1>5. Clean(requests', script, v)
  <2>1. Unique(<<>>)
    BY DEF Unique
  <2>2. \A j \in DOMAIN script : script[j].kind = "create" => ~Has(SeedGames, script[j].item)
    BY ScriptsAssumption DEF IInv, Types, Has
  <2> QED BY <1>4, <2>1, <2>2, SeedAssumption DEF Clean
<1>6. marred' = {} => \A j \in Ids : requests[j].pc # "done"
  BY <1>1, ReplacesTells DEF IInv, QueueInv, TypeOK, AnswerInv, FileBefore
<1>7. marred = {} => \A j \in requests[i].before :
          requests[i].kind = "bootstrap" /\ requests[j].kind \in AccountKinds => requests[i].checks
  BY <1>1, LateWaits
<1>8. ~Applied(requests', i)
  BY <1>2, <1>3 DEF Applied
<1>9. LoadKeeps(i)
  BY <1>1, <1>2, <1>3, <1>6, <1>7, <1>8, ReplacesTells DEF LoadKeeps
<1> QED BY <1>1, <1>2, <1>3, <1>4, <1>5, <1>9, LoadMove

\* persist puts a save in the queue; the first one starts with the store as it
\* is.
LEMMA PersistKeeps ==
    ASSUME IInv, NEW i \in Ids, persist(i), UNCHANGED script
    PROVE  IInv'
<1>1. /\ requests[i].pc = "save" /\ Wait(i, "queued") /\ writeQueue' = Append(writeQueue, i)
      /\ written' = IF writeQueue = <<>> THEN storeData ELSE written
      /\ storeData' = storeData /\ file' = file /\ opened' = opened /\ marred' = marred
      /\ script' = script
  BY DEF persist
<1>2. /\ Moves(requests, requests', i) /\ RequestOK(requests'[i], script, i)
      /\ requests'[i].pc = "queued" /\ requests'[i].loading = requests[i].loading
      /\ requests'[i].kind = requests[i].kind /\ requests'[i].checks = requests[i].checks
      /\ requests'[i].before = requests[i].before
  BY <1>1, WaitMoves
<1>3. storeData # null /\ storeData.state = "whole" /\ writeQueue \in Seq(Ids)
  BY <1>1 DEF IInv, QueueInv, TypeOK, Types
<1>4. /\ writeQueue' \in Seq(Ids) /\ writeQueue' # <<>> /\ Len(writeQueue') = Len(writeQueue) + 1
      /\ \A k \in 1 .. Len(writeQueue) : writeQueue'[k] = writeQueue[k]
      /\ writeQueue'[Len(writeQueue) + 1] = i /\ Len(writeQueue) \in Nat
  <2>1. writeQueue \in Seq(Ids) /\ writeQueue' = Append(writeQueue, i)
    BY <1>1, <1>3
  <2> QED BY <2>1
<1>5. Types'
  BY <1>1, <1>2, <1>4 DEF IInv, Types, Moves
<1>6. RequestInv'
  <2>1. RequestsOK(requests', script)
    BY <1>2, MovesRequests DEF IInv, RequestInv
  <2> QED BY <1>1, <2>1 DEF RequestInv
<1>7. QueueInv'
  <2>1. \A k \in 1 .. Len(writeQueue) :
            writeQueue[k] \in Ids /\ requests[writeQueue[k]].pc = "queued" /\ writeQueue[k] # i
    BY <1>1, <1>3 DEF IInv, QueueInv, TypeOK
  <2>2. \A k \in 1 .. Len(writeQueue) + 1 : requests'[writeQueue'[k]].pc = "queued"
    <3>1. ASSUME NEW k \in 1 .. Len(writeQueue) + 1 PROVE requests'[writeQueue'[k]].pc = "queued"
      <4>1. CASE k \in 1 .. Len(writeQueue)
        BY <1>2, <1>4, <2>1, <4>1 DEF Moves
      <4>2. CASE k = Len(writeQueue) + 1
        BY <1>2, <1>4, <4>2
      <4> QED BY <1>4, <4>1, <4>2
    <3> QED BY <3>1
  <2>3. DOMAIN writeQueue' = 1 .. Len(writeQueue) + 1
    BY <1>4
  <2>4. written'.state = "whole"
    BY <1>1, <1>3 DEF IInv, QueueInv, TypeOK
  <2>5. TypeOK'
    BY <1>1, <1>3, <1>4, <2>2, <2>3, <2>4 DEF IInv, QueueInv, TypeOK
  <2>6. \A j, k \in 1 .. Len(writeQueue) + 1 : writeQueue'[j] = writeQueue'[k] => j = k
    <3>1. \A j, k \in 1 .. Len(writeQueue) : writeQueue[j] = writeQueue[k] => j = k
      BY DEF IInv, QueueInv
    <3>2. ASSUME NEW j \in 1 .. Len(writeQueue) + 1, NEW k \in 1 .. Len(writeQueue) + 1,
                 writeQueue'[j] = writeQueue'[k]
          PROVE  j = k
      <4>1. CASE j \in 1 .. Len(writeQueue) /\ k \in 1 .. Len(writeQueue)
        BY <1>4, <3>1, <3>2, <4>1
      <4>2. CASE j = Len(writeQueue) + 1 \/ k = Len(writeQueue) + 1
        BY <1>4, <2>1, <3>2, <4>2
      <4> QED BY <1>4, <4>1, <4>2
    <3> QED BY <3>2
  <2> QED BY <1>1, <1>3, <1>4, <2>5, <2>6 DEF QueueInv
<1>8. CleanInv'
  <2>1. /\ Clean(requests, script, storeData) /\ Clean(requests, script, file)
        /\ Clean(requests, script, written)
    BY DEF IInv, CleanInv
  <2>2. /\ Clean(requests', script, storeData) /\ Clean(requests', script, file)
        /\ Clean(requests', script, written)
    BY <1>2, <2>1, MovesClean
  <2> QED BY <1>1, <2>2 DEF CleanInv
<1>9. ASSUME marred = {} PROVE AnswerInv'
  <2>1. AnswerInv
    BY <1>9 DEF IInv
  <2>2. \A j \in Ids : j # i => requests'[j] = requests[j]
    BY <1>2 DEF Moves
  <2>3. \A j \in Ids : Applied(requests', j) => Applied(requests, j) /\ requests[j].pc # "none"
    BY <1>1, <1>2, <2>2 DEF Applied
  <2>4. \A j \in Ids : requests'[j].pc = "done" => requests[j].pc = "done" /\ Applied(requests, j)
    BY <1>2, <2>2 DEF IInv, RequestInv, RequestsOK, RequestOK, Applied
  <2>5. ASSUME NEW j \in Ids, Applied(requests, j) PROVE Kept(requests', j, storeData)
    <3>1. Kept(requests, j, storeData) /\ requests[j].pc # "none"
      BY <1>3, <2>1, <2>5 DEF AnswerInv, MemoryKeeps, Applied
    <3> QED BY <1>2, <3>1, MovesKept
  <2>6. MemoryKeeps'
    BY <1>1, <2>3, <2>5 DEF MemoryKeeps
  <2>7. FileKeeps'
    <3>1. ASSUME file.state = "whole", NEW j \in Ids, requests'[j].pc = "done"
          PROVE  Kept(requests', j, file)
      BY <1>2, <2>1, <2>4, <3>1, MovesKept DEF AnswerInv, FileKeeps
    <3> QED BY <1>1, <3>1 DEF FileKeeps
  <2>8. SaveKeeps'
    <3>1. ASSUME NEW j \in Ids,
                 requests'[j].pc = "done" \/ (j = Head(writeQueue') /\ Applied(requests', j))
          PROVE  Kept(requests', j, written')
      <4>1. Applied(requests, j) /\ requests[j].pc # "none"
        BY <2>3, <2>4, <3>1 DEF Applied
      <4>2. CASE writeQueue = <<>>
        BY <1>1, <2>5, <4>1, <4>2
      <4>3. CASE writeQueue # <<>>
        <5>1. Head(writeQueue') = Head(writeQueue)
          BY <1>1, <1>3, <4>3
        <5>2. Kept(requests, j, written)
          BY <2>1, <2>4, <3>1, <4>1, <4>3, <5>1 DEF AnswerInv, SaveKeeps
        <5>3. Kept(requests', j, written)
          BY <1>2, <4>1, <5>2, MovesKept
        <5> QED BY <1>1, <4>3, <5>3
      <4> QED BY <4>2, <4>3
    <3> QED BY <3>1 DEF SaveKeeps
  <2>9. FileBefore'
    BY <1>1, <2>1, <2>4 DEF AnswerInv, FileBefore
  <2>10. FileIsStore'
    BY <1>4 DEF FileIsStore
  <2>11. LastSaveIsStore'
    <3>1. Len(writeQueue') = 1 => writeQueue = <<>>
      BY <1>3, <1>4
    <3> QED BY <1>1, <3>1 DEF LastSaveIsStore
  <2>12. LateBootstrap'
    <3>1. RequestsOK(requests, script) /\ RequestsOK(requests', script)
      BY <1>1, <1>6 DEF IInv, RequestInv
    <3>2. LateBootstraps(requests)
      BY <2>1 DEF AnswerInv, LateBootstrap
    <3>3. \A k \in requests'[i].before :
              requests'[i].kind = "bootstrap" /\ requests[k].kind \in AccountKinds =>
                  requests'[i].checks /\ requests'[i].loading
      BY <1>1, <1>2, <3>2 DEF LateBootstraps
    <3>4. LateBootstraps(requests')
      BY <1>2, <3>1, <3>2, <3>3, MovesLate
    <3> QED BY <3>4 DEF LateBootstrap
  <2> QED BY <2>6, <2>7, <2>8, <2>9, <2>10, <2>11, <2>12 DEF AnswerInv
<1> QED BY <1>1, <1>5, <1>6, <1>7, <1>8, <1>9 DEF IInv

\* writeFile opens the file, which empties it.
LEMMA OpenFileKeeps ==
    ASSUME IInv, OpenFile, UNCHANGED script
    PROVE  IInv'
<1>1. /\ writeQueue # <<>> /\ ~opened /\ opened' = TRUE /\ file' = Torn
      /\ storeData' = storeData /\ requests' = requests /\ writeQueue' = writeQueue
      /\ written' = written /\ marred' = marred /\ script' = script
  BY DEF OpenFile
<1>2. Torn \in Stores /\ Torn.state = "torn" /\ Torn.users = <<>> /\ Torn.games = <<>>
  BY DEF Torn, Stores
<1>3. Types'
  BY <1>1, <1>2 DEF IInv, Types
<1>4. RequestInv'
  BY <1>1 DEF IInv, RequestInv, RequestsOK
<1>5. QueueInv'
  <2>1. TypeOK'
    BY <1>1, <1>2 DEF IInv, QueueInv, TypeOK
  <2> QED BY <1>1, <1>2, <2>1 DEF IInv, QueueInv
<1>6. CleanInv'
  <2>1. Clean(requests, script, Torn)
    BY <1>2 DEF Clean, Unique, Has
  <2> QED BY <1>1, <2>1 DEF IInv, CleanInv
<1>7. ASSUME marred = {} PROVE AnswerInv'
  <2>1. AnswerInv
    BY <1>7 DEF IInv
  <2>2. MemoryKeeps' /\ SaveKeeps' /\ LateBootstrap'
    BY <1>1, <2>1 DEF AnswerInv, MemoryKeeps, SaveKeeps, LateBootstrap
  <2>3. FileKeeps' /\ FileBefore' /\ FileIsStore'
    BY <1>1, <1>2 DEF FileKeeps, FileBefore, FileIsStore
  <2>4. LastSaveIsStore'
    BY <1>1, <2>1 DEF AnswerInv, LastSaveIsStore, Saving
  <2> QED BY <2>2, <2>3, <2>4 DEF AnswerInv
<1> QED BY <1>1, <1>3, <1>4, <1>5, <1>6, <1>7 DEF IInv

\* mkdir or the read of the file rejects; when it was for a save, the store in
\* memory is marred.
LEMMA RequestFailsKeeps ==
    ASSUME IInv, NEW i \in Ids, RequestFails(i), UNCHANGED script
    PROVE  IInv'
<1>1. /\ requests[i].pc \in {"exists", "read", "save"} /\ Wait(i, "error")
      /\ UNCHANGED <<script, storeData, diskVars>>
      /\ marred' = {} => marred = {} /\ requests[i].pc # "save"
  BY DEF RequestFails
<1>2. /\ Moves(requests, requests', i) /\ RequestOK(requests'[i], script, i)
      /\ requests'[i].pc = "error" /\ requests'[i].loading = requests[i].loading
      /\ requests'[i].kind = requests[i].kind /\ requests'[i].checks = requests[i].checks
      /\ requests'[i].before = requests[i].before
  BY <1>1, WaitMoves
<1>3. marred = {} => \A j \in requests[i].before :
          requests[i].kind = "bootstrap" /\ requests[j].kind \in AccountKinds =>
              requests[i].checks /\ requests[i].loading
  BY <1>1, LateWaits
<1> QED BY <1>1, <1>2, <1>3, QuietMove

\* The queue without the save that is over.
LEMMA QueueTail ==
    ASSUME IInv, writeQueue # <<>>
    PROVE  /\ Head(writeQueue) \in Ids /\ requests[Head(writeQueue)].pc = "queued"
           /\ Tail(writeQueue) \in Seq(Ids) /\ Len(Tail(writeQueue)) = Len(writeQueue) - 1
           /\ Len(writeQueue) \in Nat
           /\ \A k \in 1 .. Len(Tail(writeQueue)) :
                 /\ Tail(writeQueue)[k] \in Ids \ {Head(writeQueue)}
                 /\ requests[Tail(writeQueue)[k]].pc = "queued"
           /\ \A j, k \in 1 .. Len(Tail(writeQueue)) :
                 Tail(writeQueue)[j] = Tail(writeQueue)[k] => j = k
<1>1. writeQueue \in Seq(Ids)
  BY DEF IInv, Types
<1> DEFINE w == Tail(writeQueue)
<1>2. /\ Head(writeQueue) \in Ids /\ w \in Seq(Ids) /\ Len(w) = Len(writeQueue) - 1
      /\ \A k \in 1 .. Len(w) : w[k] = writeQueue[k + 1]
  BY <1>1
<1>3. Len(writeQueue) \in Nat /\ Len(writeQueue) # 0 /\ DOMAIN writeQueue = 1 .. Len(writeQueue)
  BY <1>1
<1>4. Head(writeQueue) = writeQueue[1]
  BY <1>1
<1> HIDE DEF w
<1>5. \A k \in 1 .. Len(w) : k + 1 \in 1 .. Len(writeQueue) /\ k + 1 # 1
  BY <1>2, <1>3
<1>6. 1 \in 1 .. Len(writeQueue)
  BY <1>3
<1>7. /\ \A k \in 1 .. Len(writeQueue) : requests[writeQueue[k]].pc = "queued"
      /\ \A j, k \in 1 .. Len(writeQueue) : writeQueue[j] = writeQueue[k] => j = k
  BY <1>3 DEF IInv, QueueInv, TypeOK
<1>8. \A k \in 1 .. Len(w) :
          w[k] \in Ids \ {Head(writeQueue)} /\ requests[w[k]].pc = "queued"
  BY <1>1, <1>2, <1>4, <1>5, <1>6, <1>7
<1>9. \A j, k \in 1 .. Len(w) : w[j] = w[k] => j = k
  <2>1. \A j, k \in 1 .. Len(w) : w[j] = w[k] => j + 1 = k + 1
    BY <1>2, <1>5, <1>7
  <2>2. \A j, k \in 1 .. Len(w) : j + 1 = k + 1 => j = k
    BY <1>2, <1>3
  <2> QED BY <2>1, <2>2
<1>10. requests[Head(writeQueue)].pc = "queued"
  BY <1>4, <1>6, <1>7
<1> QED BY <1>2, <1>3, <1>8, <1>9, <1>10 DEF w

\* A save is over: its request is answered, or goes on with the store it has
\* loaded.
SaveEnds(i) ==
    \/ /\ ~requests[i].loading /\ requests'[i].pc = "done" /\ storeData' = storeData
       /\ requests'[i].kind = requests[i].kind /\ requests'[i].before = requests[i].before
    \/ /\ requests[i].loading
       /\ \E r : /\ Outcome(r, storeData, requests'[i], storeData')
                 /\ r.kind = requests[i].kind /\ r.before = requests[i].before
                 /\ r.checks = requests[i].checks
       /\ ~requests'[i].loading
       /\ requests'[i].pc \in {"refused", "hash", "metadata", "save"}

\* NextSave does that to the request at the head of the queue.
LEMMA NextSaveEnds ==
    ASSUME IInv, writeQueue # <<>>, NextSave
    PROVE  LET i == Head(writeQueue)
           IN  /\ Moves(requests, requests', i) /\ RequestOK(requests'[i], script, i)
               /\ SaveEnds(i)
               /\ storeData' \in Stores /\ storeData'.state = "whole"
               /\ Clean(requests', script, storeData')
<1> DEFINE i == Head(writeQueue)
<1>1. i \in Ids /\ requests[i].pc = "queued"
  BY QueueTail
<1>2. /\ requests[i].loading => Proceed(i, requests[i], storeData)
      /\ ~requests[i].loading => Wait(i, "done") /\ UNCHANGED storeData
  BY DEF NextSave
<1> HIDE DEF i
<1>3. /\ storeData # null /\ storeData.state = "whole" /\ storeData \in Stores
      /\ Clean(requests, script, storeData) /\ script \in Scripts /\ DOMAIN requests = Ids
  BY <1>1 DEF IInv, QueueInv, TypeOK, Types, CleanInv
<1>4. CASE ~requests[i].loading
  <2>1. Wait(i, "done") /\ storeData' = storeData
    BY <1>2, <1>4
  <2>2. /\ Moves(requests, requests', i) /\ RequestOK(requests'[i], script, i)
        /\ requests'[i].pc = "done" /\ requests'[i].kind = requests[i].kind
        /\ requests'[i].before = requests[i].before
    BY <1>1, <1>4, <2>1, WaitMoves
  <2>3. Clean(requests', script, storeData)
    BY <1>1, <1>3, <2>2, MovesClean
  <2> QED BY <1>3, <1>4, <2>1, <2>2, <2>3 DEF SaveEnds, i
<1>5. CASE requests[i].loading
  <2> DEFINE r == requests[i]
             r0 == [r EXCEPT !.loading = FALSE]
             q == Handle(r0, storeData).request
             t == Handle(r0, storeData).store
  <2>1. requests' = [requests EXCEPT ![i] = q] /\ storeData' = t
    BY <1>2, <1>5 DEF Proceed
  <2>2. RequestOK(r, script, i) /\ \A k \in r.before : requests[k].pc = "done"
    BY <1>1 DEF IInv, RequestInv, RequestsOK
  <2>3. /\ r \in Requests /\ i \in DOMAIN script /\ r.kind = script[i].kind
        /\ r.item = script[i].item /\ (r.checks => r.kind \in {"bootstrap", "claim"})
    BY <1>1, <2>2 DEF RequestOK
  <2>4. /\ Outcome(r0, storeData, q, t)
        /\ r0.kind = r.kind /\ r0.item = r.item /\ r0.before = r.before
        /\ r0.checks = r.checks /\ ~r0.loading
    BY <1>1, <1>3, <1>5, <2>3, ProceedOutcome
  <2> HIDE DEF r0, q, t
  <2>5. /\ RequestOK(q, script, i) /\ ~q.loading
        /\ q.pc \in {"refused", "hash", "metadata", "save"}
    BY <2>3, <2>4, OutcomeRequest
  <2>6. DOMAIN requests' = Ids /\ requests'[i] = q /\ \A j \in Ids \ {i} : requests'[j] = requests[j]
    BY <1>1, <1>3, <2>1
  <2>7. q.kind = r.kind /\ q.item = r.item /\ q.before = r.before
    BY <2>4 DEF Outcome
  <2>8. Moves(requests, requests', i)
    BY <1>1, <2>2, <2>5, <2>6, <2>7 DEF Moves
  <2>9. t \in Stores /\ t.state = "whole"
    BY <2>4 DEF Outcome
  <2>10. Clean(requests', script, t)
    BY <1>1, <1>3, <2>4, <2>5, <2>6, <2>8, OutcomeClean
  <2>11. SaveEnds(i)
    BY <1>5, <2>1, <2>4, <2>5, <2>6 DEF SaveEnds
  <2> QED BY <2>1, <2>5, <2>6, <2>8, <2>9, <2>10, <2>11 DEF i
<1> QED BY <1>4, <1>5

\* The end of a save, whether it has written the file or has failed.
LEMMA NextSaveKeeps ==
    ASSUME IInv, writeQueue # <<>>, NextSave, UNCHANGED script,
           file' = written \/ file' = file,
           marred' = {} => marred = {} /\ file' = written
    PROVE  IInv'
<1> DEFINE i == Head(writeQueue)
           w == Tail(writeQueue)
<1>1. /\ i \in Ids /\ requests[i].pc = "queued" /\ w \in Seq(Ids)
      /\ Len(w) = Len(writeQueue) - 1 /\ Len(writeQueue) \in Nat
      /\ \A k \in 1 .. Len(w) : w[k] \in Ids \ {i} /\ requests[w[k]].pc = "queued"
      /\ \A j, k \in 1 .. Len(w) : w[j] = w[k] => j = k
  BY QueueTail
<1>2. /\ writeQueue' = w /\ written' = (IF Len(writeQueue) = 1 THEN null ELSE storeData)
      /\ opened' = FALSE /\ script' = script
  BY DEF NextSave
<1>3. /\ Moves(requests, requests', i) /\ RequestOK(requests'[i], script, i) /\ SaveEnds(i)
      /\ storeData' \in Stores /\ storeData'.state = "whole"
      /\ Clean(requests', script, storeData')
  BY NextSaveEnds
<1> HIDE DEF i, w
<1>a. i \in Ids /\ Len(w) = Len(writeQueue) - 1 /\ Len(writeQueue) \in Nat
  BY <1>1
<1>b. Moves(requests, requests', i) /\ RequestOK(requests'[i], script, i)
  BY <1>3
<1>4. /\ storeData # null /\ storeData.state = "whole" /\ storeData \in Stores
      /\ written.state = "whole" /\ written \in Stores /\ file \in Stores
      /\ file.state \in {"absent", "torn", "whole"}
  BY <1>1 DEF IInv, QueueInv, TypeOK, Types
<1>5. storeData' # null /\ null \in Stores /\ null.users = <<>> /\ null.games = <<>>
  BY <1>3 DEF null, Stores
<1>6. \A j \in Ids \ {i} : requests'[j] = requests[j]
  BY <1>3 DEF Moves
<1>7. Types'
  BY <1>1, <1>2, <1>3, <1>4, <1>5 DEF IInv, Types, Moves
<1>8. RequestInv'
  <2>1. RequestsOK(requests', script)
    BY <1>a, <1>b, MovesRequests DEF IInv, RequestInv
  <2> QED BY <1>2, <2>1 DEF RequestInv
<1>9. QueueInv'
  <2>1. DOMAIN w = 1 .. Len(w)
    BY <1>1
  <2>2. \A k \in DOMAIN w : requests'[w[k]].pc = "queued"
    BY <1>1, <1>6, <2>1
  <2>3. w # <<>> => Len(writeQueue) # 1
    BY <1>1
  <2>4. file'.state \in {"absent", "torn", "whole"}
    BY <1>4
  <2>5. TypeOK'
    BY <1>2, <1>3, <1>4, <1>5, <2>2, <2>3, <2>4 DEF TypeOK
  <2> QED BY <1>1, <1>2, <1>5, <2>5 DEF QueueInv
<1>10. CleanInv'
  <2>1. /\ Clean(requests, script, storeData) /\ Clean(requests, script, file)
        /\ Clean(requests, script, written)
    BY DEF IInv, CleanInv
  <2>2. /\ Clean(requests', script, storeData) /\ Clean(requests', script, file)
        /\ Clean(requests', script, written)
    BY <1>1, <1>3, <2>1, MovesClean
  <2>3. Clean(requests', script, null)
    BY <1>5 DEF Clean, Unique, Has
  <2> QED BY <1>2, <1>3, <2>2, <2>3 DEF CleanInv
<1>11. ASSUME marred' = {} PROVE AnswerInv'
  <2>1. AnswerInv /\ file' = written
    BY <1>11 DEF IInv
  <2>2. ASSUME NEW j \in Ids, requests'[j].pc = "done"
        PROVE  /\ Applied(requests, j) /\ requests[j].pc # "none"
               /\ requests[j].pc = "done" \/ j = i
    <3>1. CASE j = i
      BY <1>1, <1>3, <2>2, <3>1 DEF Applied, SaveEnds
    <3>2. CASE j # i
      <4>1. requests[j].pc = "done"
        BY <1>6, <2>2, <3>2
      <4>2. ~requests[j].loading
        BY <4>1 DEF IInv, RequestInv, RequestsOK, RequestOK
      <4> QED BY <4>1, <4>2 DEF Applied
    <3> QED BY <3>1, <3>2
  <2>3. \A j \in Ids : j # i /\ Applied(requests', j) => Applied(requests, j)
    BY <1>6 DEF Applied
  <2>4. ASSUME NEW j \in Ids, Applied(requests, j)
        PROVE  Kept(requests, j, storeData) /\ Kept(requests', j, storeData)
    <3>1. Kept(requests, j, storeData) /\ requests[j].pc # "none"
      BY <1>4, <2>1, <2>4 DEF AnswerInv, MemoryKeeps, Applied
    <3> QED BY <1>1, <1>3, <3>1, MovesKept
  <2>5. ~Saving' => ~Saving /\ storeData' = storeData
    <3>1. Saving => Saving'
      BY <1>1, <1>6 DEF Saving
    <3>2. requests'[i].pc # "save" => storeData' = storeData
      BY <1>3 DEF SaveEnds, Outcome
    <3> QED BY <1>1, <3>1, <3>2 DEF Saving
  <2>6. MemoryKeeps'
    <3>1. ASSUME NEW j \in Ids, Applied(requests', j) PROVE Kept(requests', j, storeData')
      <4>1. CASE ~requests[i].loading
        <5>1. storeData' = storeData
          BY <1>3, <4>1 DEF SaveEnds
        <5>2. Applied(requests, j)
          BY <1>1, <2>3, <3>1, <4>1 DEF Applied
        <5> QED BY <2>4, <5>1, <5>2
      <4>2. CASE requests[i].loading
        <5>1. PICK r : Outcome(r, storeData, requests'[i], storeData')
          BY <1>3, <4>2 DEF SaveEnds
        <5>2. j # i => /\ Kept(requests', j, storeData)
                       /\ \A k \in requests[j].before : requests[k].pc = "done"
          BY <2>3, <2>4, <3>1 DEF IInv, RequestInv, RequestsOK
        <5>3. j = i => requests'[i].pc = "save"
          BY <1>3, <3>1, <4>2 DEF SaveEnds, Applied
        <5> QED BY <1>1, <1>3, <5>1, <5>2, <5>3, OutcomeKept
      <4> QED BY <4>1, <4>2
    <3> QED BY <3>1 DEF MemoryKeeps
  <2>7. FileKeeps'
    <3>1. ASSUME NEW j \in Ids, requests'[j].pc = "done" PROVE Kept(requests', j, written)
      <4>1. Kept(requests, j, written)
        BY <2>1, <2>2, <3>1 DEF AnswerInv, SaveKeeps, i
      <4> QED BY <1>1, <1>3, <2>2, <3>1, <4>1, MovesKept
    <3> QED BY <2>1, <3>1 DEF FileKeeps
  <2>8. SaveKeeps'
    <3>1. ASSUME w # <<>>, NEW j \in Ids,
                 requests'[j].pc = "done" \/ (j = Head(w) /\ Applied(requests', j))
          PROVE  Kept(requests', j, written')
      <4>1. Len(writeQueue) # 1 /\ written' = storeData
        BY <1>1, <1>2, <3>1
      <4>2. Head(w) # i
        <5>1. Head(w) = w[1] /\ 1 \in 1 .. Len(w)
          BY <1>1, <3>1
        <5> QED BY <1>1, <5>1
      <4>3. Applied(requests, j)
        BY <2>2, <2>3, <3>1, <4>2
      <4> QED BY <2>4, <4>1, <4>3
    <3> QED BY <1>2, <3>1 DEF SaveKeeps
  <2>9. FileBefore'
    BY <1>4, <2>1 DEF FileBefore
  <2>10. FileIsStore'
    <3>1. w = <<>> => Len(writeQueue) = 1
      BY <1>1
    <3> QED BY <1>2, <2>1, <2>5, <3>1 DEF AnswerInv, LastSaveIsStore, FileIsStore
  <2>11. LastSaveIsStore'
    <3>1. Len(w) = 1 => Len(writeQueue) # 1
      BY <1>a
    <3> QED BY <1>2, <2>5, <3>1 DEF LastSaveIsStore
  <2>12. LateBootstrap'
    <3>1. RequestsOK(requests, script) /\ RequestsOK(requests', script)
      BY <1>2, <1>8 DEF IInv, RequestInv
    <3>2. LateBootstraps(requests)
      BY <2>1 DEF AnswerInv, LateBootstrap
    <3>3. ASSUME NEW k \in requests'[i].before,
                 requests'[i].kind = "bootstrap", requests[k].kind \in AccountKinds
          PROVE  requests'[i].pc = "refused"
      <4>1. k \in Ids /\ requests[k].pc = "done"
        BY <1>b, <3>3 DEF Moves, RequestOK, Requests
      <4>2. k \in requests[i].before /\ requests[i].kind = "bootstrap"
        BY <1>1, <1>b, <3>3 DEF Moves
      <4>3. requests[i].checks /\ requests[i].loading
        BY <1>1, <1>11, <3>3, <4>2, LateWaits
      <4>4. PICK r : /\ Outcome(r, storeData, requests'[i], storeData')
                     /\ r.kind = requests[i].kind /\ r.checks = requests[i].checks
        BY <1>3, <4>3 DEF SaveEnds
      <4>5. Applied(requests, k)
        BY <4>1 DEF IInv, RequestInv, RequestsOK, RequestOK, Applied
      <4>6. Kept(requests, k, storeData)
        BY <2>4, <4>1, <4>5
      <4>7. r.kind = "bootstrap" /\ r.checks
        BY <4>2, <4>3, <4>4
      <4>8. Outcome(r, storeData, requests'[i], storeData') /\ storeData \in Stores
        BY <1>4, <4>4
      <4> QED BY <3>3, <4>6, <4>7, <4>8, LateRefused
    <3>4. LateBootstraps(requests')
      BY <1>a, <1>b, <3>1, <3>2, <3>3, MovesLate
    <3> QED BY <3>4 DEF LateBootstrap
  <2> QED BY <2>6, <2>7, <2>8, <2>9, <2>10, <2>11, <2>12 DEF AnswerInv
<1> QED BY <1>7, <1>8, <1>9, <1>10, <1>11 DEF IInv

\* writeFile succeeds, or rejects and mars the store.
LEMMA SaveKeepsInvariant ==
    ASSUME IInv, WriteFile \/ WriteFails, UNCHANGED script
    PROVE  IInv'
<1>1. CASE WriteFile
  <2>1. writeQueue # <<>> /\ NextSave /\ file' = written /\ marred' = marred
    BY <1>1 DEF WriteFile, IInv, QueueInv, TypeOK
  <2> QED BY <2>1, NextSaveKeeps
<1>2. CASE WriteFails
  <2>1. writeQueue # <<>> /\ NextSave /\ file' = file /\ marred' # {}
    BY <1>2 DEF WriteFails
  <2> QED BY <2>1, NextSaveKeeps
<1> QED BY <1>1, <1>2

\* The process dies: the requests under way get no answer, and what was
\* answered is in the file unless a save was cut.
LEMMA CrashKeeps ==
    ASSUME IInv, Crash, UNCHANGED script
    PROVE  IInv'
<1> DEFINE Lost(r) == [r EXCEPT !.pc = "dropped"]
<1>1. /\ storeData' = null /\ writeQueue' = <<>> /\ written' = null /\ opened' = FALSE
      /\ requests' = [i \in Ids |-> IF requests[i].pc \in Answers \union {"none"}
                                    THEN requests[i] ELSE Lost(requests[i])]
      /\ file' = file /\ script' = script
      /\ marred' = {} => marred = {} /\ ~opened
  BY DEF Crash
<1>2. null \in Stores /\ null.users = <<>> /\ null.games = <<>>
  BY DEF null, Stores
<1>3. \A j \in Ids : RequestOK(requests[j], script, j)
  BY DEF IInv, RequestInv, RequestsOK
<1>4. ASSUME NEW j \in Ids
      PROVE  /\ RequestOK(requests'[j], script, j)
             /\ requests'[j].kind = requests[j].kind /\ requests'[j].item = requests[j].item
             /\ requests'[j].before = requests[j].before /\ requests'[j].checks = requests[j].checks
             /\ requests'[j].loading = requests[j].loading
             /\ requests'[j].pc = "none" <=> requests[j].pc = "none"
             /\ requests'[j].pc = "done" <=> requests[j].pc = "done"
             /\ requests'[j].pc = "refused" <=> requests[j].pc = "refused"
             /\ requests'[j].pc \in Answers \union {"none"}
  <2>1. CASE requests[j].pc \in Answers \union {"none"}
    BY <1>1, <1>3, <2>1
  <2>2. CASE requests[j].pc \notin Answers \union {"none"}
    <3> DEFINE q == Lost(requests[j])
    <3>1. requests'[j] = q
      BY <1>1, <2>2
    <3>2. /\ q \in Requests /\ q.kind = requests[j].kind /\ q.item = requests[j].item
          /\ q.before = requests[j].before /\ q.checks = requests[j].checks
          /\ q.loading = requests[j].loading /\ q.pc = "dropped"
      BY <1>3 DEF RequestOK, Requests, Pcs, Answers
    <3> HIDE DEF q
    <3> QED BY <1>3, <2>2, <3>1, <3>2 DEF RequestOK, Answers
  <2> QED BY <2>1, <2>2
<1>5. Types'
  <2>1. <<>> \in Seq(Ids) /\ DOMAIN requests' = Ids
    BY <1>1
  <2> QED BY <1>1, <1>2, <2>1 DEF IInv, Types
<1>6. RequestInv'
  <2>1. \A j \in Ids : requests[j].before \subseteq Ids
    BY <1>3 DEF RequestOK, Requests
  <2>2. \A j \in Ids : \A k \in requests'[j].before : requests'[k].pc = "done"
    BY <1>4, <2>1 DEF IInv, RequestInv, RequestsOK
  <2> QED BY <1>1, <1>4, <2>2 DEF RequestInv, RequestsOK
<1>7. QueueInv'
  <2>1. \A j \in Ids : requests'[j].pc \notin {"save", "queued", "seed"}
    BY <1>4 DEF Answers
  <2>2. TypeOK'
    BY <1>1 DEF IInv, QueueInv, TypeOK
  <2> QED BY <1>1, <2>1, <2>2 DEF QueueInv
<1>8. CleanInv'
  <2>1. Clean(requests', script, null)
    BY <1>2 DEF Clean, Unique, Has
  <2>2. Clean(requests', script, file)
    BY <1>4 DEF IInv, CleanInv, Clean
  <2> QED BY <1>1, <2>1, <2>2 DEF CleanInv
<1>9. ASSUME marred' = {} PROVE AnswerInv'
  <2>1. AnswerInv /\ ~opened
    BY <1>1, <1>9 DEF IInv
  <2>2. ASSUME NEW j \in Ids, NEW kinds, Undone(requests, j, kinds)
        PROVE  Undone(requests', j, kinds)
    BY <1>4, <2>2 DEF Undone
  <2>3. FileKeeps'
    <3>1. ASSUME file.state = "whole", NEW j \in Ids, requests'[j].pc = "done"
          PROVE  Kept(requests', j, file)
      <4>1. Kept(requests, j, file)
        BY <1>4, <2>1, <3>1 DEF AnswerInv, FileKeeps
      <4> QED BY <1>4, <2>2, <4>1 DEF Kept
    <3> QED BY <1>1, <3>1 DEF FileKeeps
  <2>4. FileBefore'
    BY <1>1, <1>4, <2>1 DEF AnswerInv, FileBefore
  <2>5. MemoryKeeps' /\ SaveKeeps' /\ FileIsStore'
    BY <1>1 DEF MemoryKeeps, SaveKeeps, FileIsStore
  <2>6. LastSaveIsStore'
    BY <1>1 DEF LastSaveIsStore
  <2>7. LateBootstrap'
    <3>1. \A j \in Ids : requests[j].before \subseteq Ids
      BY <1>3 DEF RequestOK, Requests
    <3>2. LateBootstraps(requests)
      BY <2>1 DEF AnswerInv, LateBootstrap
    <3>3. LateBootstraps(requests')
      BY <1>4, <3>1, <3>2 DEF LateBootstraps
    <3> QED BY <3>3 DEF LateBootstrap
  <2> QED BY <2>3, <2>4, <2>5, <2>6, <2>7 DEF AnswerInv
<1> QED BY <1>5, <1>6, <1>7, <1>8, <1>9 DEF IInv

\* A server that is installed or started has answered nothing.
LEMMA InitKeeps ==
    ASSUME Init
    PROVE  IInv
<1>1. /\ script \in Scripts /\ file \in InitialFiles /\ storeData = null
      /\ requests = [i \in Ids |-> NoRequest]
      /\ writeQueue = <<>> /\ written = null /\ opened = FALSE /\ marred = {}
  BY DEF Init
<1>2. null \in Stores /\ null.users = <<>> /\ null.games = <<>>
  BY DEF null, Stores
<1>3. /\ file \in Stores /\ file.state \in {"absent", "torn", "whole"}
      /\ Unique(file.users) /\ Unique(file.games)
  BY <1>1, FilesAssumption DEF Stores
<1>4. /\ NoRequest \in Requests /\ NoRequest.pc = "none" /\ NoRequest.before = {}
      /\ ~NoRequest.checks /\ ~NoRequest.loading
  BY DEF NoRequest, Requests, Records, Pcs
<1>5. \A i \in Ids : requests[i] = NoRequest
  BY <1>1
<1>6. Types
  <2>1. <<>> \in Seq(Ids) /\ DOMAIN requests = Ids
    BY <1>1
  <2> QED BY <1>1, <1>2, <1>3, <2>1 DEF Types
<1>7. RequestInv
  BY <1>4, <1>5 DEF RequestInv, RequestsOK, RequestOK
<1>8. QueueInv
  <2>1. TypeOK
    BY <1>1, <1>3 DEF TypeOK
  <2>2. \A i \in Ids : requests[i].pc = "none"
    BY <1>4, <1>5
  <2> QED BY <1>1, <2>1, <2>2 DEF QueueInv
<1>9. CleanInv
  <2>1. Clean(requests, script, null)
    BY <1>2 DEF Clean, Unique, Has
  <2>2. Clean(requests, script, file)
    <3>1. \A j \in DOMAIN script : script[j].kind = "create" => ~Has(file.games, script[j].item)
      BY <1>1, ScriptsAssumption DEF Has
    <3> QED BY <1>3, <3>1 DEF Clean
  <2> QED BY <1>1, <2>1, <2>2 DEF CleanInv
<1>10. AnswerInv
  <2>1. \A i \in Ids : requests[i].pc = "none" /\ requests[i].before = {}
    BY <1>4, <1>5
  <2>2. MemoryKeeps /\ SaveKeeps /\ FileIsStore
    BY <1>1 DEF MemoryKeeps, SaveKeeps, FileIsStore
  <2>3. FileKeeps /\ FileBefore
    BY <2>1 DEF FileKeeps, FileBefore
  <2>4. LastSaveIsStore
    <3>1. Len(writeQueue) = 0
      BY <1>1
    <3> QED BY <3>1 DEF LastSaveIsStore
  <2>5. LateBootstrap
    BY <2>1 DEF LateBootstrap, LateBootstraps
  <2> QED BY <2>2, <2>3, <2>4, <2>5 DEF AnswerInv
<1> QED BY <1>6, <1>7, <1>8, <1>9, <1>10 DEF IInv

\* Every step of a request, of a save or of the environment keeps the invariant.
LEMMA NextKeeps ==
    ASSUME IInv, [Next]_vars
    PROVE  IInv'
<1>1. ASSUME NEW i \in Ids, Step(i) PROVE IInv'
  BY <1>1, ResumeKeeps, PathExistsKeeps, ReadFileKeeps, ReadSeedKeeps, PersistKeeps DEF Step
<1>2. ASSUME Save PROVE IInv'
  BY <1>2, OpenFileKeeps, SaveKeepsInvariant DEF Save
<1>3. ASSUME NEW i \in Ids, Arrive(i) \/ RequestFails(i), UNCHANGED script PROVE IInv'
  BY <1>3, ArriveKeeps, RequestFailsKeeps
<1>4. ASSUME WriteFails \/ Crash, UNCHANGED script PROVE IInv'
  BY <1>4, SaveKeepsInvariant, CrashKeeps
<1>5. ASSUME UNCHANGED vars PROVE IInv'
  <2>1. /\ script' = script /\ storeData' = storeData /\ requests' = requests /\ file' = file
        /\ writeQueue' = writeQueue /\ written' = written /\ opened' = opened /\ marred' = marred
    BY <1>5 DEF vars, diskVars
  <2>2. Types' /\ RequestInv' /\ CleanInv'
    BY <2>1 DEF IInv, Types, RequestInv, CleanInv
  <2>3. QueueInv'
    BY <2>1 DEF IInv, QueueInv, TypeOK
  <2>4. marred' = {} => AnswerInv'
    BY <2>1 DEF IInv, AnswerInv, MemoryKeeps, FileKeeps, SaveKeeps, FileBefore, FileIsStore,
                LastSaveIsStore, LateBootstrap, Saving
  <2> QED BY <2>2, <2>3, <2>4 DEF IInv
<1> QED BY <1>1, <1>2, <1>3, <1>4, <1>5 DEF Next

-----------------------------------------------------------------------------
(* The theorems *)

\* The inductive invariant of the store: where requests and saves stand, and
\* what memory, file and the save under way keep.
THEOREM StoreInvariant == Spec => []IInv
<1>1. Init => IInv
  BY InitKeeps
<1>2. IInv /\ [Next]_vars => IInv'
  BY NextKeeps
<1> QED BY <1>1, <1>2, PTL DEF Spec

\* No two accounts share a name and no two games an identifier, in memory or in
\* the file, however createUser, addGameToCatalog and createGame interleave.
THEOREM RecordsAreUnique == Spec => []NoDuplicates
<1>1. IInv => NoDuplicates
  <2>1. IInv => TypeOK
    BY DEF IInv, QueueInv
  <2>2. IInv => \A s \in {storeData, file, written} : Unique(s.users) /\ Unique(s.games)
    BY DEF IInv, CleanInv, Clean
  <2> QED BY <2>1, <2>2 DEF NoDuplicates
<1> QED BY <1>1, StoreInvariant, PTL

\* What the proofs call kept is what the property calls honoured.
LEMMA KeptIsHonoured ==
    ASSUME NEW i \in Ids, NEW s, requests[i].kind \in Kinds, Kept(requests, i, s)
    PROVE  Honoured(i, s)
<1>1. \A kinds : Undone(requests, i, kinds) => Rival(i, kinds)
  BY DEF Undone, Rival, Arrived
<1>2. CASE requests[i].kind \in AccountKinds
  BY <1>2 DEF Kept, Honoured, AccountKinds
<1>3. CASE requests[i].kind \in {"claim", "create"}
  BY <1>1, <1>3 DEF Kept, Honoured, AccountKinds
<1>4. CASE requests[i].kind = "delete"
  BY <1>1, <1>4 DEF Kept, Honoured, AccountKinds
<1> QED BY <1>2, <1>3, <1>4 DEF Kinds

\* What the routes answered with success stays in memory and in the file, over
\* restarts too, unless a second load, a failed save or a cut one has marred it;
\* and a bootstrap that comes after an account was answered makes none.
THEOREM AnswersAreKept == Spec => []AnsweredStays
<1>1. IInv => AnsweredStays
  <2> SUFFICES ASSUME IInv, marred = {} PROVE AnsweredStays
    BY DEF AnsweredStays
  <2>1. AnswerInv
    BY DEF IInv
  <2>2. ASSUME NEW i \in Ids, requests[i].pc = "done"
        PROVE  Applied(requests, i) /\ requests[i].kind \in Kinds
    <3>1. /\ i \in DOMAIN script /\ requests[i].kind = script[i].kind /\ ~requests[i].loading
      BY <2>2 DEF IInv, RequestInv, RequestsOK, RequestOK
    <3>2. script \in Scripts
      BY DEF IInv, Types
    <3> QED BY <2>2, <3>1, <3>2, ScriptType DEF Applied
  <2>3. storeData # null => Honours(storeData)
    BY <2>1, <2>2, KeptIsHonoured DEF AnswerInv, MemoryKeeps, Honours, Done
  <2>4. file.state = "whole" => Honours(file)
    BY <2>1, <2>2, KeptIsHonoured DEF AnswerInv, FileKeeps, Honours, Done
  <2>5. opened => Honours(written)
    BY <2>1, <2>2, KeptIsHonoured DEF AnswerInv, SaveKeeps, Honours, Done, IInv, QueueInv, TypeOK
  <2>6. storeData # null /\ (\A i \in Ids : requests[i].pc \notin {"save", "queued"})
            => file = storeData
    <3>1. (\A i \in Ids : requests[i].pc \notin {"save", "queued"}) => writeQueue = <<>>
      BY QueueTail
    <3> QED BY <2>1, <3>1 DEF AnswerInv, FileIsStore, Saving
  <2>7. \A i \in Done : requests[i].kind = "bootstrap" =>
            \A j \in requests[i].before : requests[j].kind \notin AccountKinds
    BY <2>1, <2>2 DEF AnswerInv, LateBootstrap, LateBootstraps, Done, Applied
  <2> QED BY <2>3, <2>4, <2>5, <2>6, <2>7 DEF AnsweredStays
<1> QED BY <1>1, StoreInvariant, PTL
=============================================================================
