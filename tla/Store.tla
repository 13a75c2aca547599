-------------------------------- MODULE Store --------------------------------
(***************************************************************************)
(* The coordination server's account and game store: one object in memory, *)
(* loaded by the first request that needs it and saved as a whole, and the *)
(* routes that change it.  A request runs alone up to its next wait for    *)
(* the disk, the key derivation or the network; what comes back from the   *)
(* disk is what the file held when it was read.                            *)
(***************************************************************************)
EXTENDS Integers, Sequences

CONSTANTS
    Items,           \* the names of accounts and the identifiers of games
    Scripts,         \* the requests of a behaviour, [kind, item], as they come in
    InitialFiles,    \* what the data file may hold when the server is installed
    SeedGames,       \* the games of the seed file
    Invalid,         \* a record that does not pass the validation
    MaxRequests,     \* bound: requests of a script
    MaxFaults        \* bound: crashes, and disk operations that fail

VARIABLES
    script,      \* the requests of this behaviour
    file,        \* the data file: absent, cut short, or a whole store
    storeData,   \* the object in memory: "loaded" is FALSE while it is null
    requests,    \* request -> what it asks, and where it waits
    writeQueue,  \* the requests whose save is under way or has its turn to come
    written,     \* the text the save under way writes
    opened,      \* that save has opened, so emptied, the file
    faults,      \* crashes and failures so far
    marred       \* what happened that the store does not survive

diskVars == <<file, writeQueue, written, opened>>
vars == <<script, storeData, requests, diskVars, faults, marred>>

Ids == 1 .. MaxRequests
Records == Items \union {Invalid}
AccountKinds == {"register", "bootstrap", "account"}
Kinds == AccountKinds \union {"claim", "create", "delete"}

Whole(users, games) == [state |-> "whole", users |-> users, games |-> games]
Absent == [state |-> "absent", users |-> <<>>, games |-> <<>>]
Torn == [state |-> "torn", users |-> <<>>, games |-> <<>>]
null == [state |-> "null", users |-> <<>>, games |-> <<>>]

\* A list holds a record.
Has(records, x) == \E k \in DOMAIN records : records[k] = x

\* No two valid records share a name or an identifier.
Unique(records) ==
    \A j, k \in DOMAIN records : records[j] = records[k] /\ records[j] # Invalid => j = k

ASSUME BoundsAssumption == MaxRequests \in Nat /\ MaxFaults \in Nat
ASSUME ItemsAssumption == Invalid \notin Items

\* What the disk holds before the server runs has no duplicates of its own.
ASSUME SeedAssumption == SeedGames \in Seq(Items) /\ Unique(SeedGames)
ASSUME FilesAssumption ==
    \A f \in InitialFiles :
       /\ f \in [state : {"absent", "torn", "whole"}, users : Seq(Records), games : Seq(Records)]
       /\ Unique(f.users) /\ Unique(f.games)

\* randomUUID: the identifier of a created game is nobody else's.
ASSUME ScriptsAssumption ==
    \A sc \in Scripts :
       /\ sc \in Seq([kind : Kinds, item : Items])
       /\ \A i \in DOMAIN sc : sc[i].kind = "create" =>
             /\ ~Has(SeedGames, sc[i].item)
             /\ \A f \in InitialFiles : ~Has(f.games, sc[i].item)
             /\ \A j \in DOMAIN sc \ {i} :
                   sc[j].kind \in {"claim", "create"} => sc[j].item # sc[i].item

NoRequest == [kind |-> "none", item |-> Invalid, pc |-> "none",
              checks |-> FALSE, loading |-> FALSE, before |-> {}]

\* Where a request is answered: with what it made, with what is there already
\* or a refusal, with an error, or not at all.
Answers == {"done", "refused", "error", "dropped"}

Init ==
    /\ script \in Scripts
    /\ file \in InitialFiles
    /\ storeData = null
    /\ requests = [i \in Ids |-> NoRequest]
    /\ writeQueue = <<>> /\ written = null /\ opened = FALSE
    /\ faults = 0 /\ marred = {}


\* findIndex of a record that is there, and splice.
IndexOf(records, x) ==
    CHOOSE k \in DOMAIN records : records[k] = x /\ \A j \in 1 .. k - 1 : records[j] # x
Without(records, k) == SubSeq(records, 1, k - 1) \o SubSeq(records, k + 1, Len(records))

\* The records that pass the validation, in their order.
Valid(records) ==
    LET upto[n \in 0 .. Len(records)] ==
          IF n = 0 THEN <<>>
          ELSE IF records[n] = Invalid THEN upto[n - 1]
          ELSE Append(upto[n - 1], records[n])
    IN  upto[Len(records)]

-----------------------------------------------------------------------------
(* What a request does to a loaded store s, up to its next wait. *)

Saves(r, s) == [request |-> [r EXCEPT !.pc = "save"], store |-> s]
PushUser(r, s) == Saves(r, [s EXCEPT !.users = Append(@, r.item)])
PushGame(r, s) == Saves(r, [s EXCEPT !.games = Append(@, r.item)])
Waits(r, s, pc) == [request |-> [r EXCEPT !.pc = pc, !.checks = FALSE], store |-> s]
Refuse(r, s) == Waits(r, s, "refused")

\* hasUsers, then the password is hashed.
ControllerBootstrap(r, s) ==
    IF s.users # <<>> THEN Refuse(r, s) ELSE Waits(r, s, "hash")

\* getUserByUsername of a loaded store is settled at once, and no other request
\* runs before the push.
createUser(r, s) ==
    IF Has(s.users, r.item) THEN Refuse(r, s) ELSE PushUser(r, s)

\* getGameByAppId, then the metadata is fetched.
ControllerClaimGame(r, s) ==
    IF Has(s.games, r.item) THEN Refuse(r, s) ELSE Waits(r, s, "metadata")

\* Mutant: no second look.
AddUnchecked(r, s) == PushGame(r, s)

addGameToCatalog(r, s) ==
    IF Has(s.games, r.item) THEN Refuse(r, s) ELSE PushGame(r, s)

createGame(r, s) == PushGame(r, s)

deleteGame(r, s) ==
    IF ~Has(s.games, r.item)
    THEN Refuse(r, s)
    ELSE Saves(r, [s EXCEPT !.games = Without(@, IndexOf(@, r.item))])

Handle(r, s) ==
    CASE r.kind = "bootstrap" /\ r.checks -> ControllerBootstrap(r, s)
      [] r.kind = "claim" /\ r.checks     -> ControllerClaimGame(r, s)
      [] r.kind \in AccountKinds /\ ~r.checks -> createUser(r, s)
      [] r.kind = "claim" /\ ~r.checks    -> addGameToCatalog(r, s)
      [] r.kind = "create"                -> createGame(r, s)
      [] r.kind = "delete"                -> deleteGame(r, s)

\* Request i, now r, goes on with the store s in memory.
Proceed(i, r, s) ==
    LET out == Handle([r EXCEPT !.loading = FALSE], s)
    IN  /\ requests' = [requests EXCEPT ![i] = out.request]
        /\ storeData' = out.store

Wait(i, pc) == requests' = [requests EXCEPT ![i].pc = pc]

\* ensureLoaded, up to its first wait.
ensureLoaded(i, r) ==
    IF storeData # null
    THEN Proceed(i, r, storeData)
    ELSE /\ requests' = [requests EXCEPT ![i] = [r EXCEPT !.pc = "exists", !.loading = TRUE]]
         /\ UNCHANGED storeData

-----------------------------------------------------------------------------
(* The requests *)

Arrived == {i \in Ids : requests[i].pc # "none"}
Done == {i \in Ids : requests[i].pc = "done"}

\* A request comes in.  A password is hashed before the store is asked, except
\* by bootstrap.
Arrive(i) ==
    /\ i <= Len(script) /\ requests[i].pc = "none" /\ i - 1 \in Arrived \union {0}
    /\ LET kind == script[i].kind
           r == [kind |-> kind, item |-> script[i].item, pc |-> "hash",
                 checks |-> kind \in {"bootstrap", "claim"}, loading |-> FALSE,
                 before |-> Done]
       IN  IF kind = "register"
           THEN requests' = [requests EXCEPT ![i] = r] /\ UNCHANGED storeData
           ELSE ensureLoaded(i, r)
    /\ UNCHANGED <<diskVars, faults, marred>>

\* The key is derived, or the metadata has come or has failed to.
Resume(i) ==
    /\ requests[i].pc \in {"hash", "metadata"}
    /\ ensureLoaded(i, requests[i])
    /\ UNCHANGED <<diskVars, faults, marred>>

\* The directory is made and pathExists answers.
PathExists(i) ==
    /\ requests[i].pc = "exists"
    /\ Wait(i, IF file.state = "absent" THEN "seed" ELSE "read")
    /\ UNCHANGED <<storeData, diskVars, faults, marred>>

\* A second load replaces an object that is in use.
Replaces == marred' = marred \union (IF storeData # null THEN {"overlap"} ELSE {})

\* The file is read.  What does not parse gives way to a fresh store; records
\* that are not valid are skipped, and the rest is saved.
ReadFile(i) ==
    /\ requests[i].pc = "read"
    /\ LET valid == Whole(Valid(file.users), Valid(file.games))
       IN  \/ /\ file.state = "torn"
              /\ Wait(i, "seed") /\ UNCHANGED <<storeData, marred>>
           \/ /\ file.state = "whole" /\ valid # file
              /\ storeData' = valid /\ Wait(i, "save") /\ Replaces
           \/ /\ file = valid
              /\ Proceed(i, requests[i], file) /\ Replaces
    /\ UNCHANGED <<diskVars, faults>>

\* The seed games are read for a fresh store, which is saved.
ReadSeed(i) ==
    /\ requests[i].pc = "seed"
    /\ storeData' = Whole(<<>>, SeedGames) /\ Replaces
    /\ Wait(i, "save")
    /\ UNCHANGED <<diskVars, faults>>

\* persist, from the return of mkdir on: the save is queued, and starts at once
\* when it is the only one.
persist(i) ==
    /\ requests[i].pc = "save"
    /\ Wait(i, "queued")
    /\ writeQueue' = Append(writeQueue, i)
    /\ written' = IF writeQueue = <<>> THEN storeData ELSE written
    /\ UNCHANGED <<storeData, file, opened, faults, marred>>

-----------------------------------------------------------------------------
(* The save at the head of the queue *)

OpenFile ==
    /\ writeQueue # <<>> /\ ~opened
    /\ opened' = TRUE /\ file' = Torn
    /\ UNCHANGED <<storeData, requests, writeQueue, written, faults, marred>>

\* Mutant: a queued save writes the text of the save before it.
NextSaveStale ==
    LET i == Head(writeQueue)
    IN  /\ writeQueue' = Tail(writeQueue) /\ opened' = FALSE /\ UNCHANGED written
        /\ IF requests[i].loading
           THEN Proceed(i, requests[i], storeData)
           ELSE Wait(i, "done") /\ UNCHANGED storeData

\* Mutant: the end of a save clears the queue.
NextSaveClears ==
    LET i == Head(writeQueue)
    IN  /\ writeQueue' = <<>> /\ written' = null /\ opened' = FALSE
        /\ IF requests[i].loading
           THEN Proceed(i, requests[i], storeData)
           ELSE Wait(i, "done") /\ UNCHANGED storeData

\* The save is over: the next one starts with the store as it is now, and the
\* request goes on, after a load with its own work, else to its answer.
NextSave ==
    LET i == Head(writeQueue)
    IN  /\ writeQueue' = Tail(writeQueue)
        /\ written' = IF Len(writeQueue) = 1 THEN null ELSE storeData
        /\ opened' = FALSE
        /\ IF requests[i].loading
           THEN Proceed(i, requests[i], storeData)
           ELSE Wait(i, "done") /\ UNCHANGED storeData

WriteFile ==
    /\ opened
    /\ file' = written
    /\ NextSave
    /\ UNCHANGED <<faults, marred>>

\* writeFile rejects, before or after it has opened the file: the error is
\* logged and the request answered as if it had been saved.
WriteFails ==
    /\ writeQueue # <<>> /\ faults < MaxFaults
    /\ faults' = faults + 1 /\ marred' = marred \union {"failed"}
    /\ NextSave
    /\ UNCHANGED file

\* mkdir or the read of the file rejects, and so does the request.
RequestFails(i) ==
    /\ requests[i].pc \in {"exists", "read", "save"} /\ faults < MaxFaults
    /\ faults' = faults + 1
    /\ marred' = marred \union (IF requests[i].pc = "save" THEN {"failed"} ELSE {})
    /\ Wait(i, "error")
    /\ UNCHANGED <<storeData, diskVars>>

\* The process dies and is started again; requests under way get no answer.
Crash ==
    /\ Arrived # {} /\ faults < MaxFaults
    /\ faults' = faults + 1
    /\ marred' = marred \union (IF opened THEN {"cut"} ELSE {})
    /\ storeData' = null /\ writeQueue' = <<>> /\ written' = null /\ opened' = FALSE
    /\ requests' = [i \in Ids |-> IF requests[i].pc \in Answers \union {"none"}
                                  THEN requests[i]
                                  ELSE [requests[i] EXCEPT !.pc = "dropped"]]
    /\ UNCHANGED file

Step(i) ==
    /\ Resume(i) \/ PathExists(i) \/ ReadFile(i) \/ ReadSeed(i) \/ persist(i)
    /\ UNCHANGED script

Save == (OpenFile \/ WriteFile) /\ UNCHANGED script

Next ==
    \/ \E i \in Ids : Step(i)
    \/ Save
    \/ /\ (\E i \in Ids : Arrive(i) \/ RequestFails(i)) \/ WriteFails \/ Crash
       /\ UNCHANGED script

Spec == Init /\ [][Next]_vars

\* A wait for the disk, the key derivation or the network ends: the disk
\* answers, and the request for metadata has a timeout.
FairSpec ==
    /\ Spec
    /\ \A i \in Ids : WF_vars(Step(i))
    /\ WF_vars(Save)

-----------------------------------------------------------------------------
(* Properties *)

\* Memory and file are stores, and the queued requests wait for their save.
TypeOK ==
    /\ storeData = null \/ storeData.state = "whole"
    /\ file.state \in {"absent", "torn", "whole"}
    /\ \A k \in DOMAIN writeQueue : requests[writeQueue[k]].pc = "queued"
    /\ writeQueue # <<>> => storeData # null /\ written.state = "whole"
    /\ opened => writeQueue # <<>> /\ file = Torn

\* No two accounts have the same name and no two games the same identifier, in
\* memory or in the file, although a request waits between the moment it first
\* looks (getGameByAppId, hasUsers) and the moment it adds (createUser,
\* addGameToCatalog), and although the store may be loaded twice.  Requests
\* and files are where the queue of saves says (TypeOK).
NoDuplicates ==
    /\ TypeOK
    /\ \A s \in {storeData, file, written} : Unique(s.users) /\ Unique(s.games)

\* A request of one of these kinds, with the item of i, that had no answer yet
\* when i came in.
Rival(i, kinds) ==
    \E j \in Arrived \ requests[i].before :
       requests[j].kind \in kinds /\ requests[j].item = requests[i].item

\* What request i, once it has succeeded, asks of a store s: its account or its
\* game is there, or is not after a delete, unless a rival may have undone it.
Honoured(i, s) ==
    CASE requests[i].kind \in AccountKinds -> Has(s.users, requests[i].item)
      [] requests[i].kind \in {"claim", "create"} ->
            Has(s.games, requests[i].item) \/ Rival(i, {"delete"})
      [] requests[i].kind = "delete" ->
            ~Has(s.games, requests[i].item) \/ Rival(i, {"claim", "create"})

Honours(s) == \A i \in Done : Honoured(i, s)

\* An account or a game whose creation was answered with success stays, in
\* memory and in the file, and a deleted game stays away, over restarts too,
\* whatever is saved meanwhile, until a request undoes it that was not answered
\* when this one came.  The exceptions are three: the store was loaded
\* twice because a request came while an earlier one was loading it, a save
\* failed (the answer does not tell), or the process died in a save.  When
\* nobody waits for the disk, the file holds the store in memory.  And a
\* bootstrap that comes after the answer that an account was made makes none,
\* although hasUsers is asked before the password is hashed.
AnsweredStays ==
    marred = {} =>
        /\ storeData # null => Honours(storeData)
        /\ file.state = "whole" => Honours(file)
        /\ opened => Honours(written)
        /\ storeData # null /\ (\A i \in Ids : requests[i].pc \notin {"save", "queued"})
              => file = storeData
        /\ \A i \in Done : requests[i].kind = "bootstrap" =>
              \A j \in requests[i].before : requests[j].kind \notin AccountKinds

\* Every request is answered, or lost with the process: the queue of saves
\* goes on after a save that failed.
EveryRequestEnds ==
    \A i \in Ids : requests[i].pc # "none" ~> requests[i].pc \in Answers
=============================================================================
