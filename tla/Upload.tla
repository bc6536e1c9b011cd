-------------------------------- MODULE Upload --------------------------------
(***************************************************************************)
(* DocumentService.uploadInit, uploadChunk and uploadComplete: one upload, *)
(* from the PROCESSING document to its first version.  The session lives   *)
(* in Redis as one JSON value, which every chunk reads and writes back     *)
(* whole; the parts and the assembled object live in object storage.       *)
(* Clients send parts in parallel, and repeat requests they got no answer  *)
(* for.                                                                    *)
(***************************************************************************)
EXTENDS Naturals, FiniteSets

CONSTANTS
    TotalParts,
    Chunkers,     \* uploadChunk requests that may be in flight
    Completers,   \* uploadComplete requests that may be in flight
    Chunks,       \* what a chunk request may bring: see Chunk
    Checks,       \* whether a complete request carries clientChecksum
    MaxRequests,  \* bound: requests in all
    None

Parts == 1 .. TotalParts

Bytes == {"right", "wrong"}

\* Bytes as the client has them or damaged on the way, with or without a
\* partChecksum to tell.
Chunk == [bytes : Bytes, checked : BOOLEAN]

\* A chunk that arrived damaged, a completion without a checksum.
Irregularities == {"damaged", "unchecked"}

ASSUME UploadAssumption ==
    /\ TotalParts \in Nat \ {0}
    /\ Chunks \subseteq Chunk
    /\ Checks \subseteq BOOLEAN
    /\ MaxRequests \in Nat
    /\ None \notin Bytes \cup [Parts -> Bytes]

VARIABLES
    document,  \* the documents row
    version,   \* the checksum of version 1, as the bytes it was computed from
    object,    \* the object under storageKey
    parts,     \* parts[n]: the object of part n
    upload,    \* the session: whether the key exists, and receivedParts
    chunk,     \* chunk[r]: an uploadChunk request
    comp,      \* comp[r]: an uploadComplete request
    requests   \* how many requests arrived, and which irregularities they had

vars == <<document, version, object, parts, upload, chunk, comp, requests>>

NoParts  == [n \in Parts |-> None]
Declared == [n \in Parts |-> "right"]

NoChunk    == [step |-> "idle", part |-> None, sent |-> None, received |-> {}]
NoComplete == [step |-> "idle", checked |-> FALSE, built |-> NoParts, todo |-> {}]

\* uploadInit.
Init ==
    /\ document = "PROCESSING"
    /\ version = None
    /\ object = None
    /\ parts = NoParts
    /\ upload = [live |-> TRUE, received |-> {}]
    /\ chunk = [r \in Chunkers |-> NoChunk]
    /\ comp = [r \in Completers |-> NoComplete]
    /\ requests = [number |-> 0, kinds |-> {}]

Arrive(kinds) ==
    /\ requests.number < MaxRequests
    /\ requests' = [number |-> requests.number + 1, kinds |-> requests.kinds \cup kinds]

\* Loops over parts go in ascending order.
First(S) == {n \in S : \A m \in S : n <= m}

-----------------------------------------------------------------------------
(* uploadChunk.                                                            *)

\* Faulty: the part is listed before it is stored.
ChunkReadListed(r, n, sent) ==
    /\ chunk[r] = NoChunk
    /\ Arrive({})
    /\ upload.live
    /\ upload' = [upload EXCEPT !.received = @ \cup {n}]
    /\ chunk' = [chunk EXCEPT ![r] =
                   [step |-> "put", part |-> n, sent |-> sent, received |-> upload'.received]]
    /\ UNCHANGED <<document, version, object, parts, comp>>

ChunkRead(r, n, sent) ==
    /\ chunk[r] = NoChunk
    /\ Arrive({k \in {"damaged"} : sent.bytes = "wrong"})
    /\ upload.live
    /\ chunk' = [chunk EXCEPT ![r] =
                   [step |-> "put", part |-> n, sent |-> sent, received |-> upload.received]]
    /\ UNCHANGED <<document, version, object, parts, upload, comp>>

\* The part is stored first and checked then.
ChunkPut(r) ==
    LET sent == chunk[r].sent IN
    /\ chunk[r].step = "put"
    /\ parts' = [parts EXCEPT ![chunk[r].part] = sent.bytes]
    /\ chunk' = [chunk EXCEPT ![r].step =
                   IF sent.checked /\ sent.bytes = "wrong" THEN "discard" ELSE "save"]
    /\ UNCHANGED <<document, version, object, upload, comp, requests>>

ChunkDiscard(r) ==
    /\ chunk[r].step = "discard"
    /\ parts' = [parts EXCEPT ![chunk[r].part] = None]
    /\ chunk' = [chunk EXCEPT ![r] = NoChunk]
    /\ UNCHANGED <<document, version, object, upload, comp, requests>>

\* setJson writes the session as it was read, and this part.
ChunkSave(r) ==
    /\ chunk[r].step = "save"
    /\ upload' = [live |-> TRUE, received |-> chunk[r].received \cup {chunk[r].part}]
    /\ chunk' = [chunk EXCEPT ![r] = NoChunk]
    /\ UNCHANGED <<document, version, object, parts, comp, requests>>

-----------------------------------------------------------------------------
(* uploadComplete.                                                         *)

CompleteRead(r, checked) ==
    /\ comp[r] = NoComplete
    /\ Arrive({k \in {"unchecked"} : ~checked})
    /\ upload.live
    /\ upload.received = Parts
    /\ comp' = [comp EXCEPT ![r] =
                  [step |-> "assemble", checked |-> checked, built |-> NoParts, todo |-> Parts]]
    /\ UNCHANGED <<document, version, object, parts, upload, chunk>>

\* The next part is downloaded and hashed.  When it is missing the stream never
\* ends, and neither does the request.
Assemble(r) ==
    /\ comp[r].step = "assemble"
    /\ \E n \in First(comp[r].todo) :
         comp' = [comp EXCEPT ![r] =
                    IF parts[n] = None THEN NoComplete
                    ELSE [comp[r] EXCEPT !.built[n] = parts[n],
                                          !.todo = comp[r].todo \ {n}]]
    /\ UNCHANGED <<document, version, object, parts, upload, chunk, requests>>

\* Faulty: the checksum of the client is not compared.
PutUnchecked(r) ==
    /\ comp[r].step = "assemble"
    /\ comp[r].todo = {}
    /\ object' = comp[r].built
    /\ comp' = [comp EXCEPT ![r].step = "commit"]
    /\ UNCHANGED <<document, version, parts, upload, chunk, requests>>

Put(r) ==
    /\ comp[r].step = "assemble"
    /\ comp[r].todo = {}
    /\ object' = comp[r].built
    /\ comp' = [comp EXCEPT ![r].step = IF comp[r].checked /\ comp[r].built # Declared
                                        THEN "drop object" ELSE "commit"]
    /\ UNCHANGED <<document, version, parts, upload, chunk, requests>>

\* Faulty: the document goes and its versions stay.
DropDocumentOnly(r) ==
    /\ comp[r].step = "drop parts"
    /\ comp[r].todo = {}
    /\ document' = "deleted"
    /\ comp' = [comp EXCEPT ![r].step = "close"]
    /\ UNCHANGED <<version, object, parts, upload, chunk, requests>>

\* A checksum mismatch is rolled back: the object, the parts, and the document
\* with the versions it may have.
DropObject(r) ==
    /\ comp[r].step = "drop object"
    /\ object' = None
    /\ comp' = [comp EXCEPT ![r].step = "drop parts", ![r].todo = Parts]
    /\ UNCHANGED <<document, version, parts, upload, chunk, requests>>

DropDocument(r) ==
    /\ comp[r].step = "drop parts"
    /\ comp[r].todo = {}
    /\ document' = "deleted"
    /\ version' = None
    /\ comp' = [comp EXCEPT ![r].step = "close"]
    /\ UNCHANGED <<object, parts, upload, chunk, requests>>

\* Faulty: the transaction does not wait for the object.
CommitUnstored(r) ==
    /\ comp[r].step \in {"assemble", "commit"}
    /\ comp[r].todo = {}
    /\ document # "deleted" /\ version = None
    /\ version' = comp[r].built
    /\ document' = "ACTIVE"
    /\ comp' = [comp EXCEPT ![r].step = "clean parts", ![r].todo = Parts]
    /\ UNCHANGED <<object, parts, upload, chunk, requests>>

\* The transaction: version 1, and the document becomes ACTIVE.
Commit(r) ==
    /\ comp[r].step = "commit"
    /\ document # "deleted" /\ version = None
    /\ version' = comp[r].built
    /\ document' = "ACTIVE"
    /\ comp' = [comp EXCEPT ![r].step = "clean parts", ![r].todo = Parts]
    /\ UNCHANGED <<object, parts, upload, chunk, requests>>

\* Faulty: a refused transaction is rolled back like a mismatch.
RefusedRollback(r) ==
    /\ comp[r].step = "commit"
    /\ document = "deleted" \/ version # None
    /\ comp' = [comp EXCEPT ![r].step = "drop object"]
    /\ UNCHANGED <<document, version, object, parts, upload, chunk, requests>>

\* The foreign key, or the unique (documentId, versionNumber), refuses it.
CommitRefused(r) ==
    /\ comp[r].step = "commit"
    /\ document = "deleted" \/ version # None
    /\ comp' = [comp EXCEPT ![r] = NoComplete]
    /\ UNCHANGED <<document, version, object, parts, upload, chunk, requests>>

\* cleanupParts, after the rollback of the object or after the commit.
DropPart(r) ==
    /\ comp[r].step \in {"drop parts", "clean parts"}
    /\ \E n \in First(comp[r].todo) :
         /\ parts' = [parts EXCEPT ![n] = None]
         /\ comp' = [comp EXCEPT ![r].todo = @ \ {n}]
    /\ UNCHANGED <<document, version, object, upload, chunk, requests>>

Cleaned(r) ==
    /\ comp[r].step = "clean parts"
    /\ comp[r].todo = {}
    /\ comp' = [comp EXCEPT ![r].step = "close"]
    /\ UNCHANGED <<document, version, object, parts, upload, chunk, requests>>

\* redis.invalidate.
Close(r) ==
    /\ comp[r].step = "close"
    /\ upload' = [live |-> FALSE, received |-> {}]
    /\ comp' = [comp EXCEPT ![r] = NoComplete]
    /\ UNCHANGED <<document, version, object, parts, chunk, requests>>

-----------------------------------------------------------------------------

\* A call rejects, or the process dies: the request is left where it is.
CrashChunk(r) ==
    /\ chunk[r] # NoChunk
    /\ chunk' = [chunk EXCEPT ![r] = NoChunk]
    /\ UNCHANGED <<document, version, object, parts, upload, comp, requests>>

CrashComplete(r) ==
    /\ comp[r] # NoComplete
    /\ comp' = [comp EXCEPT ![r] = NoComplete]
    /\ UNCHANGED <<document, version, object, parts, upload, chunk, requests>>

Idle ==
    /\ \A r \in Chunkers : chunk[r] = NoChunk
    /\ \A r \in Completers : comp[r] = NoComplete

\* 24 hours without a request: the key expires.
Expire ==
    /\ upload.live
    /\ Idle
    /\ upload' = [live |-> FALSE, received |-> {}]
    /\ UNCHANGED <<document, version, object, parts, chunk, comp, requests>>

Next ==
    \/ \E r \in Chunkers : \/ \E n \in Parts, sent \in Chunks : ChunkRead(r, n, sent)
                           \/ ChunkPut(r) \/ ChunkDiscard(r) \/ ChunkSave(r)
                           \/ CrashChunk(r)
    \/ \E r \in Completers : \/ \E checked \in Checks : CompleteRead(r, checked)
                             \/ Assemble(r) \/ Put(r)
                             \/ DropObject(r) \/ DropDocument(r)
                             \/ Commit(r) \/ CommitRefused(r)
                             \/ DropPart(r) \/ Cleaned(r) \/ Close(r)
                             \/ CrashComplete(r)
    \/ Expire

Spec == Init /\ [][Next]_vars

-----------------------------------------------------------------------------

TypeOK ==
    /\ document \in {"PROCESSING", "ACTIVE", "deleted"}
    /\ version \in [Parts -> Bytes] \cup {None}
    /\ object \in [Parts -> Bytes] \cup {None}
    /\ parts \in [Parts -> Bytes \cup {None}]
    /\ upload \in [live : BOOLEAN, received : SUBSET Parts]
    /\ chunk \in [Chunkers -> [step : {"idle", "put", "discard", "save"},
                               part : Parts \cup {None}, sent : Chunk \cup {None},
                               received : SUBSET Parts]]
    /\ comp \in [Completers ->
                   [step : {"idle", "assemble", "drop object", "drop parts", "commit",
                            "clean parts", "close"},
                    checked : BOOLEAN, built : [Parts -> Bytes \cup {None}],
                    todo : SUBSET Parts]]
    /\ requests \in [number : 0 .. MaxRequests, kinds : SUBSET Irregularities]

\* The document is ACTIVE exactly when it has its version.
ActiveIffVersion == (document = "ACTIVE") <=> (version # None)

Without(kind) == kind \notin requests.kinds

\* While no part arrives damaged: a version's object is there and has the
\* version's checksum, however completions overlap and repeat.
StoredIntact == Without("damaged") => (version # None => object = version)

\* While no part arrives damaged: an upload ends once, as a document or not at
\* all.
OutcomeFinal ==
    [][(Without("damaged")' /\ document # "PROCESSING") => document' = document]_vars

\* While complete requests carry a checksum: what becomes a version is what the
\* client has, whatever parts are damaged or replaced while it is assembled.
VersionAsDeclared == Without("unchecked") => (version # None => version = Declared)

\* While no part arrives damaged: a part that the session of an unfinished
\* upload lists is in storage, whatever died half way.
ListedIsStored ==
    (Without("damaged") /\ upload.live /\ document = "PROCESSING")
        => \A n \in upload.received : parts[n] # None

=============================================================================
