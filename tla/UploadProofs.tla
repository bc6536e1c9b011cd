---------------------------- MODULE UploadProofs ----------------------------
(***************************************************************************)
(* For any number of parts and of overlapping, repeated and crashing       *)
(* requests: the types, that a document is ACTIVE exactly when it has its  *)
(* version, and, while complete requests carry a checksum, that the        *)
(* version is what the client declared.  While no part arrives damaged:    *)
(* that what is listed or has become a version is stored, and that an      *)
(* upload ends once.                                                       *)
(***************************************************************************)
EXTENDS Upload, TLAPS

\* The types of the requests alone.
ChunkType == [step : {"idle", "put", "discard", "save"},
              part : Parts \cup {None}, sent : Chunk \cup {None}, received : SUBSET Parts]

RequestsType == [number : 0 .. MaxRequests, kinds : SUBSET Irregularities]

CompType == [step : {"idle", "assemble", "drop object", "drop parts", "commit",
                     "clean parts", "close"},
             checked : BOOLEAN, built : [Parts -> Bytes \cup {None}], todo : SUBSET Parts]

\* What a request in flight knows: a chunk has its part and its bytes, an
\* assembly has every part it is past, and a commit has them all, compared
\* with the checksum if there is one.
ChunkInFlight ==
    \A r \in Chunkers :
        chunk[r].step # "idle" => chunk[r].part \in Parts /\ chunk[r].sent \in Chunk

CompInFlight ==
    \A r \in Completers :
        /\ comp[r].step = "assemble" =>
              /\ ("unchecked" \notin requests.kinds => comp[r].checked)
              /\ \A n \in Parts \ comp[r].todo : comp[r].built[n] \in Bytes
        /\ comp[r].step = "commit" =>
              /\ ("unchecked" \notin requests.kinds => comp[r].checked)
              /\ comp[r].built \in [Parts -> Bytes]
              /\ comp[r].checked => comp[r].built = Declared

Inv == TypeOK /\ ChunkInFlight /\ CompInFlight /\ ActiveIffVersion /\ VersionAsDeclared

-----------------------------------------------------------------------------
LEMMA Types ==
  TypeOK <=> /\ document \in {"PROCESSING", "ACTIVE", "deleted"}
             /\ version \in [Parts -> Bytes] \cup {None}
             /\ object \in [Parts -> Bytes] \cup {None}
             /\ parts \in [Parts -> Bytes \cup {None}]
             /\ upload \in [live : BOOLEAN, received : SUBSET Parts]
             /\ chunk \in [Chunkers -> ChunkType]
             /\ comp \in [Completers -> CompType]
             /\ requests \in RequestsType
  BY DEF TypeOK, ChunkType, CompType, RequestsType

LEMMA NoCompleteType == NoComplete \in CompType /\ NoComplete.step = "idle"
  BY DEF NoComplete, CompType, NoParts

LEMMA NoChunkType == NoChunk \in ChunkType /\ NoChunk.step = "idle"
  BY DEF NoChunk, ChunkType

LEMMA InitInv == Init => Inv
<1> SUFFICES ASSUME Init PROVE Inv
  OBVIOUS
<1>1. requests \in RequestsType
  BY UploadAssumption DEF Init, RequestsType
<1>2. TypeOK
  BY <1>1, UploadAssumption, Types, NoCompleteType, NoChunkType DEF Init, NoParts
<1>3. ChunkInFlight /\ CompInFlight
  BY NoCompleteType, NoChunkType DEF Init, ChunkInFlight, CompInFlight
<1>4. ActiveIffVersion /\ VersionAsDeclared
  BY DEF Init, ActiveIffVersion, VersionAsDeclared, Without
<1> QED BY <1>2, <1>3, <1>4 DEF Inv

LEMMA Arrives ==
  ASSUME requests \in RequestsType, NEW kinds \in SUBSET Irregularities, Arrive(kinds)
  PROVE  requests' \in RequestsType /\ requests'.kinds = requests.kinds \cup kinds
  BY UploadAssumption DEF Arrive, RequestsType

\* A step of one chunk request, given what it leaves in its place.
LEMMA ChunkSteps ==
  ASSUME Inv, NEW r \in Chunkers, NEW q \in ChunkType,
         q.step # "idle" => q.part \in Parts /\ q.sent \in Chunk,
         chunk' = [chunk EXCEPT ![r] = q],
         parts' \in [Parts -> Bytes \cup {None}],
         upload' \in [live : BOOLEAN, received : SUBSET Parts],
         requests' \in RequestsType, requests.kinds \subseteq requests'.kinds,
         UNCHANGED <<document, version, object, comp>>
  PROVE  Inv'
<1>1. chunk' \in [Chunkers -> ChunkType]
  BY Types DEF Inv
<1>2. TypeOK'
  BY <1>1, Types DEF Inv, TypeOK, ChunkType, CompType, RequestsType
<1>3. ChunkInFlight'
  BY Types DEF Inv, ChunkInFlight
<1>4. CompInFlight' /\ ActiveIffVersion' /\ VersionAsDeclared'
  BY DEF Inv, CompInFlight, ActiveIffVersion, VersionAsDeclared, Without
<1> QED BY <1>2, <1>3, <1>4 DEF Inv

LEMMA ChunkInv ==
  ASSUME Inv, NEW r \in Chunkers,
         \/ \E n \in Parts, sent \in Chunks : ChunkRead(r, n, sent)
         \/ ChunkPut(r) \/ ChunkDiscard(r) \/ ChunkSave(r) \/ CrashChunk(r)
  PROVE  Inv'
<1>1. chunk[r] \in ChunkType /\ parts \in [Parts -> Bytes \cup {None}]
  BY Types DEF Inv
<1>2. upload \in [live : BOOLEAN, received : SUBSET Parts] /\ requests \in RequestsType
  BY Types DEF Inv
<1>3. ASSUME NEW n \in Parts, NEW sent \in Chunks, ChunkRead(r, n, sent) PROVE Inv'
  <2> DEFINE q == [step |-> "put", part |-> n, sent |-> sent, received |-> upload.received]
  <2>1. q \in ChunkType /\ q.part \in Parts /\ q.sent \in Chunk
    BY <1>2, UploadAssumption DEF ChunkType
  <2>2. chunk' = [chunk EXCEPT ![r] = q] /\ parts' = parts /\ upload' = upload
    BY <1>3 DEF ChunkRead
  <2>3. UNCHANGED <<document, version, object, comp>>
    BY <1>3 DEF ChunkRead
  <2>4. requests' \in RequestsType /\ requests.kinds \subseteq requests'.kinds
    <3> DEFINE kinds == {k \in {"damaged"} : sent.bytes = "wrong"}
    <3>1. kinds \in SUBSET Irregularities
      BY DEF Irregularities
    <3>2. Arrive(kinds)
      BY <1>3 DEF ChunkRead
    <3> HIDE DEF kinds
    <3> QED BY <1>2, <3>1, <3>2, Arrives
  <2> HIDE DEF q
  <2> QED BY <1>1, <1>2, <2>1, <2>2, <2>3, <2>4, ChunkSteps
<1>4. CASE ChunkPut(r)
  <2> DEFINE s == IF chunk[r].sent.checked /\ chunk[r].sent.bytes = "wrong"
                  THEN "discard" ELSE "save"
             q == [chunk[r] EXCEPT !.step = s]
  <2>1. chunk[r].part \in Parts /\ chunk[r].sent \in Chunk
    BY <1>4 DEF Inv, ChunkInFlight, ChunkPut
  <2>2. s \in {"discard", "save"}
    OBVIOUS
  <2>3. chunk' = [chunk EXCEPT ![r] = q] /\ upload' = upload /\ requests' = requests
    BY <1>4 DEF ChunkPut
  <2>4. parts' \in [Parts -> Bytes \cup {None}]
    BY <1>1, <1>4, <2>1 DEF ChunkPut, Chunk
  <2>5. UNCHANGED <<document, version, object, comp>>
    BY <1>4 DEF ChunkPut
  <2> HIDE DEF s
  <2>6. q \in ChunkType /\ q.part \in Parts /\ q.sent \in Chunk
    BY <1>1, <2>1, <2>2 DEF ChunkType
  <2> HIDE DEF q
  <2> QED BY <1>2, <2>3, <2>4, <2>5, <2>6, ChunkSteps
<1>5. CASE ChunkDiscard(r) \/ ChunkSave(r) \/ CrashChunk(r)
  <2>1. chunk' = [chunk EXCEPT ![r] = NoChunk] /\ requests' = requests
    BY <1>5 DEF ChunkDiscard, ChunkSave, CrashChunk
  <2>2. UNCHANGED <<document, version, object, comp>>
    BY <1>5 DEF ChunkDiscard, ChunkSave, CrashChunk
  <2>3. parts' \in [Parts -> Bytes \cup {None}]
    BY <1>1, <1>5 DEF ChunkDiscard, ChunkSave, CrashChunk
  <2>4. upload' \in [live : BOOLEAN, received : SUBSET Parts]
    <3>1. CASE ChunkSave(r)
      <4>1. chunk[r].part \in Parts
        BY <3>1 DEF Inv, ChunkInFlight, ChunkSave
      <4> QED BY <1>1, <3>1, <4>1 DEF ChunkSave, ChunkType
    <3>2. CASE ChunkDiscard(r) \/ CrashChunk(r)
      BY <1>2, <3>2 DEF ChunkDiscard, CrashChunk
    <3> QED BY <1>5, <3>1, <3>2
  <2> QED BY <1>2, <2>1, <2>2, <2>3, <2>4, NoChunkType, ChunkSteps
<1> QED BY <1>3, <1>4, <1>5

\* A step of one complete request that leaves the document and its version,
\* given what it leaves in its place.
LEMMA CompSteps ==
  ASSUME Inv, NEW r \in Completers, NEW q \in CompType,
         q.step = "assemble" => /\ ("unchecked" \notin requests'.kinds => q.checked)
                                /\ \A n \in Parts \ q.todo : q.built[n] \in Bytes,
         q.step = "commit" => /\ ("unchecked" \notin requests'.kinds => q.checked)
                              /\ q.built \in [Parts -> Bytes]
                              /\ q.checked => q.built = Declared,
         comp' = [comp EXCEPT ![r] = q],
         document' \in {"PROCESSING", "ACTIVE", "deleted"},
         version' \in [Parts -> Bytes] \cup {None},
         ActiveIffVersion', VersionAsDeclared',
         object' \in [Parts -> Bytes] \cup {None},
         parts' \in [Parts -> Bytes \cup {None}],
         upload' \in [live : BOOLEAN, received : SUBSET Parts],
         requests' \in RequestsType, requests.kinds \subseteq requests'.kinds,
         chunk' = chunk
  PROVE  Inv'
<1>1. comp' \in [Completers -> CompType]
  BY Types DEF Inv
<1>2. chunk' \in [Chunkers -> ChunkType]
  BY Types DEF Inv
<1>3. TypeOK'
  BY <1>1, <1>2 DEF TypeOK, ChunkType, CompType, RequestsType
<1>4. CompInFlight'
  BY Types DEF Inv, CompInFlight
<1>5. ChunkInFlight'
  BY DEF Inv, ChunkInFlight
<1> QED BY <1>3, <1>4, <1>5 DEF Inv

LEMMA CompInv ==
  ASSUME Inv, NEW r \in Completers,
         \/ \E checked \in Checks : CompleteRead(r, checked)
         \/ Assemble(r) \/ Put(r) \/ DropObject(r) \/ DropDocument(r)
         \/ Commit(r) \/ CommitRefused(r) \/ DropPart(r) \/ Cleaned(r) \/ Close(r)
         \/ CrashComplete(r)
  PROVE  Inv'
<1>1. /\ comp[r] \in CompType
      /\ document \in {"PROCESSING", "ACTIVE", "deleted"}
      /\ version \in [Parts -> Bytes] \cup {None}
      /\ object \in [Parts -> Bytes] \cup {None}
      /\ parts \in [Parts -> Bytes \cup {None}]
      /\ upload \in [live : BOOLEAN, received : SUBSET Parts]
      /\ requests \in RequestsType
      /\ ActiveIffVersion /\ VersionAsDeclared
  BY Types DEF Inv
<1>2. UNCHANGED <<document, version, requests>> => ActiveIffVersion' /\ VersionAsDeclared'
  BY <1>1 DEF ActiveIffVersion, VersionAsDeclared, Without
<1>3. ASSUME NEW checked \in Checks, CompleteRead(r, checked) PROVE Inv'
  <2> DEFINE q == [step |-> "assemble", checked |-> checked, built |-> NoParts, todo |-> Parts]
             kinds == {k \in {"unchecked"} : ~checked}
  <2>1. q \in CompType /\ q.checked = checked /\ q.step = "assemble" /\ q.todo = Parts
    BY UploadAssumption DEF CompType, NoParts
  <2>2. comp' = [comp EXCEPT ![r] = q]
    BY <1>3 DEF CompleteRead
  <2>3. UNCHANGED <<document, version, object, parts, upload, chunk>>
    BY <1>3 DEF CompleteRead
  <2>4. kinds \in SUBSET Irregularities /\ Arrive(kinds)
    BY <1>3 DEF CompleteRead, Irregularities
  <2>5. checked \/ "unchecked" \in kinds
    OBVIOUS
  <2> HIDE DEF q, kinds
  <2>6. /\ requests' \in RequestsType /\ requests.kinds \subseteq requests'.kinds
        /\ "unchecked" \notin requests'.kinds => q.checked
    BY <1>1, <2>1, <2>4, <2>5, Arrives
  <2>7. ActiveIffVersion' /\ VersionAsDeclared'
    BY <1>1, <2>3, <2>6 DEF ActiveIffVersion, VersionAsDeclared, Without
  <2> QED BY <1>1, <2>1, <2>2, <2>3, <2>6, <2>7, CompSteps
<1>4. CASE Assemble(r)
  <2>1. UNCHANGED <<document, version, object, parts, upload, chunk, requests>>
    BY <1>4 DEF Assemble
  <2>2. PICK n \in comp[r].todo :
          comp' = [comp EXCEPT ![r] =
                     IF parts[n] = None THEN NoComplete
                     ELSE [comp[r] EXCEPT !.built = [comp[r].built EXCEPT ![n] = parts[n]],
                                          !.todo = comp[r].todo \ {n}]]
    BY <1>4 DEF Assemble, First
  <2>3. CASE parts[n] = None
    BY <1>1, <1>2, <2>1, <2>2, <2>3, NoCompleteType, CompSteps
  <2>4. CASE parts[n] # None
    <3> DEFINE q == [comp[r] EXCEPT !.built = [comp[r].built EXCEPT ![n] = parts[n]],
                                    !.todo = comp[r].todo \ {n}]
    <3>1. comp[r].step = "assemble" /\ ("unchecked" \notin requests.kinds => comp[r].checked)
      BY <1>4 DEF Inv, CompInFlight, Assemble
    <3>2. \A m \in Parts \ comp[r].todo : comp[r].built[m] \in Bytes
      BY <3>1 DEF Inv, CompInFlight
    <3>3. n \in Parts /\ parts[n] \in Bytes
      BY <1>1, <2>4 DEF CompType
    <3>4. q.step = "assemble" /\ q.checked = comp[r].checked /\ q.todo = comp[r].todo \ {n}
          /\ q.built = [comp[r].built EXCEPT ![n] = parts[n]]
      BY <1>1, <3>1 DEF CompType
    <3>5. q \in CompType
      BY <1>1, <3>3 DEF CompType
    <3>6. \A m \in Parts \ q.todo : q.built[m] \in Bytes
      BY <1>1, <3>2, <3>3, <3>4 DEF CompType
    <3>7. comp' = [comp EXCEPT ![r] = q]
      BY <2>2, <2>4
    <3> HIDE DEF q
    <3> QED BY <1>1, <1>2, <2>1, <3>1, <3>4, <3>5, <3>6, <3>7, CompSteps
  <2> QED BY <2>3, <2>4
<1>5. CASE Put(r)
  <2> DEFINE s == IF comp[r].checked /\ comp[r].built # Declared THEN "drop object" ELSE "commit"
             q == [comp[r] EXCEPT !.step = s]
  <2>1. comp[r].step = "assemble" /\ comp[r].todo = {} /\ object' = comp[r].built
    BY <1>5 DEF Put
  <2>2. ("unchecked" \notin requests.kinds => comp[r].checked) /\ \A n \in Parts : comp[r].built[n] \in Bytes
    BY <2>1 DEF Inv, CompInFlight
  <2>3. comp[r].built \in [Parts -> Bytes]
    BY <1>1, <2>2 DEF CompType
  <2>4. comp' = [comp EXCEPT ![r] = q]
    BY <1>5 DEF Put
  <2>5. UNCHANGED <<document, version, parts, upload, chunk, requests>>
    BY <1>5 DEF Put
  <2>6. s \in {"drop object", "commit"}
        /\ (s = "commit" => (comp[r].checked => comp[r].built = Declared))
    BY <1>1 DEF CompType
  <2> HIDE DEF s
  <2>7. q \in CompType /\ q.step = s /\ q.checked = comp[r].checked /\ q.built = comp[r].built
    BY <1>1, <2>6 DEF CompType
  <2> HIDE DEF q
  <2> QED BY <1>1, <1>2, <2>1, <2>2, <2>3, <2>4, <2>5, <2>6, <2>7, CompSteps
<1>6. CASE DropObject(r) \/ DropPart(r) \/ Cleaned(r)
  <2>1. PICK q : comp' = [comp EXCEPT ![r] = q] /\ q \in CompType
                 /\ q.step \in {"drop parts", "clean parts", "close"}
    <3>1. CASE DropObject(r)
      <4> DEFINE q == [comp[r] EXCEPT !.step = "drop parts", !.todo = Parts]
      <4>1. q \in CompType /\ q.step = "drop parts"
        BY <1>1 DEF CompType
      <4>2. comp' = [comp EXCEPT ![r] = q]
        BY <3>1 DEF DropObject
      <4> QED BY <4>1, <4>2
    <3>2. CASE DropPart(r)
      <4>1. PICK n \in comp[r].todo : comp' = [comp EXCEPT ![r].todo = @ \ {n}]
        BY <3>2 DEF DropPart, First
      <4> DEFINE q == [comp[r] EXCEPT !.todo = comp[r].todo \ {n}]
      <4>2. q \in CompType /\ q.step = comp[r].step
        BY <1>1 DEF CompType
      <4>3. comp' = [comp EXCEPT ![r] = q] /\ comp[r].step \in {"drop parts", "clean parts"}
        BY <3>2, <4>1 DEF DropPart
      <4> QED BY <4>2, <4>3
    <3>3. CASE Cleaned(r)
      <4> DEFINE q == [comp[r] EXCEPT !.step = "close"]
      <4>1. q \in CompType /\ q.step = "close"
        BY <1>1 DEF CompType
      <4>2. comp' = [comp EXCEPT ![r] = q]
        BY <3>3 DEF Cleaned
      <4> QED BY <4>1, <4>2
    <3> QED BY <1>6, <3>1, <3>2, <3>3
  <2>2. UNCHANGED <<document, version, upload, chunk, requests>>
    BY <1>6 DEF DropObject, DropPart, Cleaned
  <2>3. object' \in {object, None} /\ parts' \in [Parts -> Bytes \cup {None}]
    BY <1>1, <1>6 DEF DropObject, DropPart, Cleaned, First, CompType
  <2> QED BY <1>1, <1>2, <2>1, <2>2, <2>3, CompSteps
<1>7. CASE DropDocument(r)
  <2> DEFINE q == [comp[r] EXCEPT !.step = "close"]
  <2>1. q \in CompType /\ q.step = "close"
    BY <1>1 DEF CompType
  <2>2. comp' = [comp EXCEPT ![r] = q] /\ document' = "deleted" /\ version' = None
    BY <1>7 DEF DropDocument
  <2>3. UNCHANGED <<object, parts, upload, chunk, requests>>
    BY <1>7 DEF DropDocument
  <2>4. ActiveIffVersion' /\ VersionAsDeclared'
    BY <2>2 DEF ActiveIffVersion, VersionAsDeclared, Without
  <2> HIDE DEF q
  <2> QED BY <1>1, <2>1, <2>2, <2>3, <2>4, CompSteps
<1>8. CASE Commit(r)
  <2> DEFINE q == [comp[r] EXCEPT !.step = "clean parts", !.todo = Parts]
  <2>1. q \in CompType /\ q.step = "clean parts"
    BY <1>1 DEF CompType
  <2>2. comp' = [comp EXCEPT ![r] = q] /\ document' = "ACTIVE" /\ version' = comp[r].built
    BY <1>8 DEF Commit
  <2>3. UNCHANGED <<object, parts, upload, chunk, requests>>
    BY <1>8 DEF Commit
  <2>4. /\ comp[r].built \in [Parts -> Bytes]
        /\ ("unchecked" \notin requests.kinds => comp[r].checked)
        /\ comp[r].checked => comp[r].built = Declared
    BY <1>8 DEF Commit, Inv, CompInFlight
  <2>5. ActiveIffVersion'
    BY <2>2, <2>4, UploadAssumption DEF ActiveIffVersion
  <2>6. VersionAsDeclared'
    BY <2>2, <2>3, <2>4 DEF VersionAsDeclared, Without
  <2> HIDE DEF q
  <2> QED BY <1>1, <2>1, <2>2, <2>3, <2>4, <2>5, <2>6, CompSteps
<1>9. CASE CommitRefused(r) \/ Close(r) \/ CrashComplete(r)
  <2>1. comp' = [comp EXCEPT ![r] = NoComplete]
    BY <1>9 DEF CommitRefused, Close, CrashComplete
  <2>2. UNCHANGED <<document, version, object, parts, chunk, requests>>
    BY <1>9 DEF CommitRefused, Close, CrashComplete
  <2>3. upload' \in [live : BOOLEAN, received : SUBSET Parts]
    <3>1. upload' = upload \/ upload' = [live |-> FALSE, received |-> {}]
      BY <1>9 DEF CommitRefused, Close, CrashComplete
    <3>2. [live |-> FALSE, received |-> {}] \in [live : BOOLEAN, received : SUBSET Parts]
      OBVIOUS
    <3> QED BY <1>1, <3>1, <3>2
  <2> QED BY <1>1, <1>2, <2>1, <2>2, <2>3, NoCompleteType, CompSteps
<1> QED BY <1>3, <1>4, <1>5, <1>6, <1>7, <1>8, <1>9

THEOREM InvHolds == Spec => []Inv
<1>1. Init => Inv
  BY InitInv
<1>2. Inv /\ [Next]_vars => Inv'
  <2> SUFFICES ASSUME Inv, [Next]_vars PROVE Inv'
    OBVIOUS
  <2>1. ASSUME NEW r \in Chunkers,
               \/ \E n \in Parts, sent \in Chunks : ChunkRead(r, n, sent)
               \/ ChunkPut(r) \/ ChunkDiscard(r) \/ ChunkSave(r) \/ CrashChunk(r)
        PROVE  Inv'
    BY <2>1, ChunkInv
  <2>2. ASSUME NEW r \in Completers,
               \/ \E checked \in Checks : CompleteRead(r, checked)
               \/ Assemble(r) \/ Put(r) \/ DropObject(r) \/ DropDocument(r)
               \/ Commit(r) \/ CommitRefused(r) \/ DropPart(r) \/ Cleaned(r) \/ Close(r)
               \/ CrashComplete(r)
        PROVE  Inv'
    BY <2>2, CompInv
  <2>3. CASE Expire
    BY <2>3 DEF Expire, Inv, TypeOK, ChunkInFlight, CompInFlight, ActiveIffVersion, VersionAsDeclared, Without
  <2>4. CASE UNCHANGED vars
    BY <2>4 DEF vars, Inv, TypeOK, ChunkInFlight, CompInFlight, ActiveIffVersion, VersionAsDeclared, Without
  <2> QED BY <2>1, <2>2, <2>3, <2>4 DEF Next
<1> QED BY <1>1, <1>2, PTL DEF Spec

\* The types of the document, the stored objects, the session and the requests.
THEOREM TypeCorrect == Spec => []TypeOK
  BY InvHolds, PTL DEF Inv

\* A document is ACTIVE exactly when version 1 exists.
THEOREM ActiveHasVersion == Spec => []ActiveIffVersion
  BY InvHolds, PTL DEF Inv

\* While complete requests carry a checksum, whatever else overlaps, repeats, is
\* damaged or crashes: what becomes a version is what was declared.
THEOREM DeclaredStored == Spec => []VersionAsDeclared
  BY InvHolds, PTL DEF Inv

-----------------------------------------------------------------------------
(* While no part arrives damaged.                                          *)

PartsIntact == \A n \in Parts : parts[n] # "wrong"

\* No chunk is discarded.  Until the document is ACTIVE, what a chunk has read
\* from the session is stored, and so is its own part before it lists it.
ChunksIntact ==
    \A r \in Chunkers : chunk[r].step # "idle" =>
        /\ chunk[r].step # "discard"
        /\ chunk[r].sent.bytes = "right"
        /\ document = "PROCESSING" =>
              /\ \A n \in chunk[r].received : parts[n] # None
              /\ chunk[r].step = "save" => parts[chunk[r].part] # None

\* No completion is rolled back: all of them assemble the same bytes, so that
\* one that is late stores what is stored.  Parts go after the commit alone.
CompsIntact ==
    \A r \in Completers :
        /\ comp[r].step \notin {"drop object", "drop parts"}
        /\ \A n \in Parts : comp[r].built[n] # "wrong"
        /\ comp[r].step = "commit" => comp[r].built = Declared /\ object = Declared
        /\ comp[r].step \in {"clean parts", "close"} => document = "ACTIVE"

DocumentIntact ==
    /\ document # "deleted"
    /\ version # None => version = Declared /\ object = Declared

SessionIntact ==
    (upload.live /\ document = "PROCESSING") => \A n \in upload.received : parts[n] # None

AllIntact == PartsIntact /\ ChunksIntact /\ CompsIntact /\ DocumentIntact /\ SessionIntact

Intact == Without("damaged") => AllIntact

LEMMA InitIntact == Init => Intact
<1> SUFFICES ASSUME Init PROVE AllIntact
  BY DEF Intact, AllIntact
<1>1. PartsIntact
  BY UploadAssumption DEF Init, NoParts, PartsIntact, Bytes
<1>2. ChunksIntact
  BY NoChunkType DEF Init, ChunksIntact
<1>3. CompsIntact
  BY UploadAssumption DEF Init, CompsIntact, NoComplete, NoParts, Bytes
<1>4. DocumentIntact /\ SessionIntact
  BY DEF Init, DocumentIntact, SessionIntact
<1> QED BY <1>1, <1>2, <1>3, <1>4 DEF AllIntact

\* Irregularities are not forgotten.
LEMMA KindsGrow ==
  ASSUME Inv, [Next]_vars, Without("damaged")'
  PROVE  Without("damaged")
<1>1. requests \in RequestsType
  BY Types DEF Inv
<1>2. requests' = requests \/ \E kinds \in SUBSET Irregularities : Arrive(kinds)
  <2>1. ASSUME NEW r \in Chunkers, NEW n \in Parts, NEW sent \in Chunks, ChunkRead(r, n, sent)
        PROVE  \E kinds \in SUBSET Irregularities : Arrive(kinds)
    <3>1. {k \in {"damaged"} : sent.bytes = "wrong"} \in SUBSET Irregularities
      BY DEF Irregularities
    <3> QED BY <2>1, <3>1 DEF ChunkRead
  <2>2. ASSUME NEW r \in Completers, NEW checked \in Checks, CompleteRead(r, checked)
        PROVE  \E kinds \in SUBSET Irregularities : Arrive(kinds)
    <3>1. {k \in {"unchecked"} : ~checked} \in SUBSET Irregularities
      BY DEF Irregularities
    <3> QED BY <2>2, <3>1 DEF CompleteRead
  <2> QED BY <2>1, <2>2 DEF Next, vars, ChunkPut, ChunkDiscard, ChunkSave, CrashChunk, Assemble,
            Put, DropObject, DropDocument, Commit, CommitRefused, DropPart, Cleaned, Close,
            CrashComplete, Expire
<1> QED BY <1>1, <1>2, Arrives DEF Without

\* A step of a chunk request that takes no part away.
LEMMA ChunkStepsIntact ==
  ASSUME Inv, AllIntact, NEW r \in Chunkers, NEW q \in ChunkType,
         q.step # "idle" =>
            /\ q.step # "discard" /\ q.sent.bytes = "right"
            /\ document = "PROCESSING" =>
                  /\ \A n \in q.received : parts'[n] # None
                  /\ q.step = "save" => parts'[q.part] # None,
         chunk' = [chunk EXCEPT ![r] = q],
         \A n \in Parts : parts'[n] # "wrong" /\ (parts[n] # None => parts'[n] # None),
         (upload'.live /\ document = "PROCESSING") => \A n \in upload'.received : parts'[n] # None,
         UNCHANGED <<document, version, object, comp>>
  PROVE  AllIntact'
<1>1. PartsIntact' /\ CompsIntact' /\ DocumentIntact' /\ SessionIntact'
  BY DEF AllIntact, PartsIntact, CompsIntact, DocumentIntact, SessionIntact
<1>2. ChunksIntact'
  <2> SUFFICES ASSUME NEW s \in Chunkers, chunk'[s].step # "idle"
               PROVE  /\ chunk'[s].step # "discard" /\ chunk'[s].sent.bytes = "right"
                      /\ document = "PROCESSING" =>
                           /\ \A n \in chunk'[s].received : parts'[n] # None
                           /\ chunk'[s].step = "save" => parts'[chunk'[s].part] # None
    BY DEF ChunksIntact
  <2>1. CASE s = r
    BY <2>1, Types DEF Inv
  <2>2. CASE s # r
    <3>1. chunk'[s] = chunk[s] /\ chunk[s] \in ChunkType
      BY <2>2, Types DEF Inv
    <3>2. chunk[s].part \in Parts /\ chunk[s].received \subseteq Parts
      BY <3>1 DEF Inv, ChunkInFlight, ChunkType
    <3> QED BY <3>1, <3>2 DEF AllIntact, ChunksIntact
  <2> QED BY <2>1, <2>2
<1> QED BY <1>1, <1>2 DEF AllIntact

LEMMA ChunkIntact ==
  ASSUME Inv, AllIntact, Without("damaged")', NEW r \in Chunkers,
         \/ \E n \in Parts, sent \in Chunks : ChunkRead(r, n, sent)
         \/ ChunkPut(r) \/ ChunkDiscard(r) \/ ChunkSave(r) \/ CrashChunk(r)
  PROVE  AllIntact'
<1>1. /\ chunk[r] \in ChunkType
      /\ parts \in [Parts -> Bytes \cup {None}]
      /\ upload \in [live : BOOLEAN, received : SUBSET Parts]
      /\ requests \in RequestsType
  BY Types DEF Inv
<1>2. /\ \A n \in Parts : parts[n] # "wrong"
      /\ (upload.live /\ document = "PROCESSING") => \A n \in upload.received : parts[n] # None
  BY DEF AllIntact, PartsIntact, SessionIntact
<1>3. ASSUME NEW n \in Parts, NEW sent \in Chunks, ChunkRead(r, n, sent) PROVE AllIntact'
  <2> DEFINE q == [step |-> "put", part |-> n, sent |-> sent, received |-> upload.received]
             kinds == {k \in {"damaged"} : sent.bytes = "wrong"}
  <2>1. q \in ChunkType /\ q.step = "put" /\ q.sent = sent /\ q.received = upload.received
    BY <1>1, UploadAssumption DEF ChunkType
  <2>2. chunk' = [chunk EXCEPT ![r] = q] /\ parts' = parts /\ upload' = upload /\ upload.live
    BY <1>3 DEF ChunkRead
  <2>3. UNCHANGED <<document, version, object, comp>>
    BY <1>3 DEF ChunkRead
  <2>4. kinds \in SUBSET Irregularities /\ Arrive(kinds)
    BY <1>3 DEF ChunkRead, Irregularities
  <2>5. sent.bytes = "wrong" <=> "damaged" \in kinds
    OBVIOUS
  <2>6. sent.bytes \in Bytes
    BY UploadAssumption DEF Chunk
  <2> HIDE DEF q, kinds
  <2>7. sent.bytes = "right"
    BY <1>1, <2>4, <2>5, <2>6, Arrives DEF Without, Bytes
  <2> QED BY <1>2, <2>1, <2>2, <2>3, <2>7, ChunkStepsIntact
<1>4. ASSUME chunk[r].step # "idle"
      PROVE  /\ chunk[r].part \in Parts /\ chunk[r].received \subseteq Parts
             /\ chunk[r].step # "discard" /\ chunk[r].sent.bytes = "right"
             /\ document = "PROCESSING" =>
                  /\ \A n \in chunk[r].received : parts[n] # None
                  /\ chunk[r].step = "save" => parts[chunk[r].part] # None
  BY <1>1, <1>4 DEF Inv, ChunkInFlight, AllIntact, ChunksIntact, ChunkType
<1>5. CASE ChunkPut(r)
  <2> DEFINE q == [chunk[r] EXCEPT !.step = "save"]
  <2>1. chunk[r].step = "put"
    BY <1>5 DEF ChunkPut
  <2>2. parts' = [parts EXCEPT ![chunk[r].part] = "right"] /\ chunk' = [chunk EXCEPT ![r] = q]
    BY <1>4, <1>5, <2>1 DEF ChunkPut
  <2>3. /\ q \in ChunkType /\ q.step = "save" /\ q.sent = chunk[r].sent
        /\ q.received = chunk[r].received /\ q.part = chunk[r].part
    BY <1>1 DEF ChunkType
  <2>4. UNCHANGED <<document, version, object, comp, upload>>
    BY <1>5 DEF ChunkPut
  <2>5. \A n \in Parts : /\ parts'[n] = IF n = chunk[r].part THEN "right" ELSE parts[n]
                         /\ parts'[n] # "wrong" /\ (parts[n] # None => parts'[n] # None)
    BY <1>1, <1>2, <2>2, UploadAssumption DEF Bytes
  <2>6. parts'[q.part] # None /\ \A n \in Parts : parts[n] # None => parts'[n] # None
    BY <1>4, <2>1, <2>3, <2>5, UploadAssumption DEF Bytes
  <2> HIDE DEF q
  <2>7. document = "PROCESSING" => \A n \in q.received : parts'[n] # None
    BY <1>4, <2>1, <2>3, <2>6
  <2>8. (upload'.live /\ document = "PROCESSING") => \A n \in upload'.received : parts'[n] # None
    BY <1>1, <1>2, <2>4, <2>6
  <2> QED BY <1>4, <2>1, <2>2, <2>3, <2>4, <2>5, <2>6, <2>7, <2>8, ChunkStepsIntact
<1>6. CASE ChunkDiscard(r)
  BY <1>4, <1>6 DEF ChunkDiscard
<1>7. CASE ChunkSave(r) \/ CrashChunk(r)
  <2>1. chunk' = [chunk EXCEPT ![r] = NoChunk]
    BY <1>7 DEF ChunkSave, CrashChunk
  <2>2. UNCHANGED <<document, version, object, comp, parts>>
    BY <1>7 DEF ChunkSave, CrashChunk
  <2>3. (upload'.live /\ document = "PROCESSING") => \A n \in upload'.received : parts[n] # None
    <3>1. CASE ChunkSave(r)
      <4>1. upload'.received = chunk[r].received \cup {chunk[r].part} /\ chunk[r].step = "save"
        BY <3>1 DEF ChunkSave
      <4> QED BY <1>4, <4>1
    <3>2. CASE CrashChunk(r)
      BY <1>2, <3>2 DEF CrashChunk
    <3> QED BY <1>7, <3>1, <3>2
  <2> QED BY <1>2, <2>1, <2>2, <2>3, NoChunkType, ChunkStepsIntact
<1> QED BY <1>3, <1>5, <1>6, <1>7

\* A step of a complete request.  It may take parts away only when the document
\* is ACTIVE.
LEMMA CompStepsIntact ==
  ASSUME Inv, AllIntact, NEW r \in Completers, NEW q \in CompType,
         q.step \notin {"drop object", "drop parts"},
         \A n \in Parts : q.built[n] # "wrong",
         q.step = "commit" => q.built = Declared /\ object' = Declared,
         q.step \in {"clean parts", "close"} => document' = "ACTIVE",
         comp' = [comp EXCEPT ![r] = q],
         DocumentIntact',
         document = "ACTIVE" => document' = "ACTIVE",
         document' = "PROCESSING" => document = "PROCESSING" /\ parts' = parts,
         object' \in {object, Declared},
         \A n \in Parts : parts'[n] # "wrong",
         upload' = upload \/ ~upload'.live,
         chunk' = chunk
  PROVE  AllIntact'
<1>1. PartsIntact' /\ ChunksIntact' /\ SessionIntact'
  BY DEF AllIntact, PartsIntact, ChunksIntact, SessionIntact
<1>2. CompsIntact'
  <2> SUFFICES ASSUME NEW s \in Completers
               PROVE  /\ comp'[s].step \notin {"drop object", "drop parts"}
                      /\ \A n \in Parts : comp'[s].built[n] # "wrong"
                      /\ comp'[s].step = "commit" => comp'[s].built = Declared /\ object' = Declared
                      /\ comp'[s].step \in {"clean parts", "close"} => document' = "ACTIVE"
    BY DEF CompsIntact
  <2>1. CASE s = r
    BY <2>1, Types DEF Inv
  <2>2. CASE s # r
    <3>1. comp'[s] = comp[s]
      BY <2>2, Types DEF Inv
    <3> QED BY <3>1 DEF AllIntact, CompsIntact
  <2> QED BY <2>1, <2>2
<1> QED BY <1>1, <1>2 DEF AllIntact

LEMMA CompIntact ==
  ASSUME Inv, AllIntact, NEW r \in Completers,
         \/ \E checked \in Checks : CompleteRead(r, checked)
         \/ Assemble(r) \/ Put(r) \/ DropObject(r) \/ DropDocument(r)
         \/ Commit(r) \/ CommitRefused(r) \/ DropPart(r) \/ Cleaned(r) \/ Close(r)
         \/ CrashComplete(r)
  PROVE  AllIntact'
<1>1. /\ comp[r] \in CompType
      /\ parts \in [Parts -> Bytes \cup {None}]
      /\ document \in {"PROCESSING", "ACTIVE", "deleted"}
  BY Types DEF Inv
<1>2. /\ comp[r].step \notin {"drop object", "drop parts"}
      /\ \A n \in Parts : comp[r].built[n] # "wrong"
      /\ comp[r].step = "commit" => comp[r].built = Declared /\ object = Declared
      /\ comp[r].step \in {"clean parts", "close"} => document = "ACTIVE"
  BY DEF AllIntact, CompsIntact
<1>3. DocumentIntact /\ \A n \in Parts : parts[n] # "wrong"
  BY DEF AllIntact, PartsIntact
<1>4. UNCHANGED <<document, version, object>> => DocumentIntact'
  BY <1>3 DEF DocumentIntact
<1>5. /\ NoComplete \in CompType /\ NoComplete.step = "idle"
      /\ \A n \in Parts : NoComplete.built[n] # "wrong"
  BY NoCompleteType, UploadAssumption DEF NoComplete, NoParts, Bytes
<1>6. ASSUME NEW checked \in Checks, CompleteRead(r, checked) PROVE AllIntact'
  <2> DEFINE q == [step |-> "assemble", checked |-> checked, built |-> NoParts, todo |-> Parts]
  <2>1. q \in CompType /\ q.step = "assemble" /\ q.built = NoParts
    BY UploadAssumption DEF CompType, NoParts
  <2>2. \A n \in Parts : q.built[n] # "wrong"
    BY <2>1, UploadAssumption DEF NoParts, Bytes
  <2>3. comp' = [comp EXCEPT ![r] = q]
    BY <1>6 DEF CompleteRead
  <2>4. UNCHANGED <<document, version, object, parts, upload, chunk>>
    BY <1>6 DEF CompleteRead
  <2> HIDE DEF q
  <2> QED BY <1>3, <1>4, <2>1, <2>2, <2>3, <2>4, CompStepsIntact
<1>7. CASE Assemble(r)
  <2>1. UNCHANGED <<document, version, object, parts, upload, chunk>> /\ comp[r].step = "assemble"
    BY <1>7 DEF Assemble
  <2>2. PICK n \in comp[r].todo :
          comp' = [comp EXCEPT ![r] =
                     IF parts[n] = None THEN NoComplete
                     ELSE [comp[r] EXCEPT !.built = [comp[r].built EXCEPT ![n] = parts[n]],
                                          !.todo = comp[r].todo \ {n}]]
    BY <1>7 DEF Assemble, First
  <2>3. CASE parts[n] = None
    BY <1>3, <1>4, <1>5, <2>1, <2>2, <2>3, CompStepsIntact
  <2>4. CASE parts[n] # None
    <3> DEFINE b == [comp[r].built EXCEPT ![n] = parts[n]]
               q == [comp[r] EXCEPT !.built = b, !.todo = comp[r].todo \ {n}]
    <3>1. n \in Parts
      BY <1>1 DEF CompType
    <3>2. b \in [Parts -> Bytes \cup {None}] /\ \A m \in Parts : b[m] # "wrong"
      BY <1>1, <1>2, <1>3, <3>1 DEF CompType
    <3>3. comp' = [comp EXCEPT ![r] = q]
      BY <2>2, <2>4
    <3> HIDE DEF b
    <3>4. q \in CompType /\ q.step = "assemble" /\ q.built = b
      BY <1>1, <2>1, <3>2 DEF CompType
    <3> HIDE DEF q
    <3> QED BY <1>3, <1>4, <2>1, <3>2, <3>3, <3>4, CompStepsIntact
  <2> QED BY <2>3, <2>4
<1>8. CASE Put(r)
  <2> DEFINE q == [comp[r] EXCEPT !.step = "commit"]
  <2>1. comp[r].step = "assemble" /\ comp[r].todo = {} /\ object' = comp[r].built
    BY <1>8 DEF Put
  <2>2. comp[r].built \in [Parts -> Bytes \cup {None}] /\ \A n \in Parts : comp[r].built[n] \in Bytes
    BY <1>1, <2>1 DEF Inv, CompInFlight, CompType
  <2>3. \A n \in Parts : comp[r].built[n] = "right"
    BY <1>2, <2>2 DEF Bytes
  <2>4. comp[r].built = Declared
    BY <2>2, <2>3 DEF Declared
  <2>5. comp' = [comp EXCEPT ![r] = q]
    BY <1>8, <2>4 DEF Put
  <2>6. q \in CompType /\ q.step = "commit" /\ q.built = Declared
    BY <1>1, <2>4 DEF CompType
  <2>7. UNCHANGED <<document, version, parts, upload, chunk>>
    BY <1>8 DEF Put
  <2>8. DocumentIntact'
    BY <1>3, <2>1, <2>4, <2>7 DEF DocumentIntact
  <2>9. \A n \in Parts : q.built[n] # "wrong"
    BY <2>6 DEF Declared
  <2> HIDE DEF q
  <2> QED BY <1>3, <2>1, <2>4, <2>5, <2>6, <2>7, <2>8, <2>9, CompStepsIntact
<1>9. CASE DropObject(r) \/ DropDocument(r)
  BY <1>2, <1>9 DEF DropObject, DropDocument
<1>10. CASE Commit(r)
  <2> DEFINE q == [comp[r] EXCEPT !.step = "clean parts", !.todo = Parts]
  <2>1. q \in CompType /\ q.step = "clean parts" /\ q.built = comp[r].built
    BY <1>1 DEF CompType
  <2>2. /\ comp[r].step = "commit" /\ document' = "ACTIVE" /\ version' = comp[r].built
        /\ comp' = [comp EXCEPT ![r] = q]
    BY <1>10 DEF Commit
  <2>3. UNCHANGED <<object, parts, upload, chunk>>
    BY <1>10 DEF Commit
  <2>4. DocumentIntact'
    BY <1>2, <2>2, <2>3 DEF DocumentIntact
  <2> HIDE DEF q
  <2> QED BY <1>2, <1>3, <2>1, <2>2, <2>3, <2>4, CompStepsIntact
<1>11. CASE DropPart(r)
  <2>1. PICK n \in comp[r].todo : /\ comp' = [comp EXCEPT ![r].todo = @ \ {n}]
                                  /\ parts' = [parts EXCEPT ![n] = None]
    BY <1>11 DEF DropPart, First
  <2> DEFINE q == [comp[r] EXCEPT !.todo = comp[r].todo \ {n}]
  <2>2. comp[r].step = "clean parts" /\ document = "ACTIVE"
    BY <1>2, <1>11 DEF DropPart
  <2>3. q \in CompType /\ q.step = "clean parts" /\ q.built = comp[r].built
    BY <1>1, <2>2 DEF CompType
  <2>4. comp' = [comp EXCEPT ![r] = q]
    BY <2>1
  <2>5. UNCHANGED <<document, version, object, upload, chunk>>
    BY <1>11 DEF DropPart
  <2>6. \A m \in Parts : parts'[m] # "wrong"
    BY <1>1, <1>3, <2>1, UploadAssumption DEF Bytes
  <2> HIDE DEF q
  <2> QED BY <1>2, <1>4, <2>2, <2>3, <2>4, <2>5, <2>6, CompStepsIntact
<1>12. CASE Cleaned(r)
  <2> DEFINE q == [comp[r] EXCEPT !.step = "close"]
  <2>1. q \in CompType /\ q.step = "close" /\ q.built = comp[r].built
    BY <1>1 DEF CompType
  <2>2. comp' = [comp EXCEPT ![r] = q] /\ comp[r].step = "clean parts"
    BY <1>12 DEF Cleaned
  <2>3. UNCHANGED <<document, version, object, parts, upload, chunk>>
    BY <1>12 DEF Cleaned
  <2> HIDE DEF q
  <2> QED BY <1>2, <1>3, <1>4, <2>1, <2>2, <2>3, CompStepsIntact
<1>13. CASE CommitRefused(r) \/ Close(r) \/ CrashComplete(r)
  <2>1. comp' = [comp EXCEPT ![r] = NoComplete]
    BY <1>13 DEF CommitRefused, Close, CrashComplete
  <2>2. UNCHANGED <<document, version, object, parts, chunk>>
    BY <1>13 DEF CommitRefused, Close, CrashComplete
  <2>3. upload' = upload \/ ~upload'.live
    BY <1>13 DEF CommitRefused, Close, CrashComplete
  <2> QED BY <1>3, <1>4, <1>5, <2>1, <2>2, <2>3, CompStepsIntact
<1> QED BY <1>6, <1>7, <1>8, <1>9, <1>10, <1>11, <1>12, <1>13

LEMMA IntactStep ==
  ASSUME Inv, Intact, [Next]_vars
  PROVE  Intact'
<1> SUFFICES ASSUME Without("damaged")' PROVE AllIntact'
  BY DEF Intact, AllIntact
<1>1. AllIntact
  BY KindsGrow DEF Intact, AllIntact
<1>2. ASSUME NEW r \in Chunkers,
             \/ \E n \in Parts, sent \in Chunks : ChunkRead(r, n, sent)
             \/ ChunkPut(r) \/ ChunkDiscard(r) \/ ChunkSave(r) \/ CrashChunk(r)
      PROVE  AllIntact'
  BY <1>1, <1>2, ChunkIntact
<1>3. ASSUME NEW r \in Completers,
             \/ \E checked \in Checks : CompleteRead(r, checked)
             \/ Assemble(r) \/ Put(r) \/ DropObject(r) \/ DropDocument(r)
             \/ Commit(r) \/ CommitRefused(r) \/ DropPart(r) \/ Cleaned(r) \/ Close(r)
             \/ CrashComplete(r)
      PROVE  AllIntact'
  BY <1>1, <1>3, CompIntact
<1>4. CASE Expire \/ UNCHANGED vars
  <2>1. UNCHANGED <<document, version, object, parts, chunk, comp>>
    BY <1>4 DEF Expire, vars
  <2>2. PartsIntact' /\ ChunksIntact' /\ CompsIntact' /\ DocumentIntact'
    BY <1>1, <2>1 DEF AllIntact, PartsIntact, ChunksIntact, CompsIntact, DocumentIntact
  <2>3. upload' = upload \/ upload' = [live |-> FALSE, received |-> {}]
    BY <1>4 DEF Expire, vars
  <2>4. SessionIntact'
    BY <1>1, <2>1, <2>3 DEF AllIntact, SessionIntact
  <2> QED BY <2>2, <2>4 DEF AllIntact
<1> QED BY <1>2, <1>3, <1>4 DEF Next

THEOREM IntactHolds == Spec => []Intact
<1>1. Inv /\ Intact /\ [Next]_vars => Intact'
  BY IntactStep
<1> QED BY <1>1, InitIntact, InvHolds, PTL DEF Spec

\* While no part arrives damaged: the object of a version is there and is what
\* the version says, however completions overlap and repeat.
THEOREM ObjectIntact == Spec => []StoredIntact
<1>1. Intact => StoredIntact
  BY DEF Intact, AllIntact, DocumentIntact, StoredIntact
<1> QED BY <1>1, IntactHolds, PTL

\* While no part arrives damaged: what the session of an unfinished upload lists
\* is in storage.
THEOREM ListedStored == Spec => []ListedIsStored
<1>1. Intact => ListedIsStored
  BY DEF Intact, AllIntact, SessionIntact, ListedIsStored
<1> QED BY <1>1, IntactHolds, PTL

\* While no part arrives damaged: a document that is no longer PROCESSING keeps
\* its status.
THEOREM EndsOnce == Spec => OutcomeFinal
<1>1. Inv /\ Intact /\ Intact' /\ [Next]_vars
        => [(Without("damaged")' /\ document # "PROCESSING") => document' = document]_vars
  <2> SUFFICES ASSUME Inv, Intact, Intact', [Next]_vars, Without("damaged")',
                      document # "PROCESSING"
               PROVE  document' = document
    OBVIOUS
  <2>1. document = "ACTIVE" /\ version # None /\ document' # "deleted"
    BY KindsGrow, Types DEF Inv, Intact, AllIntact, DocumentIntact, ActiveIffVersion
  <2>2. document' \in {document, "ACTIVE", "deleted"}
    BY DEF Next, vars, ChunkRead, ChunkPut, ChunkDiscard, ChunkSave, CrashChunk, CompleteRead,
           Assemble, Put, DropObject, DropDocument, Commit, CommitRefused, DropPart, Cleaned,
           Close, CrashComplete, Expire
  <2> QED BY <2>1, <2>2
<1> QED BY <1>1, InvHolds, IntactHolds, PTL DEF OutcomeFinal, Spec

=============================================================================
