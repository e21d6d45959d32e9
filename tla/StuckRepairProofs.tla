------------------------- MODULE StuckRepairProofs -------------------------
(***************************************************************************)
(* The index and its repair, for any number of sources, edits and rows:    *)
(* nobody but the repair parts a chunk from its vector, the repair takes   *)
(* no chunk with it, and, when worker and scripts take turns, the chunks   *)
(* of a document are those of its content and what the repair deletes has  *)
(* a job.                                                                  *)
(***************************************************************************)
EXTENDS StuckRepair, FiniteSetTheorems, TLAPS

AtDocument == {"delete", "guard", "vectors", "store"}

\* Where an actor may be, and what it then has in hand.
WellPlaced(a, row) ==
    /\ row \in Doing
    /\ row.pc = "idle" => row = Idle
    /\ row.pc # "idle" => row.text \in Text
    /\ row.pc \in AtDocument => row.doc \in Id
    /\ a = "worker" => row.pc # "delete"
    /\ a = "reembed" => row.pc \notin {"upsert", "insert"}

Places == \A a \in Actor : WellPlaced(a, at[a])

\* A running job is the one the worker is at.
RunsAreHeld ==
    \A t \in Text : "running" \in jobs[t] => at["worker"] # Idle /\ at["worker"].text = t

Turns == \A a, b \in Actor : at[a] # Idle /\ at[b] # Idle => a = b

\* The document an actor is at holds the text it will store, and nothing else does.
InHand(a) ==
    /\ at[a].pc \in AtDocument =>
         docs[at[a].doc] # None /\ docs[at[a].doc].text = at[a].text
    /\ at[a].pc \in AtDocument \ {"delete"} => ChunksOf(at[a].doc) = {}

OneEmbedding ==
    \A c, e \in Id : chunk[c] # None /\ chunk[e] # None /\ chunk[c].doc = chunk[e].doc => c = e

\* What worker and re-embedding keep between them while they take turns.
TurnsKeep == Turns /\ (\A a \in Actor : InHand(a)) /\ OneEmbedding

IndexInv ==
    /\ IndexTypeOK /\ Places /\ RunsAreHeld
    /\ ChunksMatchDocument
    /\ quiet => TurnsKeep

-----------------------------------------------------------------------------
(* One actor moves.                                                        *)

\* The actor a moves to where it may be, and only it.
Acts(a) ==
    /\ at' = [at EXCEPT ![a] = at'[a]]
    /\ WellPlaced(a, at'[a])
    /\ at[a] = Idle => MayStart(a)

TablesTyped ==
    /\ docs' \in [Id -> Document \cup {None}]
    /\ chunk' \in [Id -> Chunk \cup {None}]
    /\ vec' \in [Id -> Text \cup {None}]

\* Nothing queued is lost but to the worker, and nothing runs but in it.
JobsFit ==
    /\ jobs' \in [Text -> SUBSET {"queued", "running", "failed"}]
    /\ RunsAreHeld'
    /\ \A t \in Text : "queued" \in jobs[t] => jobs'[t] \cap {"queued", "running"} # {}

LEMMA OneActs ==
    ASSUME IndexInv, NEW a \in Actor, Acts(a), TablesTyped, JobsFit,
           UNCHANGED <<latest, habits>>,
           quiet => InHand(a)' /\ ChunksMatchDocument' /\ OneEmbedding'
    PROVE  IndexInv'
<1>1. at' \in [Actor -> Doing] /\ Places' /\ (\A b \in Actor \ {a} : at'[b] = at[b])
  BY DEF IndexInv, IndexTypeOK, Acts, Places, WellPlaced
<1>2. quiet' = quiet /\ IndexTypeOK'
  BY <1>1 DEF IndexInv, IndexTypeOK, TablesTyped, JobsFit, habits
<1>3. ASSUME quiet PROVE \A b \in Actor \ {a} : at[b] = Idle
  BY <1>3 DEF IndexInv, TurnsKeep, Turns, Acts, MayStart
<1>4. ASSUME quiet PROVE Turns'
  BY <1>1, <1>3, <1>4 DEF Turns
<1>5. ASSUME quiet, NEW b \in Actor PROVE InHand(b)'
  <2>1. CASE b = a
    BY <1>5, <2>1
  <2>2. CASE b # a
    BY <1>1, <1>3, <1>5, <2>2 DEF InHand, Idle, AtDocument
  <2> QED BY <2>1, <2>2
<1> QED BY <1>1, <1>2, <1>4, <1>5 DEF IndexInv, TurnsKeep, JobsFit, ChunksMatchDocument

\* How a caller of embed_document, and a run, end.
LEMMA Leaves ==
    ASSUME IndexInv, NEW a \in Actor, at[a] # Idle,
           NEW status \in {"complete", "failed", "queued"}, Leave(a, status)
    PROVE  Acts(a) /\ at'[a] = Idle /\ JobsFit
<1>1. at' = [at EXCEPT ![a] = Idle] /\ at \in [Actor -> Doing]
  BY DEF Leave, EndRun, IndexInv, IndexTypeOK
<1>2. Idle \in Doing /\ Idle.pc = "idle"
  BY DEF Idle, Doing
<1>3. Acts(a) /\ at'[a] = Idle
  BY <1>1, <1>2 DEF Acts, WellPlaced, AtDocument
<1>4. CASE a = "worker"
  <2> DEFINE t == at["worker"].text
  <2>1. t \in Text
    BY <1>4 DEF IndexInv, Places, WellPlaced
  <2>2. jobs' = [jobs EXCEPT ![t] = (@ \ {"running"}) \cup ({status} \ {"complete"})]
    BY <1>4 DEF Leave, EndRun, JobDone
  <2>3. \A u \in Text : u # t => "running" \notin jobs[u]
    BY DEF IndexInv, RunsAreHeld
  <2>4. jobs \in [Text -> SUBSET {"queued", "running", "failed"}]
    BY DEF IndexInv, IndexTypeOK
  <2> HIDE DEF t
  <2>5. jobs' \in [Text -> SUBSET {"queued", "running", "failed"}]
    BY <2>1, <2>2, <2>4
  <2>6. \A u \in Text : "running" \notin jobs'[u]
    BY <2>1, <2>2, <2>3, <2>4
  <2>7. \A u \in Text : "queued" \in jobs[u] => "queued" \in jobs'[u]
    BY <2>1, <2>2, <2>4
  <2> QED BY <1>3, <2>5, <2>6, <2>7 DEF JobsFit, RunsAreHeld
<1>5. CASE a = "reembed"
  <2>1. jobs' = jobs /\ at'["worker"] = at["worker"]
    BY <1>1, <1>5 DEF Leave, Actor
  <2> QED BY <1>3, <2>1 DEF JobsFit, RunsAreHeld, IndexInv, IndexTypeOK
<1> QED BY <1>4, <1>5 DEF Actor

\* Moving on within a run.
LEMMA MovesOn ==
    ASSUME IndexInv, NEW a \in Actor, at[a] # Idle, NEW row, WellPlaced(a, row),
           row # Idle, row.text = at[a].text,
           at' = [at EXCEPT ![a] = row], UNCHANGED jobs
    PROVE  Acts(a) /\ at'[a] = row /\ JobsFit
<1>1. at \in [Actor -> Doing] /\ "worker" \in Actor
  BY DEF IndexInv, IndexTypeOK, Actor
<1>2. at'[a] = row /\ Acts(a)
  BY <1>1 DEF Acts
<1>3. at'["worker"] = Idle => at["worker"] = Idle
  BY <1>1
<1>4. at["worker"] # Idle => at'["worker"].text = at["worker"].text
  BY <1>1
<1> QED BY <1>2, <1>3, <1>4 DEF JobsFit, RunsAreHeld, IndexInv, IndexTypeOK

LEMMA TablesStay ==
    ASSUME IndexInv, UNCHANGED <<docs, chunk, vec, habits>>
    PROVE  /\ TablesTyped
           /\ ChunksMatchDocument'
           /\ quiet => OneEmbedding'
           /\ \A d : ChunksOf(d)' = ChunksOf(d)
  BY DEF IndexInv, IndexTypeOK, TablesTyped, ChunksMatchDocument, TurnsKeep, OneEmbedding,
         ChunksOf, habits

\* The chunks of one document go, and its row changes; the others stay.
LEMMA ChunksGo ==
    ASSUME IndexTypeOK, NEW d \in Id,
           chunk' = [c \in Id |-> IF c \in ChunksOf(d) THEN None ELSE chunk[c]]
    PROVE  /\ chunk' \in [Id -> Chunk \cup {None}]
           /\ \A c \in Id : chunk'[c] # None =>
                chunk'[c] = chunk[c] /\ chunk[c] # None /\ chunk[c].doc # d
           /\ ChunksOf(d)' = {}
<1>1. chunk \in [Id -> Chunk \cup {None}]
  BY DEF IndexTypeOK
<1> QED BY <1>1 DEF ChunksOf

-----------------------------------------------------------------------------
(* The steps of the user and the worker.                                   *)

LEMMA UserKeeps ==
    ASSUME IndexInv, NEW s \in Source, EditSource(s) \/ SubmitIngest(s), UNCHANGED habits
    PROVE  IndexInv' /\ JobsFit
<1>1. latest' \in [Source -> Version]
  BY IndexAssumption DEF IndexInv, IndexTypeOK, EditSource, SubmitIngest, Version
<1>2. JobsFit
  <2>1. CASE EditSource(s)
    BY <2>1 DEF EditSource, IndexInv, IndexTypeOK, JobsFit, RunsAreHeld
  <2>2. CASE SubmitIngest(s)
    <3> DEFINE t == [src |-> s, v |-> latest[s]]
    <3>1. t \in Text
      BY DEF IndexInv, IndexTypeOK, Text
    <3>2. jobs' = [jobs EXCEPT ![t] = @ \cup {"queued"}] /\ UNCHANGED at
      BY <2>2 DEF SubmitIngest
    <3>3. jobs \in [Text -> SUBSET {"queued", "running", "failed"}]
      BY DEF IndexInv, IndexTypeOK
    <3> HIDE DEF t
    <3>4. \A u \in Text : "running" \in jobs'[u] => "running" \in jobs[u]
      BY <3>1, <3>2, <3>3
    <3> QED BY <3>1, <3>2, <3>3, <3>4 DEF JobsFit, RunsAreHeld, IndexInv
  <2> QED BY <2>1, <2>2
<1>3. UNCHANGED <<docs, chunk, vec, at>>
  BY DEF EditSource, SubmitIngest
<1>4. IndexTypeOK' /\ quiet' = quiet
  BY <1>1, <1>2, <1>3 DEF IndexInv, IndexTypeOK, JobsFit, habits
<1>5. \A a \in Actor : InHand(a) => InHand(a)'
  BY <1>3, TablesStay DEF InHand
<1>6. Places' /\ (Turns => Turns')
  BY <1>3 DEF IndexInv, Places, WellPlaced, Turns
<1> QED BY <1>2, <1>3, <1>4, <1>5, <1>6, TablesStay DEF IndexInv, JobsFit, TurnsKeep

LEMMA TakeJobKeeps ==
    ASSUME IndexInv, NEW t \in Text, TakeJob(t), UNCHANGED habits
    PROVE  IndexInv' /\ JobsFit
<1> DEFINE row == [pc |-> "upsert", doc |-> 0, text |-> t]
<1>1. row \in Doing /\ row.pc = "upsert" /\ row.text = t /\ row # Idle
  BY DEF Doing, Idle
<1>2. at' = [at EXCEPT !["worker"] = row] /\ MayStart("worker")
      /\ jobs' = [jobs EXCEPT ![t] = (@ \ {"queued"}) \cup {"running"}]
      /\ UNCHANGED <<latest, docs, chunk, vec>>
  BY DEF TakeJob
<1> HIDE DEF row
<1>3. "worker" \in Actor /\ at \in [Actor -> Doing]
      /\ jobs \in [Text -> SUBSET {"queued", "running", "failed"}]
  BY DEF Actor, IndexInv, IndexTypeOK
<1>4. at'["worker"] = row
  BY <1>2, <1>3
<1>5. Acts("worker")
  BY <1>1, <1>2, <1>4 DEF Acts, WellPlaced, AtDocument
<1>6. \A u \in Text : "running" \notin jobs[u]
  BY <1>2 DEF IndexInv, RunsAreHeld, MayStart
<1>7. jobs' \in [Text -> SUBSET {"queued", "running", "failed"}]
      /\ (\A u \in Text : "running" \in jobs'[u] => u = t)
      /\ (\A u \in Text : "queued" \in jobs[u] => jobs'[u] \cap {"queued", "running"} # {})
  BY <1>2, <1>3, <1>6
<1>8. JobsFit
  BY <1>1, <1>4, <1>7 DEF JobsFit, RunsAreHeld
<1>9. InHand("worker")'
  BY <1>1, <1>4 DEF InHand, AtDocument
<1> QED BY <1>2, <1>3, <1>5, <1>8, <1>9, TablesStay, OneActs

\* A run, or a caller of embed_document, ends and leaves the tables as they are.
LEMMA EndingKeeps ==
    ASSUME IndexInv, NEW a \in Actor, at[a] # Idle,
           NEW status \in {"complete", "failed", "queued"}, Leave(a, status),
           UNCHANGED <<latest, docs, chunk, vec, habits>>
    PROVE  IndexInv' /\ JobsFit
<1>1. Acts(a) /\ at'[a] = Idle /\ JobsFit
  BY Leaves
<1>2. InHand(a)'
  BY <1>1 DEF InHand, Idle, AtDocument
<1> QED BY <1>1, <1>2, TablesStay, OneActs

LEMMA AlreadyIngestedKeeps ==
    ASSUME IndexInv, AlreadyIngested, UNCHANGED habits
    PROVE  IndexInv' /\ JobsFit
<1>1. Leave("worker", "complete") /\ at["worker"] # Idle /\ "worker" \in Actor
  BY DEF AlreadyIngested, Leave, Idle, Actor
<1> QED BY <1>1, EndingKeeps DEF AlreadyIngested

LEMMA InsertKeeps ==
    ASSUME IndexInv, at["worker"].pc \in {"upsert", "insert"},
           InsertDocument("worker", at["worker"].text),
           UNCHANGED <<latest, jobs, chunk, vec, habits>>
    PROVE  IndexInv' /\ JobsFit
<1> DEFINE t == at["worker"].text
<1>1. "worker" \in Actor /\ at["worker"] # Idle
  BY DEF Actor, Idle
<1>2. t \in Text /\ IndexTypeOK
  BY <1>1 DEF IndexInv, Places, WellPlaced
<1>3. PICK d \in Id :
        /\ IsNextId(docs, d)
        /\ docs' = [docs EXCEPT ![d] = [text |-> t, status |-> "ingesting"]]
        /\ at' = [at EXCEPT !["worker"] = [pc |-> "guard", doc |-> d, text |-> t]]
  BY DEF InsertDocument
<1> DEFINE row == [pc |-> "guard", doc |-> d, text |-> t]
           new == [text |-> t, status |-> "ingesting"]
<1>4. row \in Doing /\ row.pc = "guard" /\ row.doc = d /\ row.text = t /\ row # Idle
      /\ WellPlaced("worker", row)
  BY <1>2 DEF Doing, Idle, WellPlaced, AtDocument
<1>5. new \in Document /\ new # None /\ new.text = t
  BY <1>2 DEF Document, None
<1> HIDE DEF row, new
<1>6. Acts("worker") /\ at'["worker"] = row /\ JobsFit
  BY <1>1, <1>3, <1>4, MovesOn DEF row
<1>7. docs \in [Id -> Document \cup {None}] /\ docs[d] = None
      /\ docs' = [docs EXCEPT ![d] = new]
  BY <1>2, <1>3 DEF IndexTypeOK, IsNextId, new
<1>8. docs'[d] = new /\ TablesTyped
  BY <1>2, <1>5, <1>7 DEF TablesTyped, IndexTypeOK
<1>9. ASSUME quiet PROVE InHand("worker")' /\ ChunksMatchDocument' /\ OneEmbedding'
  <2>1. \A c \in Id : chunk[c] # None => chunk[c].doc # d
    BY <1>7, <1>9 DEF IndexInv, ChunksMatchDocument
  <2>2. ChunksOf(d)' = {}
    BY <2>1 DEF ChunksOf
  <2>3. InHand("worker")'
    BY <1>4, <1>5, <1>6, <1>8, <2>2 DEF InHand
  <2>4. \A c \in Id : chunk[c] # None => chunk[c].doc \in Id
    BY <1>2 DEF IndexTypeOK, Chunk
  <2>5. ChunksMatchDocument'
    BY <1>7, <1>9, <2>1, <2>4 DEF IndexInv, ChunksMatchDocument
  <2> QED BY <1>9, <2>3, <2>5 DEF OneEmbedding, IndexInv, TurnsKeep
<1> QED BY <1>1, <1>6, <1>8, <1>9, OneActs

LEMMA ExtractFailsKeeps ==
    ASSUME IndexInv, ExtractFails, UNCHANGED habits
    PROVE  IndexInv' /\ JobsFit
<1> DEFINE t == at["worker"].text
<1>1. "worker" \in Actor /\ at["worker"] # Idle /\ Leave("worker", "failed")
  BY DEF Actor, Idle, ExtractFails, Upserting, Leave
<1>2. t \in Text /\ IndexTypeOK
  BY <1>1 DEF IndexInv, Places, WellPlaced, ExtractFails, Upserting
<1>3. PICK d \in Id :
        /\ IsNextId(docs, d)
        /\ docs' = [docs EXCEPT ![d] = [text |-> t, status |-> "failed"]]
  BY DEF ExtractFails
<1> DEFINE new == [text |-> t, status |-> "failed"]
<1>4. new \in Document
  BY <1>2 DEF Document
<1> HIDE DEF new
<1>5. Acts("worker") /\ at'["worker"] = Idle /\ JobsFit
  BY <1>1, Leaves
<1>6. docs \in [Id -> Document \cup {None}] /\ docs[d] = None
      /\ docs' = [docs EXCEPT ![d] = new] /\ UNCHANGED <<latest, chunk, vec>>
  BY <1>2, <1>3 DEF IndexTypeOK, IsNextId, new, ExtractFails
<1>7. TablesTyped
  BY <1>2, <1>4, <1>6 DEF TablesTyped, IndexTypeOK
<1>8. ASSUME quiet PROVE InHand("worker")' /\ ChunksMatchDocument' /\ OneEmbedding'
  <2>1. \A c \in Id : chunk[c] # None => chunk[c].doc # d
    BY <1>6, <1>8 DEF IndexInv, ChunksMatchDocument
  <2>2. \A c \in Id : chunk[c] # None => chunk[c].doc \in Id
    BY <1>2 DEF IndexTypeOK, Chunk
  <2>3. InHand("worker")'
    BY <1>5 DEF InHand, Idle, AtDocument
  <2>4. ChunksMatchDocument'
    BY <1>6, <1>8, <2>1, <2>2 DEF IndexInv, ChunksMatchDocument
  <2> QED BY <1>6, <1>8, <2>3, <2>4 DEF OneEmbedding, IndexInv, TurnsKeep
<1> QED BY <1>1, <1>5, <1>6, <1>7, <1>8, OneActs

LEMMA RefreshKeeps ==
    ASSUME IndexInv, RefreshDocument, UNCHANGED habits
    PROVE  IndexInv' /\ JobsFit
<1> DEFINE t == at["worker"].text
<1>1. "worker" \in Actor /\ at["worker"].pc = "upsert" /\ at["worker"] # Idle
  BY DEF Actor, Idle, RefreshDocument, Upserting
<1>2. t \in Text /\ IndexTypeOK /\ at["worker"] \in Doing /\ at \in [Actor -> Doing]
  BY <1>1 DEF IndexInv, IndexTypeOK, Places, WellPlaced
<1>3. PICK d \in Find(t) :
        /\ DeleteChunks(d)
        /\ docs' = [docs EXCEPT ![d] = [text |-> t, status |-> "ingesting"]]
        /\ at' = [at EXCEPT !["worker"].pc = "guard", !["worker"].doc = d]
  BY DEF RefreshDocument
<1> DEFINE row == [at["worker"] EXCEPT !.pc = "guard", !.doc = d]
           new == [text |-> t, status |-> "ingesting"]
<1>4. d \in Id
  BY DEF Find
<1>5. row \in Doing /\ row.pc = "guard" /\ row.doc = d /\ row.text = t
  BY <1>2, <1>4 DEF Doing
<1>6. at' = [at EXCEPT !["worker"] = row]
  BY <1>1, <1>2, <1>3
<1>7. new \in Document /\ new # None /\ new.text = t
  BY <1>2 DEF Document, None
<1>8. docs' = [docs EXCEPT ![d] = new] /\ UNCHANGED <<latest, jobs>>
  BY <1>3 DEF RefreshDocument
<1> HIDE DEF row, new
<1>9. WellPlaced("worker", row) /\ row # Idle
  BY <1>2, <1>4, <1>5 DEF WellPlaced, AtDocument, Idle
<1>10. Acts("worker") /\ at'["worker"] = row /\ JobsFit
  BY <1>1, <1>5, <1>6, <1>8, <1>9, MovesOn
<1>11. /\ chunk' \in [Id -> Chunk \cup {None}]
       /\ ChunksOf(d)' = {}
       /\ \A c \in Id : chunk'[c] # None =>
            chunk'[c] = chunk[c] /\ chunk[c] # None /\ chunk[c].doc # d
  BY <1>2, <1>3, <1>4, ChunksGo DEF DeleteChunks
<1>12. TablesTyped
  BY <1>2, <1>3, <1>4, <1>7, <1>8, <1>11 DEF TablesTyped, IndexTypeOK, DeleteChunks
<1>13. docs'[d] = new /\ (\A e \in Id : e # d => docs'[e] = docs[e])
  BY <1>2, <1>4, <1>8 DEF IndexTypeOK
<1>14. ASSUME quiet PROVE InHand("worker")' /\ ChunksMatchDocument' /\ OneEmbedding'
  <2>1. InHand("worker")'
    BY <1>5, <1>7, <1>10, <1>11, <1>13 DEF InHand
  <2>2. \A c \in Id : chunk[c] # None => chunk[c].doc \in Id
    BY <1>2 DEF IndexTypeOK, Chunk
  <2>3. ChunksMatchDocument'
    BY <1>11, <1>13, <1>14, <2>2 DEF IndexInv, ChunksMatchDocument
  <2>4. OneEmbedding'
    BY <1>11, <1>14 DEF OneEmbedding, IndexInv, TurnsKeep
  <2> QED BY <2>1, <2>3, <2>4
<1> QED BY <1>1, <1>8, <1>10, <1>12, <1>14, OneActs

LEMMA ReplaceKeeps ==
    ASSUME IndexInv, ReplaceEntry, UNCHANGED habits
    PROVE  IndexInv' /\ JobsFit
<1> DEFINE t == at["worker"].text
<1>1. "worker" \in Actor /\ at["worker"].pc = "upsert" /\ at["worker"] # Idle
  BY DEF Actor, Idle, ReplaceEntry, Upserting
<1>2. t \in Text /\ IndexTypeOK /\ at["worker"] \in Doing /\ at \in [Actor -> Doing]
  BY <1>1 DEF IndexInv, IndexTypeOK, Places, WellPlaced
<1>3. PICK d \in Find(t) :
        /\ docs' = [docs EXCEPT ![d] = None]
        /\ chunk' = [c \in Id |-> IF c \in ChunksOf(d) THEN None ELSE chunk[c]]
        /\ at' = [at EXCEPT !["worker"].pc = "insert"]
  BY DEF ReplaceEntry
<1> DEFINE row == [at["worker"] EXCEPT !.pc = "insert"]
<1>4. d \in Id /\ UNCHANGED <<latest, jobs, vec>>
  BY DEF Find, ReplaceEntry
<1>5. row \in Doing /\ row.pc = "insert" /\ row.text = t
  BY <1>2 DEF Doing
<1>6. at' = [at EXCEPT !["worker"] = row]
  BY <1>1, <1>2, <1>3
<1> HIDE DEF row
<1>7. WellPlaced("worker", row) /\ row # Idle
  BY <1>2, <1>5 DEF WellPlaced, AtDocument, Idle
<1>8. Acts("worker") /\ at'["worker"] = row /\ JobsFit
  BY <1>1, <1>4, <1>5, <1>6, <1>7, MovesOn
<1>9. /\ chunk' \in [Id -> Chunk \cup {None}]
      /\ \A c \in Id : chunk'[c] # None =>
           chunk'[c] = chunk[c] /\ chunk[c] # None /\ chunk[c].doc # d
  BY <1>2, <1>3, <1>4, ChunksGo
<1>10. TablesTyped
  BY <1>2, <1>3, <1>4, <1>9 DEF TablesTyped, IndexTypeOK
<1>11. \A e \in Id : e # d => docs'[e] = docs[e]
  BY <1>2, <1>3, <1>4 DEF IndexTypeOK
<1>12. ASSUME quiet PROVE InHand("worker")' /\ ChunksMatchDocument' /\ OneEmbedding'
  <2>1. InHand("worker")'
    BY <1>5, <1>8 DEF InHand, AtDocument
  <2>2. \A c \in Id : chunk[c] # None => chunk[c].doc \in Id
    BY <1>2 DEF IndexTypeOK, Chunk
  <2>3. ChunksMatchDocument'
    BY <1>9, <1>11, <1>12, <2>2 DEF IndexInv, ChunksMatchDocument
  <2>4. OneEmbedding'
    BY <1>9, <1>12 DEF OneEmbedding, IndexInv, TurnsKeep
  <2> QED BY <2>1, <2>3, <2>4
<1> QED BY <1>1, <1>4, <1>8, <1>10, <1>12, OneActs

-----------------------------------------------------------------------------
(* The steps of embed_document, in either process, and of the re-embedding. *)

\* The actor goes on with its document, and the tables stay as they are.
LEMMA GoingOnKeeps ==
    ASSUME IndexInv, NEW a \in Actor, at[a].pc \in AtDocument,
           NEW pc \in {"vectors", "store"}, at' = [at EXCEPT ![a].pc = pc],
           quiet => ChunksOf(at[a].doc) = {},
           UNCHANGED <<latest, jobs, docs, chunk, vec, habits>>
    PROVE  IndexInv' /\ JobsFit
<1> DEFINE row == [at[a] EXCEPT !.pc = pc]
<1>1. at \in [Actor -> Doing] /\ at[a] \in Doing /\ at[a] # Idle /\ WellPlaced(a, at[a])
  BY DEF IndexInv, IndexTypeOK, Places, AtDocument, Idle
<1>2. row \in Doing /\ row.pc = pc /\ row.doc = at[a].doc /\ row.text = at[a].text
  BY <1>1 DEF Doing
<1>3. at' = [at EXCEPT ![a] = row]
  BY <1>1
<1> HIDE DEF row
<1>4. WellPlaced(a, row) /\ row # Idle
  BY <1>1, <1>2 DEF WellPlaced, AtDocument, Idle
<1>5. Acts(a) /\ at'[a] = row /\ JobsFit
  BY <1>1, <1>2, <1>3, <1>4, MovesOn
<1>6. quiet => InHand(a)'
  BY <1>2, <1>5, TablesStay DEF InHand, IndexInv, TurnsKeep
<1> QED BY <1>5, <1>6, TablesStay, OneActs

LEMMA RaiseKeeps ==
    ASSUME IndexInv, NEW a \in Actor, at[a] # Idle, Raise(a),
           UNCHANGED <<latest, docs, chunk, vec, habits>>
    PROVE  IndexInv' /\ JobsFit
<1>1. PICK status \in {"complete", "failed", "queued"} : Leave(a, status)
  BY DEF Raise
<1> QED BY <1>1, EndingKeeps

\* Chunk and vector are stored for a document that is still there.
LEMMA StoredKeeps ==
    ASSUME IndexInv, NEW a \in Actor, at[a].pc = "store", NEW c \in Id,
           IsNextId(chunk, c), docs[at[a].doc] # None,
           chunk' = [chunk EXCEPT ![c] = [doc |-> at[a].doc, text |-> at[a].text]],
           vec' = [vec EXCEPT ![c] = at[a].text],
           docs' = [docs EXCEPT ![at[a].doc].status = "embedded"],
           Leave(a, "complete"), UNCHANGED <<latest, habits>>
    PROVE  IndexInv' /\ JobsFit
<1> DEFINE d == at[a].doc
           t == at[a].text
           new == [doc |-> d, text |-> t]
           row == [docs[d] EXCEPT !.status = "embedded"]
<1>1. at[a] # Idle /\ WellPlaced(a, at[a]) /\ IndexTypeOK
  BY DEF Idle, IndexInv, Places
<1>2. t \in Text /\ d \in Id
  BY <1>1 DEF WellPlaced, AtDocument
<1>3. docs[d] \in Document
  BY <1>1, <1>2 DEF IndexTypeOK
<1>4. row \in Document /\ row # None /\ row.text = docs[d].text /\ row.status = "embedded"
  BY <1>3 DEF Document, None
<1>5. docs' = [docs EXCEPT ![d] = row]
  BY <1>1, <1>2 DEF IndexTypeOK
<1>6. new \in Chunk /\ new.doc = d /\ new.text = t
  BY <1>2 DEF Chunk
<1>7. chunk[c] = None /\ chunk' = [chunk EXCEPT ![c] = new] /\ vec' = [vec EXCEPT ![c] = t]
  BY DEF IsNextId
<1>8. quiet => InHand(a)
  BY DEF IndexInv, TurnsKeep
<1>9. quiet => docs[d].text = t /\ ChunksOf(d) = {}
  BY <1>8 DEF InHand, AtDocument
<1>10. Acts(a) /\ at'[a] = Idle /\ JobsFit
  BY <1>1, Leaves
<1> HIDE DEF d, t, new, row
<1>11. TablesTyped
  BY <1>1, <1>2, <1>4, <1>5, <1>6, <1>7 DEF TablesTyped, IndexTypeOK
<1>12. docs'[d] = row /\ (\A e \in Id : e # d => docs'[e] = docs[e])
  BY <1>1, <1>2, <1>5 DEF IndexTypeOK
<1>13. chunk'[c] = new /\ (\A e \in Id : e # c => chunk'[e] = chunk[e])
  BY <1>1, <1>7 DEF IndexTypeOK
<1>14. ASSUME quiet PROVE InHand(a)' /\ ChunksMatchDocument' /\ OneEmbedding'
  <2>1. InHand(a)'
    BY <1>10 DEF InHand, Idle, AtDocument
  <2>2. \A e \in Id : chunk[e] # None => chunk[e].doc \in Id /\ chunk[e].doc # d
    BY <1>1, <1>9, <1>14 DEF IndexTypeOK, Chunk, ChunksOf
  <2>3. ChunksMatchDocument'
    <3> SUFFICES ASSUME NEW e \in Id, chunk'[e] # None
                 PROVE  /\ docs'[chunk'[e].doc] # None
                        /\ chunk'[e].text = docs'[chunk'[e].doc].text
                        /\ docs'[chunk'[e].doc].status # "ingesting"
      BY DEF ChunksMatchDocument
    <3>1. CASE e = c
      BY <1>4, <1>6, <1>9, <1>12, <1>13, <1>14, <3>1
    <3>2. CASE e # c
      BY <1>12, <1>13, <1>14, <2>2, <3>2 DEF IndexInv, ChunksMatchDocument
    <3> QED BY <3>1, <3>2
  <2>4. OneEmbedding'
    BY <1>6, <1>13, <1>14, <2>2 DEF OneEmbedding, IndexInv, TurnsKeep
  <2> QED BY <2>1, <2>3, <2>4
<1> QED BY <1>10, <1>11, <1>14, OneActs

LEMMA EmbedKeeps ==
    ASSUME IndexInv, NEW a \in Actor, EmbedDocument(a) \/ Die(a), UNCHANGED habits
    PROVE  IndexInv' /\ JobsFit
<1>1. CASE EmbedGuard(a)
  <2>1. at[a].pc \in AtDocument /\ at[a] # Idle
    BY <1>1 DEF EmbedGuard, AtDocument, Idle
  <2>2. CASE ChunksOf(at[a].doc) # {}
    BY <1>1, <2>1, <2>2, EndingKeeps DEF EmbedGuard
  <2>3. CASE ChunksOf(at[a].doc) = {}
    BY <1>1, <2>1, <2>3, GoingOnKeeps DEF EmbedGuard
  <2> QED BY <2>2, <2>3
<1>2. CASE ComputeVectors(a)
  <2>1. at[a].pc = "vectors" /\ at[a].pc \in AtDocument
    BY <1>2 DEF ComputeVectors, AtDocument
  <2>2. quiet => ChunksOf(at[a].doc) = {}
    BY <2>1 DEF IndexInv, TurnsKeep, InHand, AtDocument
  <2> QED BY <1>2, <2>1, <2>2, GoingOnKeeps DEF ComputeVectors
<1>3. CASE EmbedFails(a)
  <2>1. at[a] # Idle /\ (Raise(a) \/ Leave(a, "queued"))
        /\ UNCHANGED <<latest, docs, chunk, vec>>
    BY <1>3 DEF EmbedFails, Idle
  <2>2. CASE Raise(a)
    BY <2>1, <2>2, RaiseKeeps
  <2>3. CASE Leave(a, "queued")
    BY <2>1, <2>3, EndingKeeps
  <2> QED BY <2>1, <2>2, <2>3
<1>4. CASE Store(a)
  <2>1. at[a] # Idle /\ at[a].pc = "store" /\ UNCHANGED latest
    BY <1>4 DEF Store, Idle
  <2>2. CASE docs[at[a].doc] = None
    BY <1>4, <2>1, <2>2, RaiseKeeps DEF Store
  <2>3. CASE docs[at[a].doc] # None
    BY <1>4, <2>1, <2>3, StoredKeeps DEF Store
  <2> QED BY <2>2, <2>3
<1>5. CASE Die(a)
  BY <1>5, EndingKeeps DEF Die
<1> QED BY <1>1, <1>2, <1>3, <1>4, <1>5 DEF EmbedDocument

LEMMA ReembedReadKeeps ==
    ASSUME IndexInv, NEW d \in Id, ReembedRead(d), UNCHANGED habits
    PROVE  IndexInv' /\ JobsFit
<1>1. PICK c \in ChunksOf(d) :
        at' = [at EXCEPT !["reembed"] = [pc |-> "delete", doc |-> d, text |-> chunk[c].text]]
  BY DEF ReembedRead
<1> DEFINE row == [pc |-> "delete", doc |-> d, text |-> chunk[c].text]
<1>2. IndexTypeOK /\ at \in [Actor -> Doing] /\ "reembed" \in Actor /\ "worker" \in Actor
  BY DEF IndexInv, IndexTypeOK, Actor
<1>3. c \in Id /\ chunk[c] # None /\ chunk[c] \in Chunk /\ chunk[c].doc = d
  BY <1>2 DEF ChunksOf, IndexTypeOK
<1>4. row \in Doing /\ row.pc = "delete" /\ row.doc = d /\ row.text = chunk[c].text
      /\ row.text \in Text
  BY <1>3 DEF Doing, Chunk
<1>5. MayStart("reembed") /\ UNCHANGED <<latest, jobs, docs, chunk, vec>> /\ docs[d] # None
  BY DEF ReembedRead
<1>6. at' = [at EXCEPT !["reembed"] = row]
  BY <1>1
<1> HIDE DEF row
<1>7. at'["reembed"] = row /\ at'["worker"] = at["worker"]
  BY <1>2, <1>6
<1>8. Acts("reembed")
  BY <1>4, <1>5, <1>6, <1>7 DEF Acts, WellPlaced, AtDocument
<1>9. JobsFit
  BY <1>2, <1>5, <1>7 DEF JobsFit, RunsAreHeld, IndexInv, IndexTypeOK
<1>10. quiet => InHand("reembed")'
  BY <1>3, <1>4, <1>5, <1>7 DEF InHand, IndexInv, ChunksMatchDocument
<1> QED BY <1>2, <1>5, <1>8, <1>9, <1>10, TablesStay, OneActs

LEMMA ReembedDeleteKeeps ==
    ASSUME IndexInv, ReembedDelete, UNCHANGED habits
    PROVE  IndexInv' /\ JobsFit
<1> DEFINE row == [at["reembed"] EXCEPT !.pc = "guard"]
<1>1. "reembed" \in Actor /\ at["reembed"].pc = "delete" /\ at["reembed"] # Idle
  BY DEF Actor, Idle, ReembedDelete
<1>2. IndexTypeOK /\ at \in [Actor -> Doing] /\ at["reembed"] \in Doing
      /\ WellPlaced("reembed", at["reembed"])
  BY <1>1 DEF IndexInv, IndexTypeOK, Places
<1>3. PICK d \in Id :
        at["reembed"].doc = d /\ DeleteChunks(d) /\ UNCHANGED <<latest, jobs, docs>>
  BY <1>1, <1>2 DEF WellPlaced, AtDocument, ReembedDelete
<1>4. row \in Doing /\ row.pc = "guard" /\ row.doc = d /\ row.text = at["reembed"].text
  BY <1>2, <1>3 DEF Doing
<1>5. at' = [at EXCEPT !["reembed"] = row]
  BY <1>1, <1>2 DEF ReembedDelete
<1>6. quiet => docs[d] # None /\ docs[d].text = at["reembed"].text
  BY <1>1, <1>3 DEF IndexInv, TurnsKeep, InHand, AtDocument
<1> HIDE DEF row
<1>7. WellPlaced("reembed", row) /\ row # Idle
  BY <1>1, <1>2, <1>3, <1>4 DEF WellPlaced, AtDocument, Idle
<1>8. Acts("reembed") /\ at'["reembed"] = row /\ JobsFit
  BY <1>1, <1>3, <1>4, <1>5, <1>7, MovesOn
<1>9. /\ chunk' \in [Id -> Chunk \cup {None}]
      /\ ChunksOf(d)' = {}
      /\ \A c \in Id : chunk'[c] # None =>
           chunk'[c] = chunk[c] /\ chunk[c] # None /\ chunk[c].doc # d
  BY <1>2, <1>3, ChunksGo DEF DeleteChunks
<1>10. TablesTyped
  BY <1>2, <1>3, <1>9 DEF TablesTyped, IndexTypeOK, DeleteChunks
<1>11. ASSUME quiet PROVE InHand("reembed")' /\ ChunksMatchDocument' /\ OneEmbedding'
  <2>1. InHand("reembed")'
    BY <1>3, <1>4, <1>6, <1>8, <1>9, <1>11 DEF InHand
  <2>2. ChunksMatchDocument'
    BY <1>3, <1>9, <1>11 DEF IndexInv, ChunksMatchDocument
  <2>3. OneEmbedding'
    BY <1>9, <1>11 DEF OneEmbedding, IndexInv, TurnsKeep
  <2> QED BY <2>1, <2>2, <2>3
<1> QED BY <1>1, <1>3, <1>8, <1>10, <1>11, OneActs

LEMMA IndexKeeps ==
    ASSUME IndexInv, IndexNext
    PROVE  IndexInv' /\ JobsFit
<1> USE DEF IndexNext
<1>1. "worker" \in Actor /\ "reembed" \in Actor
  BY DEF Actor
<1>2. CASE User
  BY <1>2, UserKeeps DEF User
<1>3. CASE Reembed
  BY <1>1, <1>3, ReembedReadKeeps, ReembedDeleteKeeps, EmbedKeeps DEF Reembed
<1>4. CASE Worker
  <2>1. ASSUME NEW t \in Text, TakeJob(t) PROVE IndexInv' /\ JobsFit
    BY <2>1, TakeJobKeeps
  <2>2. CASE AlreadyIngested
    BY <2>2, AlreadyIngestedKeeps
  <2>3. CASE NewDocument
    BY <2>3, InsertKeeps DEF NewDocument
  <2>4. CASE ExtractFails
    BY <2>4, ExtractFailsKeeps
  <2>5. CASE RefreshDocument
    BY <2>5, RefreshKeeps
  <2>6. CASE ReplaceEntry
    BY <2>6, ReplaceKeeps
  <2>7. CASE InsertEntry
    BY <2>7, InsertKeeps DEF InsertEntry
  <2>8. CASE EmbedDocument("worker") \/ Die("worker")
    BY <1>1, <2>8, EmbedKeeps
  <2> QED BY <1>4, <2>1, <2>2, <2>3, <2>4, <2>5, <2>6, <2>7, <2>8 DEF Worker
<1> QED BY <1>2, <1>3, <1>4

-----------------------------------------------------------------------------
(* The repair.                                                             *)

\* The repair takes its turn too.
RepairTurns == repair # NoPlan => \A a \in Actor : at[a] = Idle

\* What is to be deleted is there, and a job for it will be submitted.
PlanStands ==
    repair.pc = "apply" => \A d \in repair.docs :
        docs[d] # None /\ \E u \in repair.todo : u.src = docs[d].text.src

\* The job an owed document has cannot be one that runs: that one has taken it up.
OwedIsQueued ==
    \A t \in owed :
        /\ \A u \in Text : u.src = t.src => "running" \notin jobs[u]
        /\ \E u \in Text : u.src = t.src /\ ("queued" \in jobs[u] \/ u \in repair.todo)

RepairPlaced == repair.pc = "idle" => repair = NoPlan

\* This much holds even if the script may die with its plan ...
RepairSound ==
    /\ IndexInv /\ RepairTypeOK /\ RepairPlaced
    /\ quiet => RepairTurns /\ PlanStands

\* ... and this if it does not.
RepairInv == RepairSound /\ (quiet => OwedIsQueued)

\* What a step keeps of the two.
KeepsRepair == RepairSound' /\ (quiet /\ OwedIsQueued => OwedIsQueued')

RepairTyped(r) ==
    r \in [pc : {"idle", "apply", "submit"}, docs : SUBSET Id, orphans : SUBSET Id, todo : SUBSET Text]

LEMMA NoPlanIsTyped ==
    RepairTyped(NoPlan) /\ NoPlan.pc = "idle" /\ NoPlan.docs = {} /\ NoPlan.todo = {}
  BY DEF RepairTyped, NoPlan

\* One commit of the loop that submits: each job of the plan is pending, is
\* submitted, or is left for the next.
LEMMA SubmitFits ==
    ASSUME RepairSound, NEW todo \in SUBSET Text, SubmitFresh(todo), UNCHANGED at
    PROVE  /\ JobsFit
           /\ \A u \in Text : "running" \in jobs'[u] <=> "running" \in jobs[u]
           /\ \A u \in Text : "queued" \in jobs[u] => "queued" \in jobs'[u]
           /\ \A u \in todo : Pending(u) \/ "queued" \in jobs'[u] \/ u \in repair'.todo
           /\ RepairTyped(repair') /\ RepairPlaced' /\ repair'.pc # "apply"
<1> DEFINE fresh == {t \in todo : ~Pending(t)}
<1>1. jobs \in [Text -> SUBSET {"queued", "running", "failed"}] /\ RunsAreHeld
  BY DEF RepairSound, IndexInv, IndexTypeOK
<1>2. CASE fresh = {}
  <2>1. repair' = NoPlan /\ UNCHANGED jobs /\ (\A u \in todo : Pending(u))
    BY <1>2 DEF SubmitFresh
  <2> QED BY <1>1, <2>1, NoPlanIsTyped DEF JobsFit, RunsAreHeld, RepairPlaced
<1>3. CASE fresh # {}
  <2>1. PICK t \in fresh :
          /\ jobs' = [jobs EXCEPT ![t] = @ \cup {"queued"}]
          /\ repair' = IF fresh = {t} THEN NoPlan
                       ELSE [NoPlan EXCEPT !.pc = "submit", !.todo = fresh \ {t}]
    BY <1>3 DEF SubmitFresh
  <2> DEFINE rest == [NoPlan EXCEPT !.pc = "submit", !.todo = fresh \ {t}]
  <2>2. RepairTyped(rest) /\ rest.pc = "submit" /\ rest.todo = fresh \ {t}
    BY DEF RepairTyped, NoPlan
  <2>3. (repair' = NoPlan /\ fresh = {t}) \/ repair' = rest
    BY <2>1
  <2> HIDE DEF rest
  <2>4. RepairTyped(repair') /\ RepairPlaced' /\ repair'.pc # "apply"
    BY <2>2, <2>3, NoPlanIsTyped DEF RepairPlaced
  <2>5. \A u \in todo : Pending(u) \/ u = t \/ u \in repair'.todo
    BY <2>2, <2>3
  <2>6. t \in Text
    OBVIOUS
  <2> HIDE DEF fresh
  <2>7. jobs' \in [Text -> SUBSET {"queued", "running", "failed"}]
        /\ (\A u \in Text : "running" \in jobs'[u] <=> "running" \in jobs[u])
        /\ (\A u \in Text : "queued" \in jobs[u] => "queued" \in jobs'[u])
        /\ "queued" \in jobs'[t]
    BY <1>1, <2>1, <2>6
  <2>8. JobsFit
    BY <1>1, <2>7 DEF JobsFit, RunsAreHeld
  <2> QED BY <2>4, <2>5, <2>7, <2>8
<1> QED BY <1>2, <1>3

LEMMA BuildPlanKeeps ==
    ASSUME RepairSound, BuildPlan, UNCHANGED habits
    PROVE  KeepsRepair
<1>1. PICK old \in SUBSET Partial : \E todo \in SUBSET UNION {Matching(d) : d \in old} :
        /\ \A d \in old : Cardinality(todo \cap Matching(d)) = 1
        /\ repair' = [pc |-> "apply", docs |-> old, orphans |-> Orphans, todo |-> todo]
  BY DEF BuildPlan
<1>2. PICK todo \in SUBSET UNION {Matching(d) : d \in old} :
        /\ \A d \in old : Cardinality(todo \cap Matching(d)) = 1
        /\ repair' = [pc |-> "apply", docs |-> old, orphans |-> Orphans, todo |-> todo]
  BY <1>1
<1>3. todo \subseteq Text /\ old \subseteq Id /\ Orphans \subseteq Id
  BY DEF Matching, Partial, Orphans
<1>4. RepairTyped(repair') /\ repair'.pc = "apply" /\ repair'.docs = old /\ repair'.todo = todo
  BY <1>2, <1>3 DEF RepairTyped
<1>5. \A d \in old : docs[d] # None /\ \E u \in todo : u.src = docs[d].text.src
  <2> SUFFICES ASSUME NEW d \in old
               PROVE  docs[d] # None /\ \E u \in todo : u.src = docs[d].text.src
    OBVIOUS
  <2>1. todo \cap Matching(d) # {}
    BY <1>2, FS_EmptySet
  <2> QED BY <2>1 DEF Partial, Matching
<1>6. UNCHANGED <<indexVars, owed>> /\ repair = NoPlan /\ (quiet => \A a \in Actor : at[a] = Idle)
  BY DEF BuildPlan, indexVars
<1>7. IndexInv' /\ quiet' = quiet
  BY <1>6 DEF RepairSound, IndexInv, indexVars, habits, IndexTypeOK, Places, RunsAreHeld,
              ChunksMatchDocument, TurnsKeep, Turns, InHand, OneEmbedding, ChunksOf, WellPlaced
<1>8. RepairTypeOK' /\ RepairPlaced'
  BY <1>4, <1>6, <1>7 DEF RepairSound, RepairTypeOK, RepairTyped, RepairPlaced, IndexInv
<1>9. quiet => RepairTurns' /\ PlanStands'
  BY <1>4, <1>5, <1>6 DEF RepairTurns, PlanStands, indexVars
<1>10. OwedIsQueued => OwedIsQueued'
  BY <1>4, <1>6, NoPlanIsTyped DEF OwedIsQueued, indexVars
<1> QED BY <1>7, <1>8, <1>9, <1>10 DEF RepairSound, KeepsRepair

\* A document the DELETE takes has no chunk to take.
LEMMA NothingCascades ==
    ASSUME IndexTypeOK, ApplyPlan
    PROVE  chunk' = chunk /\ \A c \in Id : chunk[c] # None => chunk[c].doc \notin StillPartial
<1>1. \A c \in Id : chunk[c] # None => chunk[c].doc \notin StillPartial
  BY DEF StillPartial, ChunksOf
<1>2. chunk' = [c \in Id |-> IF chunk[c] # None /\ chunk[c].doc \in StillPartial
                              THEN None ELSE chunk[c]]
  BY DEF ApplyPlan
<1>3. chunk \in [Id -> Chunk \cup {None}]
  BY DEF IndexTypeOK
<1> QED BY <1>1, <1>2, <1>3

LEMMA ApplyPlanKeeps ==
    ASSUME RepairSound, ApplyPlan, UNCHANGED habits
    PROVE  KeepsRepair
<1>1. IndexTypeOK /\ RepairTypeOK /\ UNCHANGED <<latest, at>> /\ quiet' = quiet /\ kind' = kind
  BY DEF RepairSound, RepairTypeOK, ApplyPlan, habits
<1>2. repair.pc = "apply" /\ repair # NoPlan /\ SubmitFresh(repair.todo)
      /\ repair.todo \subseteq Text /\ repair.docs \subseteq Id
  BY <1>1, NoPlanIsTyped DEF ApplyPlan, RepairTypeOK
<1>3. /\ JobsFit
      /\ \A u \in Text : "running" \in jobs'[u] <=> "running" \in jobs[u]
      /\ \A u \in Text : "queued" \in jobs[u] => "queued" \in jobs'[u]
      /\ \A u \in repair.todo : Pending(u) \/ "queued" \in jobs'[u] \/ u \in repair'.todo
      /\ RepairTyped(repair') /\ RepairPlaced' /\ repair'.pc # "apply"
  BY <1>1, <1>2, SubmitFits
<1>4. StillPartial \subseteq Id /\ StillPartial \subseteq repair.docs
  BY <1>2 DEF StillPartial
<1>5. chunk' = chunk /\ \A c \in Id : chunk[c] # None => chunk[c].doc \notin StillPartial
  BY <1>1, NothingCascades
<1>6. /\ docs' = [d \in Id |-> IF d \in StillPartial THEN None ELSE docs[d]]
      /\ vec' = [c \in Id |-> IF c \in repair.orphans THEN None ELSE vec[c]]
      /\ owed' = owed \cup {docs[d].text : d \in StillPartial}
  BY DEF ApplyPlan
<1>7. TablesTyped
  BY <1>1, <1>5, <1>6 DEF TablesTyped, IndexTypeOK
<1>8. \A d \in StillPartial : docs[d].text \in Text
  BY <1>1, <1>4 DEF StillPartial, IndexTypeOK, Document
<1>9. RepairTypeOK'
  BY <1>1, <1>3, <1>6, <1>7, <1>8
     DEF RepairTypeOK, RepairTyped, IndexTypeOK, TablesTyped, JobsFit
<1>10. ASSUME quiet PROVE \A a \in Actor : at[a] = Idle
  BY <1>2, <1>10 DEF RepairSound, RepairTurns
<1>11. ChunksMatchDocument'
  <2>1. \A c \in Id : chunk[c] # None => chunk[c].doc \in Id
    BY <1>1 DEF IndexTypeOK, Chunk
  <2> QED BY <1>1, <1>5, <1>6, <2>1 DEF ChunksMatchDocument, RepairSound, IndexInv
<1>12. ASSUME quiet PROVE TurnsKeep'
  <2>1. \A a \in Actor : at'[a] = Idle
    BY <1>1, <1>10, <1>12
  <2>2. Turns' /\ \A a \in Actor : InHand(a)'
    BY <2>1 DEF Turns, InHand, Idle, AtDocument
  <2> QED BY <1>5, <1>12, <2>2 DEF RepairSound, IndexInv, TurnsKeep, OneEmbedding
<1>13. IndexInv'
  BY <1>1, <1>3, <1>9, <1>11, <1>12
     DEF RepairSound, IndexInv, RepairTypeOK, Places, WellPlaced, JobsFit
<1>14. ASSUME quiet, OwedIsQueued PROVE OwedIsQueued'
  <2>1. \A u \in Text : "running" \notin jobs[u]
    BY <1>10, <1>14 DEF RepairSound, IndexInv, RunsAreHeld, Actor
  <2>2. \A u \in Text : "running" \notin jobs'[u]
    BY <1>3, <2>1
  <2>3. \A u \in repair.todo : "queued" \in jobs'[u] \/ u \in repair'.todo
    BY <1>2, <1>3, <2>1 DEF Pending
  <2>4. ASSUME NEW t \in owed
        PROVE  \E u \in Text : u.src = t.src /\ ("queued" \in jobs'[u] \/ u \in repair'.todo)
    BY <1>3, <1>14, <2>3 DEF OwedIsQueued
  <2>5. ASSUME NEW d \in StillPartial
        PROVE  \E u \in Text : /\ u.src = docs[d].text.src
                               /\ "queued" \in jobs'[u] \/ u \in repair'.todo
    BY <1>2, <1>4, <1>14, <2>3 DEF RepairSound, PlanStands
  <2> QED BY <1>6, <2>2, <2>4, <2>5 DEF OwedIsQueued
<1>15. quiet => RepairTurns' /\ PlanStands'
  BY <1>1, <1>3, <1>10 DEF RepairTurns, PlanStands
<1> QED BY <1>1, <1>3, <1>9, <1>13, <1>14, <1>15 DEF RepairSound, KeepsRepair

LEMMA SubmitRestKeeps ==
    ASSUME RepairSound, SubmitRest, UNCHANGED habits
    PROVE  KeepsRepair
<1>1. /\ repair.pc = "submit" /\ repair # NoPlan /\ repair.todo \subseteq Text
      /\ SubmitFresh(repair.todo) /\ UNCHANGED <<latest, docs, chunk, vec, at, owed, habits>>
      /\ quiet' = quiet /\ kind' = kind
  BY NoPlanIsTyped DEF RepairSound, RepairTypeOK, SubmitRest, habits
<1>2. /\ JobsFit
      /\ \A u \in Text : "running" \in jobs'[u] <=> "running" \in jobs[u]
      /\ \A u \in Text : "queued" \in jobs[u] => "queued" \in jobs'[u]
      /\ \A u \in repair.todo : Pending(u) \/ "queued" \in jobs'[u] \/ u \in repair'.todo
      /\ RepairTyped(repair') /\ RepairPlaced' /\ repair'.pc # "apply"
  BY <1>1, SubmitFits
<1>3. IndexInv'
  BY <1>1, <1>2 DEF RepairSound, IndexInv, IndexTypeOK, JobsFit, Places, WellPlaced,
              ChunksMatchDocument, TurnsKeep, Turns, InHand, OneEmbedding, ChunksOf
<1>4. RepairTypeOK'
  BY <1>1, <1>2, <1>3 DEF RepairSound, RepairTypeOK, RepairTyped, IndexInv
<1>5. ASSUME quiet, OwedIsQueued PROVE OwedIsQueued'
  <2>1. \A u \in Text : "running" \notin jobs[u]
    BY <1>1, <1>5 DEF RepairSound, RepairTurns, IndexInv, RunsAreHeld, Actor
  <2>2. \A u \in repair.todo : "queued" \in jobs'[u] \/ u \in repair'.todo
    BY <1>1, <1>2, <2>1 DEF Pending
  <2> QED BY <1>1, <1>2, <1>5, <2>2 DEF OwedIsQueued
<1>6. quiet => RepairTurns' /\ PlanStands'
  BY <1>1, <1>2 DEF RepairSound, RepairTurns, PlanStands
<1> QED BY <1>1, <1>2, <1>3, <1>4, <1>5, <1>6 DEF RepairSound, KeepsRepair

LEMMA IndexStepKeeps ==
    ASSUME RepairSound, Index
    PROVE  KeepsRepair
<1>1. IndexInv' /\ JobsFit /\ quiet' = quiet
  BY IndexKeeps DEF RepairSound, Index, IndexNext, habits
<1>2. /\ quiet => repair = NoPlan
      /\ owed' = {t \in owed : \A u \in Text : u.src = t.src => "running" \notin jobs'[u]}
      /\ repair' = repair
  BY DEF Index
<1>3. RepairTypeOK' /\ RepairPlaced'
  BY <1>1, <1>2 DEF RepairSound, RepairTypeOK, RepairPlaced, IndexInv
<1>4. ASSUME quiet, OwedIsQueued PROVE OwedIsQueued'
  <2> SUFFICES ASSUME NEW t \in owed'
               PROVE  /\ \A u \in Text : u.src = t.src => "running" \notin jobs'[u]
                      /\ \E u \in Text : u.src = t.src /\ "queued" \in jobs'[u]
    BY DEF OwedIsQueued
  <2>1. t \in owed /\ \A u \in Text : u.src = t.src => "running" \notin jobs'[u]
    BY <1>2
  <2>2. PICK u \in Text : u.src = t.src /\ "queued" \in jobs[u]
    BY <1>2, <1>4, <2>1, NoPlanIsTyped DEF OwedIsQueued
  <2> QED BY <1>1, <2>1, <2>2 DEF JobsFit
<1>5. quiet => RepairTurns' /\ PlanStands'
  BY <1>2, NoPlanIsTyped DEF RepairTurns, PlanStands
<1> QED BY <1>1, <1>3, <1>4, <1>5 DEF RepairSound, KeepsRepair

LEMMA RepairDiesKeeps ==
    ASSUME RepairSound, RepairDies, UNCHANGED habits
    PROVE  RepairSound'
<1>1. UNCHANGED indexVars /\ UNCHANGED owed /\ repair' = NoPlan
  BY DEF RepairDies, indexVars
<1>2. IndexInv'
  BY <1>1 DEF RepairSound, IndexInv, indexVars, habits, IndexTypeOK, Places, RunsAreHeld,
              ChunksMatchDocument, TurnsKeep, Turns, InHand, OneEmbedding, ChunksOf, WellPlaced
<1> QED BY <1>1, <1>2, NoPlanIsTyped
        DEF RepairSound, RepairTypeOK, RepairTyped, RepairPlaced, RepairTurns, PlanStands, IndexInv

LEMMA RepairInitially == RepairInit => RepairInv
<1> SUFFICES ASSUME RepairInit PROVE RepairInv
  OBVIOUS
<1>1. IndexTypeOK
  BY IndexAssumption DEF RepairInit, IndexInit, IndexTypeOK, Version, Idle, Doing
<1>2. \A a \in Actor : at[a] = Idle
  BY DEF RepairInit, IndexInit
<1>3. Idle \in Doing /\ Idle.pc = "idle"
  BY DEF Idle, Doing
<1>4. Places /\ Turns /\ (\A a \in Actor : InHand(a))
  BY <1>2, <1>3 DEF Places, WellPlaced, Turns, InHand, AtDocument
<1>5. RunsAreHeld /\ ChunksMatchDocument /\ OneEmbedding
  BY DEF RepairInit, IndexInit, RunsAreHeld, ChunksMatchDocument, OneEmbedding
<1> QED BY <1>1, <1>4, <1>5, NoPlanIsTyped
        DEF RepairInit, RepairInv, RepairSound, IndexInv, TurnsKeep, RepairTypeOK, RepairTyped,
            RepairPlaced, RepairTurns, PlanStands, OwedIsQueued

LEMMA RepairStutters ==
    ASSUME RepairSound, UNCHANGED repairVars
    PROVE  KeepsRepair
  BY DEF repairVars, indexVars, habits, RepairSound, IndexInv, IndexTypeOK, Places, RunsAreHeld,
         ChunksMatchDocument, TurnsKeep, Turns, InHand, OneEmbedding, ChunksOf, WellPlaced,
         RepairTypeOK, RepairPlaced, RepairTurns, PlanStands, OwedIsQueued, KeepsRepair

LEMMA RepairKeeps ==
    ASSUME RepairSound, [RepairNext]_repairVars
    PROVE  KeepsRepair /\ quiet' = quiet
<1>1. CASE RepairNext
  <2>1. UNCHANGED habits
    BY <1>1 DEF RepairNext, Repair, Index, IndexNext
  <2> QED BY <1>1, <2>1, IndexStepKeeps, BuildPlanKeeps, ApplyPlanKeeps, SubmitRestKeeps
          DEF RepairNext, Repair, habits
<1>2. CASE UNCHANGED repairVars
  BY <1>2, RepairStutters DEF repairVars, indexVars, habits
<1> QED BY <1>1, <1>2

LEMMA RepairInvHolds == RepairSpec => []RepairInv
<1>1. RepairInv /\ [RepairNext]_repairVars => RepairInv'
  BY RepairKeeps DEF RepairInv, KeepsRepair
<1> QED BY <1>1, RepairInitially, PTL DEF RepairSpec

\* Type correctness of the index and of the script over it.
THEOREM RepairTypeCorrect == RepairSpec => []RepairTypeOK
<1>1. RepairInv => RepairTypeOK
  BY DEF RepairInv, RepairSound
<1> QED BY <1>1, RepairInvHolds, PTL

\* Worker and scripts taking turns, the chunks of a document are those of its
\* content, and one that is 'ingesting' has none (pipeline.embed_document,
\* reembed_one, _upsert_entry), for any number of sources, edits and rows.
THEOREM ChunksAreCurrent == RepairSpec => []ChunksMatchDocument
<1>1. RepairInv => ChunksMatchDocument
  BY DEF RepairInv, RepairSound, IndexInv
<1> QED BY <1>1, RepairInvHolds, PTL

\* The same while the repair may die with its plan, after any of its commits.
THEOREM ChunksAreCurrentThroughDeaths == DyingRepairSpec => []ChunksMatchDocument
<1> DEFINE Step == RepairNext \/ (RepairDies /\ UNCHANGED habits)
<1>1. RepairInit => RepairSound
  BY RepairInitially DEF RepairInv
<1>2. RepairSound /\ [Step]_repairVars => RepairSound'
  <2> SUFFICES ASSUME RepairSound, [Step]_repairVars PROVE RepairSound'
    OBVIOUS
  <2> QED BY RepairKeeps, RepairDiesKeeps DEF KeepsRepair
<1>3. RepairSound => ChunksMatchDocument
  BY DEF RepairSound, IndexInv
<1> QED BY <1>1, <1>2, <1>3, PTL DEF DyingRepairSpec

\* embed_document is idempotent: taking turns, no document is embedded twice,
\* neither by a retried job nor by a re-embedding after one.
THEOREM EmbeddedOnceInTurns == RepairSpec => [](quiet => EmbeddedOnce)
<1>1. RepairInv => (quiet => EmbeddedOnce)
  <2> SUFFICES ASSUME RepairInv, quiet, NEW d \in Id PROVE Cardinality(ChunksOf(d)) <= 1
    BY DEF EmbeddedOnce
  <2>1. OneEmbedding
    BY DEF RepairInv, RepairSound, IndexInv, TurnsKeep
  <2>2. CASE ChunksOf(d) = {}
    BY <2>2, FS_EmptySet
  <2>3. CASE ChunksOf(d) # {}
    <3>1. PICK c \in ChunksOf(d) : ChunksOf(d) = {c}
      BY <2>1, <2>3 DEF OneEmbedding, ChunksOf
    <3>2. Cardinality({c}) = 1
      BY FS_Singleton
    <3> QED BY <3>1, <3>2
  <2> QED BY <2>2, <2>3
<1> QED BY <1>1, RepairInvHolds, PTL

\* What apply_plan deletes while the worker stands still has a job that will bring
\* it back, or the script is still about to submit it: with any number of stuck
\* documents, although every fresh job is a commit of its own.
THEOREM DeletedHasItsJob == RepairSpec => []DeletedHasJob
<1>1. RepairInv => DeletedHasJob
  BY DEF RepairInv, OwedIsQueued, DeletedHasJob, Pending
<1> QED BY <1>1, RepairInvHolds, PTL

\* The plan may be as old as it likes: the DELETE takes no chunk with a document.
THEOREM RepairTakesNoChunk == RepairSpec => RepairSparesChunks
<1> DEFINE A == repair.pc = "apply" /\ repair' # repair => chunk' = chunk
<1>1. RepairInv /\ [RepairNext]_repairVars => [A]_repairVars
  <2> SUFFICES ASSUME RepairInv, RepairNext, repair.pc = "apply", repair' # repair
               PROVE  chunk' = chunk
    BY DEF repairVars
  <2>1. ~Index
    BY DEF Index
  <2>2. ~BuildPlan /\ ~SubmitRest
    BY NoPlanIsTyped DEF BuildPlan, SubmitRest
  <2>3. ApplyPlan /\ IndexTypeOK
    BY <2>1, <2>2 DEF RepairNext, Repair, RepairInv, RepairSound, IndexInv
  <2> QED BY <2>3, NothingCascades
<1> QED BY <1>1, RepairInvHolds, PTL DEF RepairSpec, RepairSparesChunks

-----------------------------------------------------------------------------
(* Chunks and vectors.                                                     *)

\* No step of worker or re-embedding parts a chunk from its vector, whoever else
\* is at work and whatever vectors lie about.
LEMMA IndexKeepsVectors ==
    ASSUME IndexInv, IndexNext, NEW c \in Id, VectorFits(c)
    PROVE  VectorFits(c)'
<1>1. /\ IndexTypeOK
      /\ chunk \in [Id -> Chunk \cup {None}] /\ vec \in [Id -> Text \cup {None}]
  BY DEF IndexInv, IndexTypeOK
<1>2. ASSUME UNCHANGED <<chunk, vec>> PROVE VectorFits(c)'
  BY <1>2 DEF VectorFits
<1>3. ASSUME NEW d, DeleteChunks(d) PROVE VectorFits(c)'
  BY <1>3 DEF VectorFits, DeleteChunks
<1>4. ASSUME ReplaceEntry PROVE VectorFits(c)'
  BY <1>4 DEF VectorFits, ReplaceEntry
<1>5. ASSUME NEW a \in Actor, Store(a) PROVE VectorFits(c)'
  <2>1. CASE docs[at[a].doc] = None
    BY <1>2, <1>5, <2>1 DEF Store
  <2>2. CASE docs[at[a].doc] # None
    <3> DEFINE new == [doc |-> at[a].doc, text |-> at[a].text]
    <3>1. PICK e \in Id : /\ chunk' = [chunk EXCEPT ![e] = new]
                          /\ vec' = [vec EXCEPT ![e] = at[a].text]
      BY <1>5, <2>2 DEF Store
    <3>2. new.text = at[a].text
      OBVIOUS
    <3> HIDE DEF new
    <3>3. CASE c = e
      BY <1>1, <3>1, <3>2, <3>3 DEF VectorFits
    <3>4. CASE c # e
      BY <1>1, <3>1, <3>4 DEF VectorFits
    <3> QED BY <3>3, <3>4
  <2> QED BY <2>1, <2>2
<1>6. ASSUME NEW a \in Actor, EmbedDocument(a) \/ Die(a) PROVE VectorFits(c)'
  BY <1>2, <1>5, <1>6 DEF EmbedDocument, Die, EmbedGuard, ComputeVectors, EmbedFails
<1>7. CASE User
  BY <1>2, <1>7 DEF User, EditSource, SubmitIngest
<1>8. CASE Reembed
  <2>1. "reembed" \in Actor
    BY DEF Actor
  <2> QED BY <1>2, <1>3, <1>6, <1>8, <2>1 DEF Reembed, ReembedRead, ReembedDelete
<1>9. CASE Worker
  <2>1. "worker" \in Actor
    BY DEF Actor
  <2>2. CASE RefreshDocument
    BY <1>3, <2>2 DEF RefreshDocument
  <2> QED BY <1>2, <1>4, <1>6, <1>9, <2>1, <2>2
          DEF Worker, TakeJob, AlreadyIngested, NewDocument, ExtractFails, InsertEntry
<1> QED BY <1>7, <1>8, <1>9 DEF IndexNext

\* Nobody but apply_plan leaves a chunk with no vector or with another text's,
\* with the worker, the re-embedding and the repair all at work, for any number of
\* rows whose ids are given out again.
THEOREM VectorsStayWithChunks == RepairSpec => ChunkKeepsItsVector
<1> DEFINE A == \A c \in Id :
                  VectorFits(c) /\ ~VectorFits(c)' => repair.pc = "apply" /\ repair' # repair
<1>1. RepairInv /\ [RepairNext]_repairVars => [A]_repairVars
  <2> SUFFICES ASSUME RepairInv, RepairNext, NEW c \in Id, VectorFits(c), ~VectorFits(c)'
               PROVE  repair.pc = "apply" /\ repair' # repair
    BY DEF repairVars
  <2>1. ~Index
    BY IndexKeepsVectors DEF Index, RepairInv, RepairSound
  <2>2. ~BuildPlan /\ ~SubmitRest
    BY DEF BuildPlan, SubmitRest, VectorFits
  <2>3. ApplyPlan /\ UNCHANGED habits
    BY <2>1, <2>2 DEF RepairNext, Repair
  <2>4. repair'.pc # "apply"
    BY <2>3, SubmitFits DEF ApplyPlan, RepairInv, RepairSound, RepairTypeOK
  <2> QED BY <2>3, <2>4 DEF ApplyPlan
<1> QED BY <1>1, RepairInvHolds, PTL DEF RepairSpec, ChunkKeepsItsVector

=============================================================================
