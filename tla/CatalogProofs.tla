---------------------------- MODULE CatalogProofs ----------------------------
(***************************************************************************)
(* Proofs about Catalog for any set of documents, ingestion runs and       *)
(* agent runs, and any number of edits, questions and faults.              *)
(***************************************************************************)
EXTENDS Catalog, FiniteSetTheorems, TLAPS

-----------------------------------------------------------------------------
(* What a step does to the record of a run *)

\* Run i goes on with record s, and the others stay as they are.
Becomes(i, s) ==
    /\ s \in RunState /\ run'[i] = s
    /\ run' \in [Runs -> RunState]
    /\ \A j \in Runs : j # i => run'[j] = run[j]

\* Replacing one typed record by another.
LEMMA BecomesBy ==
    ASSUME run \in [Runs -> RunState], NEW i \in Runs, NEW s \in RunState,
           run' = [run EXCEPT ![i] = s]
    PROVE  Becomes(i, s)
  BY DEF Becomes

\* The empty records of a run and of a reader are typed.
LEMMA IdleTyped == IdleRun \in RunState /\ IdleReader \in ReaderState
  BY DEF IdleRun, RunState, IdleReader, ReaderState, NoUri, Absent

\* A run that is over, or has crashed, has an empty record but for its flag.
LEMMA FinishedTyped ==
    ASSUME NEW s \in RunState
    PROVE  /\ Finished(s) \in RunState
           /\ Finished(s).pc = "done" /\ Finished(s).cur = NoUri /\ Finished(s).todo = {}
           /\ Finished(s).missing = {} /\ Finished(s).gone = {} /\ Finished(s).changed = {}
           /\ Finished(s).fresh = s.fresh
  BY IdleTyped DEF Finished, IdleRun, RunState

\* The record of a crashed run is empty, the flag included.
LEMMA DeadTyped ==
    LET s == [IdleRun EXCEPT !.pc = "dead"] IN
    /\ s \in RunState /\ s.pc = "dead" /\ s.cur = NoUri /\ s.todo = {} /\ s.missing = {}
    /\ s.gone = {} /\ s.changed = {} /\ s.fresh = FALSE
  BY IdleTyped DEF IdleRun, RunState

\* Load gives a run the files as they are now; it is fresh if it is alone, and no other run is.
LEMMA LoadShape ==
    ASSUME run \in [Runs -> RunState], source \in [Uris -> Hashes \cup {Absent}],
           NEW i \in Runs, Load(i)
    PROVE  /\ run' \in [Runs -> RunState]
           /\ run[i].pc = "idle"
           /\ run'[i] = [run[i] EXCEPT !.pc = "pick", !.raw = source,
                                       !.todo = {u \in Uris : source[u] # Absent},
                                       !.fresh = \A j \in Runs : Over(j)]
           /\ \A j \in Runs : j # i => run'[j] = [run[j] EXCEPT !.fresh = FALSE]
  <1> DEFINE alone == \A j \in Runs : Over(j)
             files == {u \in Uris : source[u] # Absent}
             s == [run[i] EXCEPT !.pc = "pick", !.raw = source, !.todo = files, !.fresh = alone]
  <1>1. alone \in BOOLEAN /\ files \in SUBSET Uris
    OBVIOUS
  <1>2. run' = [Stale(run) EXCEPT ![i].pc = "pick", ![i].raw = source, ![i].todo = files,
                                  ![i].fresh = alone]
    BY DEF Load
  <1> HIDE DEF alone, files
  <1>3. s \in RunState
    BY <1>1 DEF RunState
  <1>4. \A j \in Runs : [run[j] EXCEPT !.fresh = FALSE] \in RunState
    BY DEF RunState
  <1>5. Stale(run) \in [Runs -> RunState] /\ Stale(run)[i] = [run[i] EXCEPT !.fresh = FALSE]
    BY <1>4 DEF Stale
  <1>6. run' = [Stale(run) EXCEPT ![i] = s]
    <2>1. run' = [Stale(run) EXCEPT ![i] = [Stale(run)[i] EXCEPT !.pc = "pick", !.raw = source,
                                               !.todo = files, !.fresh = alone]]
      BY <1>2, <1>5
    <2>2. [Stale(run)[i] EXCEPT !.pc = "pick", !.raw = source, !.todo = files, !.fresh = alone] = s
      BY <1>5 DEF RunState
    <2> QED
      BY <2>1, <2>2
  <1>7. run' \in [Runs -> RunState] /\ run'[i] = s
    BY <1>3, <1>5, <1>6
  <1>8. \A j \in Runs : j # i => run'[j] = [run[j] EXCEPT !.fresh = FALSE]
    BY <1>6 DEF Stale
  <1> QED
    BY <1>7, <1>8 DEF Load, alone, files

\* ReadHash takes a document: it is unchanged and skipped, or it is to be ingested.
LEMMA ReadHashShape ==
    ASSUME run \in [Runs -> RunState], NEW i \in Runs, ReadHash(i)
    PROVE  \E u \in Uris :
             /\ u \in run[i].todo /\ run[i].pc = "pick"
             /\ \/ /\ StoredHash(u) = run[i].raw[u]
                   /\ Becomes(i, [run[i] EXCEPT !.todo = @ \ {u}])
                \/ /\ StoredHash(u) # run[i].raw[u]
                   /\ Becomes(i, [run[i] EXCEPT !.todo = @ \ {u}, !.cur = u, !.pc = "upsert"])
  <1>1. PICK u \in run[i].todo :
          /\ run[i].pc = "pick"
          /\ run' = IF StoredHash(u) = run[i].raw[u]
                    THEN [run EXCEPT ![i].todo = @ \ {u}]
                    ELSE [run EXCEPT ![i].todo = @ \ {u}, ![i].cur = u, ![i].pc = "upsert"]
    BY DEF ReadHash
  <1>2. u \in Uris
    BY DEF RunState
  <1> DEFINE s == [run[i] EXCEPT !.todo = @ \ {u}]
             t == [run[i] EXCEPT !.todo = @ \ {u}, !.cur = u, !.pc = "upsert"]
  <1>3. s \in RunState /\ t \in RunState
    BY <1>2 DEF RunState
  <1>4. CASE StoredHash(u) = run[i].raw[u]
    <2>1. run' = [run EXCEPT ![i] = s]
      BY <1>1, <1>4
    <2> QED
      BY <1>1, <1>2, <1>3, <1>4, <2>1, BecomesBy
  <1>5. CASE StoredHash(u) # run[i].raw[u]
    <2>1. run' = [run EXCEPT ![i] = t]
      BY <1>1, <1>5
    <2> QED
      BY <1>1, <1>2, <1>3, <1>5, <2>1, BecomesBy
  <1> QED
    BY <1>4, <1>5

\* upsert_document remembers the chunks the transaction will delete.
LEMMA UpsertShape ==
    ASSUME run \in [Runs -> RunState], chunks \subseteq Chunk, NEW i \in Runs, upsert_document(i)
    PROVE  Becomes(i, [run[i] EXCEPT !.pc = "embed", !.doomed = ChunksOf(run[i].cur)])
  <1> DEFINE s == [run[i] EXCEPT !.pc = "embed", !.doomed = ChunksOf(run[i].cur)]
  <1>1. ChunksOf(run[i].cur) \in SUBSET Chunk
    BY DEF ChunksOf
  <1>2. s \in RunState
    BY <1>1 DEF RunState
  <1>3. run' = [run EXCEPT ![i] = s]
    BY DEF upsert_document
  <1> QED
    BY <1>2, <1>3, BecomesBy

\* CommitDocument returns the run to the next document.
LEMMA CommitDocumentShape ==
    ASSUME run \in [Runs -> RunState], NEW i \in Runs, CommitDocument(i), run[i].cur \in Uris
    PROVE  Becomes(i, [run[i] EXCEPT !.pc = "pick", !.cur = NoUri, !.doomed = {},
                                     !.changed = @ \cup {run[i].cur}])
  <1> DEFINE s == [run[i] EXCEPT !.pc = "pick", !.cur = NoUri, !.doomed = {},
                                 !.changed = @ \cup {run[i].cur}]
  <1>1. s \in RunState
    BY DEF RunState
  <1>2. run' = [run EXCEPT ![i] = s]
    BY DEF CommitDocument
  <1> QED
    BY <1>1, <1>2, BecomesBy

\* SelectMissing collects the stored documents that have no file.
LEMMA SelectShape ==
    ASSUME run \in [Runs -> RunState], NEW i \in Runs, SelectMissing(i)
    PROVE  Becomes(i, [run[i] EXCEPT !.pc = "tombstone",
                         !.missing = {u \in Uris : documents[u].live /\ run[i].raw[u] = Absent}])
  <1> DEFINE rows == {u \in Uris : documents[u].live /\ run[i].raw[u] = Absent}
             s == [run[i] EXCEPT !.pc = "tombstone", !.missing = rows]
  <1>1. rows \in SUBSET Uris
    OBVIOUS
  <1>2. run' = [run EXCEPT ![i].pc = "tombstone", ![i].missing = rows]
    BY DEF SelectMissing
  <1> HIDE DEF rows
  <1>3. s \in RunState
    BY <1>1 DEF RunState
  <1>4. run' = [run EXCEPT ![i] = s]
    BY <1>2
  <1>5. Becomes(i, s)
    BY <1>3, <1>4, BecomesBy
  <1> QED
    BY <1>5 DEF rows

\* TombstoneOne moves a document from the missing to the gone ones.
LEMMA TombstoneShape ==
    ASSUME run \in [Runs -> RunState], NEW i \in Runs, NEW u \in Uris, TombstoneOne(i, u)
    PROVE  Becomes(i, [run[i] EXCEPT !.missing = @ \ {u}, !.gone = @ \cup {u}])
  <1> DEFINE s == [run[i] EXCEPT !.missing = @ \ {u}, !.gone = @ \cup {u}]
  <1>1. s \in RunState
    BY DEF RunState
  <1>2. run' = [run EXCEPT ![i] = s]
    BY DEF TombstoneOne
  <1> QED
    BY <1>1, <1>2, BecomesBy

\* CommitRun ends the run, unless there are documents to announce to harness.
LEMMA CommitRunShape ==
    ASSUME run \in [Runs -> RunState], NEW i \in Runs, CommitRun(i)
    PROVE  \/ Announced(i) = {} /\ Becomes(i, Finished(run[i]))
           \/ Announced(i) # {} /\ Becomes(i, [run[i] EXCEPT !.pc = "invalidate"])
  <1> DEFINE s == [run[i] EXCEPT !.pc = "invalidate"]
  <1>1. run[i] \in RunState
    OBVIOUS
  <1>2. CASE Announced(i) = {}
    <2>1. Finished(run[i]) \in RunState
      BY <1>1, FinishedTyped
    <2>2. run' = [run EXCEPT ![i] = Finished(run[i])]
      BY <1>2 DEF CommitRun
    <2> QED
      BY <1>2, <2>1, <2>2, BecomesBy
  <1>3. CASE Announced(i) # {}
    <2>1. s \in RunState
      BY <1>1 DEF RunState
    <2>2. run' = [run EXCEPT ![i] = s]
      BY <1>3 DEF CommitRun
    <2> QED
      BY <1>3, <2>1, <2>2, BecomesBy
  <1> QED
    BY <1>2, <1>3

\* FindEntries takes a page of the entries to delete, and marks the others.
LEMMA FindShape ==
    ASSUME run \in [Runs -> RunState], questions \in Nat, NEW i \in Runs, FindEntries(i)
    PROVE  \E page \in SUBSET Citing(i) :
             /\ Becomes(i, [run[i] EXCEPT !.pc = "purge", !.victims = page])
             /\ cache' = {IF e.key \in Citing(i) \ page THEN [e EXCEPT !.beyond = TRUE] ELSE e :
                            e \in cache}
  <1>1. PICK page \in Pages(Citing(i)) :
             /\ run' = [run EXCEPT ![i].pc = "purge", ![i].victims = page]
             /\ cache' = {IF e.key \in Citing(i) \ page THEN [e EXCEPT !.beyond = TRUE] ELSE e :
                            e \in cache}
    BY DEF FindEntries
  <1> DEFINE s == [run[i] EXCEPT !.pc = "purge", !.victims = page]
  <1>2. page \in SUBSET Citing(i)
    BY DEF Pages
  <1>3. page \in SUBSET Nat
    BY <1>2 DEF Citing
  <1>4. s \in RunState
    BY <1>3 DEF RunState
  <1>5. run' = [run EXCEPT ![i] = s]
    BY <1>1
  <1>6. Becomes(i, s)
    BY <1>4, <1>5, BecomesBy
  <1> HIDE DEF s
  <1> QED
    BY <1>1, <1>2, <1>6 DEF s

\* An entry beyond the page is marked, and changes in nothing else.
LEMMA BeyondShape ==
    ASSUME cache \subseteq Entry, NEW keys,
           cache' = {IF e.key \in keys THEN [e EXCEPT !.beyond = TRUE] ELSE e : e \in cache}
    PROVE  \A f \in cache' : \E e \in cache :
             /\ f \in Entry
             /\ f.key = e.key /\ f.cites = e.cites /\ f.raced = e.raced /\ f.namespace = e.namespace
             /\ e.beyond \/ e.key \in keys => f.beyond
  <1> SUFFICES ASSUME NEW f \in cache'
               PROVE  \E e \in cache :
                 /\ f \in Entry
                 /\ f.key = e.key /\ f.cites = e.cites /\ f.raced = e.raced
                 /\ f.namespace = e.namespace
                 /\ e.beyond \/ e.key \in keys => f.beyond
    OBVIOUS
  <1>1. PICK e \in cache : f = IF e.key \in keys THEN [e EXCEPT !.beyond = TRUE] ELSE e
    OBVIOUS
  <1>2. e \in Entry
    OBVIOUS
  <1>3. CASE e.key \in keys
    <2>1. f = [e EXCEPT !.beyond = TRUE]
      BY <1>1, <1>3
    <2> QED
      BY <1>2, <2>1 DEF Entry
  <1>4. CASE e.key \notin keys
    BY <1>1, <1>2, <1>4
  <1> QED
    BY <1>3, <1>4

\* So the invalidation only marks entries when it looks for them.
LEMMA FindCache ==
    ASSUME cache \subseteq Entry, NEW i \in Runs, FindEntries(i)
    PROVE  \A f \in cache' : \E e \in cache :
             f \in Entry /\ f.key = e.key /\ f.cites = e.cites /\ f.namespace = e.namespace
  <1>1. PICK page :
          cache' = {IF e.key \in Citing(i) \ page THEN [e EXCEPT !.beyond = TRUE] ELSE e :
                      e \in cache}
    BY DEF FindEntries
  <1> DEFINE keys == Citing(i) \ page
  <1>2. cache' = {IF e.key \in keys THEN [e EXCEPT !.beyond = TRUE] ELSE e : e \in cache}
    BY <1>1
  <1> HIDE DEF keys
  <1> QED
    BY <1>2, BeyondShape

\* An invalidation that is done, or lost, ends the run.
LEMMA FinishShape ==
    ASSUME run \in [Runs -> RunState], NEW i \in Runs, DeleteEntries(i) \/ InvalidationLost(i)
    PROVE  Becomes(i, Finished(run[i]))
  BY FinishedTyped, BecomesBy DEF DeleteEntries, InvalidationLost

\* A failed document, a crash, or being the victim of a deadlock ends the run.
Ends(i) == DocumentFails(i) \/ RunDies(i) \/ DeadlockDetected(i)

\* A run that ends before its time is emptied; its locks are free, and what it has not
\* announced is missed.
LEMMA DieShape ==
    ASSUME run \in [Runs -> RunState], NEW i \in Runs, Ends(i)
    PROVE  /\ Becomes(i, [IdleRun EXCEPT !.pc = "dead"])
           /\ lock' = Released(i) /\ missed' = missed \cup Unannounced(i)
           /\ UNCHANGED <<source, edits, documents, chunks, reader, cache, questions>>
           /\ ~Over(i)
  <1>1. Abandoned(i) /\ UNCHANGED <<source, edits, documents, chunks, reader, cache, questions>>
    BY DEF Ends, DocumentFails, insert_ingestion_error, RunDies, DeadlockDetected
  <1>2. ~Over(i)
    BY DEF Ends, DocumentFails, RunDies, DeadlockDetected, Waits, Over
  <1> QED
    BY <1>1, <1>2, DeadTyped, BecomesBy DEF Abandoned

\* An edit of a file changes nothing of a run but that it is no longer fresh.
LEMMA StaleShape ==
    ASSUME run \in [Runs -> RunState], run' = Stale(run)
    PROVE  /\ run' \in [Runs -> RunState]
           /\ \A j \in Runs : run'[j] = [run[j] EXCEPT !.fresh = FALSE]
  <1>1. \A j \in Runs : [run[j] EXCEPT !.fresh = FALSE] \in RunState
    BY DEF RunState
  <1> QED
    BY <1>1 DEF Stale

-----------------------------------------------------------------------------
(* Types *)

\* TypeOK in three parts, the first with what a run knows of the files it loaded.
RunPart ==
    /\ run \in [Runs -> RunState]
    /\ \A i \in Runs : run[i].pc \in {"upsert", "embed"} <=> run[i].cur # NoUri
    /\ Loaded
StorePart ==
    /\ source \in [Uris -> Hashes \cup {Absent}] /\ edits \in 0 .. MaxEdits
    /\ documents \in [Uris -> [hash : Hashes \cup {Absent}, live : BOOLEAN]]
    /\ chunks \subseteq Chunk
    /\ lock \in [Uris -> Runs \cup {Nobody}]
    /\ missed \subseteq Uris /\ faults \in 0 .. MaxFaults
AnswerPart ==
    /\ reader \in [Readers -> ReaderState]
    /\ \A r \in Readers :
          /\ reader[r].key <= questions
          /\ reader[r].pc \in {"search", "answer", "expire"} => reader[r].key > 0
    /\ cache \subseteq Entry /\ \A e \in cache : e.key \in 1 .. questions
    /\ questions \in 0 .. MaxQuestions
Typed == RunPart /\ StorePart /\ AnswerPart

\* The typing splits by who writes: runs, the stored catalogue, readers and cache.
LEMMA TypedParts == Typed <=> TypeOK /\ Loaded
  BY DEF Typed, RunPart, StorePart, AnswerPart, TypeOK

\* One run's new record decides whether RunPart still holds.
LEMMA RunPartBy ==
    ASSUME RunPart, NEW i \in Runs, NEW s, Becomes(i, s),
           s.pc \in {"upsert", "embed"} <=> s.cur # NoUri,
           \A u \in s.todo : s.raw[u] # Absent,
           s.cur # NoUri => s.raw[s.cur] # Absent
    PROVE  RunPart'
  BY DEF RunPart, Becomes, Loaded

\* Every step of a run keeps the records of the runs typed.
LEMMA RunPartStep ==
    ASSUME RunPart, StorePart, AnswerPart, NEW i \in Runs,
           RunStep(i) \/ DocumentFails(i) \/ RunDies(i) \/ InvalidationLost(i)
    PROVE  RunPart'
  <1>a. /\ run \in [Runs -> RunState] /\ run[i] \in RunState
        /\ run[i].pc \in {"upsert", "embed"} <=> run[i].cur # NoUri
        /\ \A u \in run[i].todo : run[i].raw[u] # Absent
        /\ run[i].cur # NoUri => run[i].raw[run[i].cur] # Absent
    BY DEF RunPart, Loaded
  <1>b. source \in [Uris -> Hashes \cup {Absent}] /\ chunks \subseteq Chunk /\ questions \in Nat
    BY CatalogConstants DEF StorePart, AnswerPart
  <1>1. CASE Load(i)
    <2>1. /\ run' \in [Runs -> RunState] /\ run[i].pc = "idle"
          /\ run'[i] = [run[i] EXCEPT !.pc = "pick", !.raw = source,
                                      !.todo = {u \in Uris : source[u] # Absent},
                                      !.fresh = \A j \in Runs : Over(j)]
          /\ \A j \in Runs : j # i => run'[j] = [run[j] EXCEPT !.fresh = FALSE]
      BY <1>1, <1>a, <1>b, LoadShape
    <2>2. /\ run'[i].pc = "pick" /\ run'[i].cur = NoUri /\ run'[i].raw = source
          /\ run'[i].todo = {u \in Uris : source[u] # Absent}
      BY <1>a, <2>1 DEF RunState
    <2>3. ASSUME NEW j \in Runs, j # i
          PROVE  /\ run'[j].pc = run[j].pc /\ run'[j].cur = run[j].cur /\ run'[j].raw = run[j].raw
                 /\ run'[j].todo = run[j].todo
      BY <1>a, <2>1, <2>3 DEF RunState
    <2>4. \A j \in Runs : run'[j].pc \in {"upsert", "embed"} <=> run'[j].cur # NoUri
      BY <2>2, <2>3 DEF RunPart
    <2>5. ASSUME NEW j \in Runs
          PROVE  /\ \A u \in run'[j].todo : run'[j].raw[u] # Absent
                 /\ run'[j].cur # NoUri => run'[j].raw[run'[j].cur] # Absent
      <3>1. CASE j = i
        BY <2>2, <3>1
      <3>2. CASE j # i
        BY <2>3, <3>2 DEF RunPart, Loaded
      <3> QED
        BY <3>1, <3>2
    <2> QED
      BY <2>1, <2>4, <2>5 DEF RunPart, Loaded
  <1>2. CASE ReadHash(i)
    <2>1. PICK u \in Uris :
             /\ u \in run[i].todo /\ run[i].pc = "pick"
             /\ \/ Becomes(i, [run[i] EXCEPT !.todo = @ \ {u}])
                \/ Becomes(i, [run[i] EXCEPT !.todo = @ \ {u}, !.cur = u, !.pc = "upsert"])
      BY <1>2, <1>a, ReadHashShape
    <2> DEFINE s == [run[i] EXCEPT !.todo = @ \ {u}]
               t == [run[i] EXCEPT !.todo = @ \ {u}, !.cur = u, !.pc = "upsert"]
    <2>2. /\ s.pc = "pick" /\ s.cur = run[i].cur /\ s.raw = run[i].raw /\ s.todo = run[i].todo \ {u}
          /\ t.pc = "upsert" /\ t.cur = u /\ t.raw = run[i].raw /\ t.todo = run[i].todo \ {u}
          /\ u # NoUri
      BY <1>a, <2>1, CatalogConstants DEF RunState
    <2> HIDE DEF s, t
    <2>3. CASE Becomes(i, s)
      BY <1>a, <2>1, <2>2, <2>3, RunPartBy
    <2>4. CASE Becomes(i, t)
      BY <1>a, <2>1, <2>2, <2>4, RunPartBy
    <2> QED
      BY <2>1, <2>3, <2>4 DEF s, t
  <1>3. CASE upsert_document(i)
    <2> DEFINE s == [run[i] EXCEPT !.pc = "embed", !.doomed = ChunksOf(run[i].cur)]
    <2>1. Becomes(i, s)
      BY <1>3, <1>a, <1>b, UpsertShape
    <2>2. s.pc = "embed" /\ s.cur = run[i].cur /\ s.raw = run[i].raw /\ s.todo = run[i].todo
      BY <1>a DEF RunState
    <2>3. run[i].pc = "upsert"
      BY <1>3 DEF upsert_document
    <2> QED
      BY <1>a, <2>1, <2>2, <2>3, RunPartBy
  <1>4. CASE CommitDocument(i)
    <2> DEFINE s == [run[i] EXCEPT !.pc = "pick", !.cur = NoUri, !.doomed = {},
                                   !.changed = @ \cup {run[i].cur}]
    <2>1. run[i].cur \in Uris
      BY <1>4, <1>a DEF CommitDocument, RunState
    <2>2. Becomes(i, s)
      BY <1>4, <1>a, <2>1, CommitDocumentShape
    <2>3. s.pc = "pick" /\ s.cur = NoUri /\ s.raw = run[i].raw /\ s.todo = run[i].todo
      BY <1>a DEF RunState
    <2> QED
      BY <1>a, <2>2, <2>3, RunPartBy
  <1>5. CASE Ends(i)
    BY <1>5, <1>a, DieShape, DeadTyped, RunPartBy
  <1>6. CASE SelectMissing(i)
    <2> DEFINE rows == {u \in Uris : documents[u].live /\ run[i].raw[u] = Absent}
               s == [run[i] EXCEPT !.pc = "tombstone", !.missing = rows]
    <2>1. Becomes(i, s)
      BY <1>6, <1>a, SelectShape
    <2> HIDE DEF rows
    <2>2. s.pc = "tombstone" /\ s.cur = run[i].cur /\ s.raw = run[i].raw /\ s.todo = run[i].todo
      BY <1>a DEF RunState
    <2>3. run[i].pc = "pick"
      BY <1>6 DEF SelectMissing
    <2> QED
      BY <1>a, <2>1, <2>2, <2>3, RunPartBy
  <1>7. ASSUME NEW u \in Uris, TombstoneOne(i, u) PROVE RunPart'
    <2> DEFINE s == [run[i] EXCEPT !.missing = @ \ {u}, !.gone = @ \cup {u}]
    <2>1. Becomes(i, s)
      BY <1>7, <1>a, TombstoneShape
    <2>2. s.pc = run[i].pc /\ s.cur = run[i].cur /\ s.raw = run[i].raw /\ s.todo = run[i].todo
      BY <1>a DEF RunState
    <2> QED
      BY <1>a, <2>1, <2>2, RunPartBy
  <1>8. CASE Becomes(i, Finished(run[i]))
    BY <1>8, <1>a, FinishedTyped, RunPartBy
  <1>9. CASE CommitRun(i)
    <2> DEFINE s == [run[i] EXCEPT !.pc = "invalidate"]
    <2>1. Becomes(i, Finished(run[i])) \/ Becomes(i, s)
      BY <1>9, <1>a, CommitRunShape
    <2>2. s.pc = "invalidate" /\ s.cur = run[i].cur /\ s.raw = run[i].raw /\ s.todo = run[i].todo
      BY <1>a DEF RunState
    <2>3. run[i].pc = "tombstone"
      BY <1>9 DEF CommitRun
    <2>4. CASE Becomes(i, s)
      BY <1>a, <2>2, <2>3, <2>4, RunPartBy
    <2> QED
      BY <1>8, <2>1, <2>4
  <1>10. CASE FindEntries(i)
    <2>0. PICK page \in SUBSET Citing(i) :
             Becomes(i, [run[i] EXCEPT !.pc = "purge", !.victims = page])
      BY <1>10, <1>a, <1>b, FindShape
    <2> DEFINE s == [run[i] EXCEPT !.pc = "purge", !.victims = page]
    <2>1. Becomes(i, s)
      BY <2>0
    <2>2. s.pc = "purge" /\ s.cur = run[i].cur /\ s.raw = run[i].raw /\ s.todo = run[i].todo
      BY <1>a DEF RunState
    <2>3. run[i].pc = "invalidate"
      BY <1>10 DEF FindEntries
    <2> QED
      BY <1>a, <2>1, <2>2, <2>3, RunPartBy
  <1>11. CASE DeleteEntries(i) \/ InvalidationLost(i)
    BY <1>8, <1>11, <1>a, FinishShape
  <1> QED
    BY <1>1, <1>2, <1>3, <1>4, <1>5, <1>6, <1>7, <1>9, <1>10, <1>11 DEF RunStep, Ends

\* The documents a run has changed or taken down are documents.
LEMMA UnannouncedTyped ==
    ASSUME run \in [Runs -> RunState], NEW i \in Runs
    PROVE  Announced(i) \subseteq Uris /\ Unannounced(i) \subseteq Uris
  <1>1. run[i].changed \subseteq Uris /\ run[i].gone \subseteq Uris
    BY DEF RunState
  <1> QED
    BY <1>1 DEF Announced, Unannounced

\* Releasing the locks of a run frees its documents and no others.
LEMMA ReleasedTyped ==
    ASSUME lock \in [Uris -> Runs \cup {Nobody}], NEW i \in Runs
    PROVE  /\ Released(i) \in [Uris -> Runs \cup {Nobody}]
           /\ \A u \in Uris : Released(i)[u] = IF lock[u] = i THEN Nobody ELSE lock[u]
  BY DEF Released

\* Every step of a run keeps documents, chunks and locks typed.
LEMMA StorePartStep ==
    ASSUME RunPart, StorePart, NEW i \in Runs,
           RunStep(i) \/ DocumentFails(i) \/ RunDies(i) \/ InvalidationLost(i)
    PROVE  StorePart'
  <1>a. /\ run \in [Runs -> RunState] /\ run[i] \in RunState
        /\ run[i].pc \in {"upsert", "embed"} => run[i].cur # NoUri
        /\ run[i].cur # NoUri => run[i].raw[run[i].cur] # Absent
    BY DEF RunPart, Loaded
  <1>b. Announced(i) \subseteq Uris /\ Unannounced(i) \subseteq Uris
    BY <1>a, UnannouncedTyped
  <1>c. Released(i) \in [Uris -> Runs \cup {Nobody}]
    BY ReleasedTyped DEF StorePart
  <1>d. /\ documents \in [Uris -> [hash : Hashes \cup {Absent}, live : BOOLEAN]]
        /\ chunks \subseteq Chunk /\ lock \in [Uris -> Runs \cup {Nobody}]
    BY DEF StorePart
  <1> USE CatalogConstants
  <1>1. CASE Load(i) \/ ReadHash(i) \/ SelectMissing(i) \/ FindEntries(i) \/ DeleteEntries(i)
    BY <1>1 DEF Load, ReadHash, SelectMissing, FindEntries, DeleteEntries, StorePart
  <1>2. CASE upsert_document(i)
    <2>1. lock' \in [Uris -> Runs \cup {Nobody}]
      BY <1>2, <1>d DEF upsert_document
    <2> QED
      BY <1>2, <2>1 DEF upsert_document, StorePart
  <1>3. CASE CommitDocument(i)
    <2> DEFINE u == run[i].cur
               h == run[i].raw[u]
    <2>1. u \in Uris /\ h \in Hashes
      BY <1>3, <1>a DEF CommitDocument, RunState
    <2>2. /\ documents' = [documents EXCEPT ![u] = [hash |-> h, live |-> TRUE]]
          /\ chunks' = (chunks \ run[i].doomed) \cup {[uri |-> u, hash |-> h, by |-> i]}
          /\ lock' = [lock EXCEPT ![u] = Nobody]
          /\ UNCHANGED <<source, edits, missed, faults>>
      BY <1>3 DEF CommitDocument, insert_chunk, chunk_markdown
    <2> HIDE DEF u, h
    <2>3. documents' \in [Uris -> [hash : Hashes \cup {Absent}, live : BOOLEAN]]
      BY <1>d, <2>1, <2>2
    <2>4. chunks' \subseteq Chunk
      BY <1>d, <2>1, <2>2 DEF Chunk
    <2>5. lock' \in [Uris -> Runs \cup {Nobody}]
      BY <1>d, <2>2
    <2> QED
      BY <2>2, <2>3, <2>4, <2>5 DEF StorePart
  <1>4. ASSUME NEW u \in Uris, TombstoneOne(i, u) PROVE StorePart'
    <2>1. lock' \in [Uris -> Runs \cup {Nobody}]
      BY <1>4, <1>d DEF TombstoneOne
    <2> QED
      BY <1>4, <2>1 DEF TombstoneOne, StorePart
  <1>5. CASE CommitRun(i)
    <2>1. \A u \in Uris : [documents[u] EXCEPT !.live = FALSE]
                              \in [hash : Hashes \cup {Absent}, live : BOOLEAN]
      BY <1>d
    <2>2. documents' \in [Uris -> [hash : Hashes \cup {Absent}, live : BOOLEAN]]
      BY <1>5, <1>d, <2>1 DEF CommitRun
    <2>3. chunks' \subseteq Chunk /\ lock' \in [Uris -> Runs \cup {Nobody}]
      BY <1>5, <1>c, <1>d DEF CommitRun
    <2> QED
      BY <1>5, <2>2, <2>3 DEF CommitRun, StorePart
  <1>6. CASE Ends(i) \/ InvalidationLost(i)
    <2>1. UNCHANGED <<source, edits, documents, chunks>> /\ (UNCHANGED lock \/ lock' = Released(i))
      BY <1>6, <1>a, DieShape DEF InvalidationLost
    <2>2. missed' \subseteq Uris
      BY <1>6, <1>a, <1>b, DieShape DEF InvalidationLost, StorePart
    <2>3. faults' \in 0 .. MaxFaults
      BY <1>6 DEF Ends, DocumentFails, RunDies, InvalidationLost, DeadlockDetected, StorePart
    <2> QED
      BY <1>c, <2>1, <2>2, <2>3 DEF StorePart
  <1> QED
    BY <1>1, <1>2, <1>3, <1>4, <1>5, <1>6 DEF RunStep, Ends

-----------------------------------------------------------------------------
(* What a step does to the record of a reader *)

ReadsOn(r, s) ==
    /\ s \in ReaderState /\ reader'[r] = s
    /\ reader' \in [Readers -> ReaderState]
    /\ \A q \in Readers : q # r => reader'[q] = reader[q]

\* A step that assigns a typed record to one reader leaves the others alone.
LEMMA ReadsOnBy ==
    ASSUME reader \in [Readers -> ReaderState], NEW r \in Readers, NEW s \in ReaderState,
           reader' = [reader EXCEPT ![r] = s]
    PROVE  ReadsOn(r, s)
  BY DEF ReadsOn

\* The steps after which the reader is idle again.
LEMMA IdleShape ==
    ASSUME reader \in [Readers -> ReaderState], NEW r \in Readers,
           NotCached(r) \/ SetExpiry(r) \/ NextQuestion(r) \/ ReaderDies(r)
    PROVE  ReadsOn(r, IdleReader)
  BY IdleTyped, ReadsOnBy DEF NotCached, SetExpiry, NextQuestion, ReaderDies

\* LookupHit answers from an entry of the namespace of the user.
LEMMA HitShape ==
    ASSUME reader \in [Readers -> ReaderState], cache \subseteq Entry, NEW r \in Readers, LookupHit(r)
    PROVE  \E e \in cache :
             /\ e.namespace = acl_hash(GroupsOf[r])
             /\ ReadsOn(r, [IdleReader EXCEPT !.pc = "served", !.found = e.cites])
  <1>1. PICK e \in cache :
          /\ e.namespace = acl_hash(GroupsOf[r])
          /\ reader' = [reader EXCEPT ![r] = [IdleReader EXCEPT !.pc = "served", !.found = e.cites]]
    BY DEF LookupHit
  <1>2. e.cites \in SUBSET Chunk
    BY DEF Entry
  <1>3. [IdleReader EXCEPT !.pc = "served", !.found = e.cites] \in ReaderState
    BY <1>2 DEF IdleReader, ReaderState
  <1> QED
    BY <1>1, <1>3, ReadsOnBy

\* LookupMiss sends the reader on to the search with its question.
LEMMA MissShape ==
    ASSUME reader \in [Readers -> ReaderState], questions \in Nat, NEW r \in Readers, LookupMiss(r)
    PROVE  ReadsOn(r, [reader[r] EXCEPT !.pc = "search", !.key = questions + 1])
  <1> DEFINE k == questions + 1
             s == [reader[r] EXCEPT !.pc = "search", !.key = k]
  <1>1. k \in Nat
    OBVIOUS
  <1>2. reader' = [reader EXCEPT ![r] = s]
    BY DEF LookupMiss
  <1> HIDE DEF k
  <1>3. s \in ReaderState
    BY <1>1 DEF ReaderState
  <1>4. ReadsOn(r, s)
    BY <1>2, <1>3, ReadsOnBy
  <1> QED
    BY <1>4 DEF k

\* hybrid_search finds chunks that are visible to the user.
LEMMA SearchShape ==
    ASSUME reader \in [Readers -> ReaderState], chunks \subseteq Chunk, NEW r \in Readers,
           hybrid_search(r)
    PROVE  \E best \in SUBSET Visible(r) :
             ReadsOn(r, [reader[r] EXCEPT !.pc = "answer", !.found = best])
  <1>1. PICK best \in SUBSET Visible(r) :
          reader' = [reader EXCEPT ![r].pc = "answer", ![r].found = best]
    BY DEF hybrid_search
  <1> DEFINE s == [reader[r] EXCEPT !.pc = "answer", !.found = best]
  <1>2. best \in SUBSET Chunk
    BY DEF Visible
  <1>3. s \in ReaderState
    BY <1>2 DEF ReaderState
  <1>4. reader' = [reader EXCEPT ![r] = s]
    BY <1>1
  <1>5. ReadsOn(r, s)
    BY <1>3, <1>4, ReadsOnBy
  <1> QED
    BY <1>5

\* WriteEntry leaves the reader before EXPIRE.
LEMMA WriteShape ==
    ASSUME reader \in [Readers -> ReaderState], NEW r \in Readers, WriteEntry(r)
    PROVE  ReadsOn(r, [reader[r] EXCEPT !.pc = "expire"])
  <1>1. [reader[r] EXCEPT !.pc = "expire"] \in ReaderState
    BY DEF ReaderState
  <1>2. reader' = [reader EXCEPT ![r] = [reader[r] EXCEPT !.pc = "expire"]]
    BY DEF WriteEntry
  <1> QED
    BY <1>1, <1>2, ReadsOnBy

\* The invalidation marks the answers it has come too early for.
LEMMA MarkShape ==
    ASSUME reader \in [Readers -> ReaderState], NEW i \in Runs, FindEntries(i)
    PROVE  /\ reader' \in [Readers -> ReaderState]
           /\ \A r \in Readers :
                /\ reader'[r].pc = reader[r].pc /\ reader'[r].key = reader[r].key
                /\ reader'[r].found = reader[r].found
                /\ reader'[r].raced = (\/ reader[r].raced
                                       \/ /\ reader[r].pc = "answer"
                                          /\ CitesAny(reader[r].found, Announced(i)))
  <1>1. ASSUME NEW r \in Readers PROVE [reader[r] EXCEPT !.raced = TRUE] \in ReaderState
    BY DEF ReaderState
  <1>2. reader' = [r \in Readers |->
                    IF reader[r].pc = "answer" /\ CitesAny(reader[r].found, Announced(i))
                    THEN [reader[r] EXCEPT !.raced = TRUE] ELSE reader[r]]
    BY DEF FindEntries
  <1>3. reader' \in [Readers -> ReaderState]
    BY <1>1, <1>2
  <1>4. ASSUME NEW r \in Readers
        PROVE  /\ reader'[r].pc = reader[r].pc /\ reader'[r].key = reader[r].key
               /\ reader'[r].found = reader[r].found
               /\ reader'[r].raced = (\/ reader[r].raced
                                      \/ /\ reader[r].pc = "answer"
                                         /\ CitesAny(reader[r].found, Announced(i)))
    <2>1. reader[r] \in ReaderState /\ reader[r].raced \in BOOLEAN
      BY DEF ReaderState
    <2>2. CASE reader[r].pc = "answer" /\ CitesAny(reader[r].found, Announced(i))
      <3>1. reader'[r] = [reader[r] EXCEPT !.raced = TRUE]
        BY <1>2, <2>2
      <3> QED
        BY <2>1, <2>2, <3>1 DEF ReaderState
    <2>3. CASE ~(reader[r].pc = "answer" /\ CitesAny(reader[r].found, Announced(i)))
      <3>1. reader'[r] = reader[r]
        BY <1>2, <2>3
      <3> QED
        BY <2>1, <2>3, <3>1
    <2> QED
      BY <2>2, <2>3
  <1> QED
    BY <1>3, <1>4

\* The entry an answer makes.
LEMMA EntryShape ==
    ASSUME reader \in [Readers -> ReaderState], NEW r \in Readers
    PROVE  /\ EntryOf(r) \in Entry
           /\ EntryOf(r).key = reader[r].key /\ EntryOf(r).cites = reader[r].found
           /\ EntryOf(r).raced = reader[r].raced
           /\ EntryOf(r).namespace = acl_hash(GroupsOf[r])
  <1>1. reader[r].key \in Nat /\ reader[r].found \in SUBSET Chunk /\ reader[r].raced \in BOOLEAN
    BY DEF ReaderState
  <1> QED
    BY <1>1 DEF EntryOf, Entry

\* Setting the expiry of an entry changes nothing else about it.
LEMMA ExpiryShape ==
    ASSUME cache \subseteq Entry, NEW r \in Readers, SetExpiry(r)
    PROVE  \A f \in cache' : \E e \in cache :
             /\ f \in Entry
             /\ f.key = e.key /\ f.cites = e.cites /\ f.raced = e.raced /\ f.namespace = e.namespace
             /\ f.beyond = e.beyond
  <1> SUFFICES ASSUME NEW f \in cache'
               PROVE  \E e \in cache :
                 /\ f \in Entry
                 /\ f.key = e.key /\ f.cites = e.cites /\ f.raced = e.raced
                 /\ f.namespace = e.namespace /\ f.beyond = e.beyond
    OBVIOUS
  <1>1. PICK e \in cache : f = IF e.key = reader[r].key THEN [e EXCEPT !.ttl = TRUE] ELSE e
    BY DEF SetExpiry
  <1>2. e \in Entry
    OBVIOUS
  <1>3. CASE f = [e EXCEPT !.ttl = TRUE]
    BY <1>2, <1>3 DEF Entry
  <1>4. CASE f = e
    BY <1>2, <1>4
  <1> QED
    BY <1>1, <1>3, <1>4

ReaderStep(r) ==
    \/ LookupHit(r) \/ LookupMiss(r) \/ hybrid_search(r) \/ NotCached(r)
    \/ WriteEntry(r) \/ SetExpiry(r) \/ NextQuestion(r) \/ ReaderDies(r)

\* Every step of a reader keeps readers and cache typed.
LEMMA AnswerPartStep ==
    ASSUME StorePart, AnswerPart, NEW r \in Readers, ReaderStep(r)
    PROVE  AnswerPart'
  <1>a. /\ reader \in [Readers -> ReaderState] /\ reader[r] \in ReaderState
        /\ questions \in Nat /\ questions \in 0 .. MaxQuestions /\ MaxQuestions \in Nat
        /\ cache \subseteq Entry /\ chunks \subseteq Chunk
        /\ \A q \in Readers : reader[q].key \in Nat /\ reader[q].key <= questions
        /\ \A e \in cache : e.key \in 1 .. questions
    BY CatalogConstants DEF StorePart, AnswerPart, ReaderState
  <1>b. IdleReader.pc = "idle" /\ IdleReader.key = 0
    BY DEF IdleReader
  \* One reader goes on, and no entry gets a new key.
  <1>c. ASSUME NEW s, ReadsOn(r, s), s.key <= questions',
               s.pc \in {"search", "answer", "expire"} => s.key > 0,
               questions' \in 0 .. MaxQuestions, questions <= questions',
               cache' \subseteq Entry,
               \A f \in cache' : f.key \in 1 .. questions'
        PROVE  AnswerPart'
    BY <1>a, <1>c DEF AnswerPart, ReadsOn
  <1>1. CASE LookupHit(r)
    <2>1. PICK e \in cache : ReadsOn(r, [IdleReader EXCEPT !.pc = "served", !.found = e.cites])
      BY <1>1, <1>a, HitShape
    <2> DEFINE s == [IdleReader EXCEPT !.pc = "served", !.found = e.cites]
    <2>2. s.pc = "served" /\ s.key = 0
      BY DEF IdleReader
    <2>3. questions' = questions + 1 /\ questions < MaxQuestions /\ UNCHANGED cache
      BY <1>1 DEF LookupHit
    <2>4. ReadsOn(r, s)
      BY <2>1
    <2> HIDE DEF s
    <2> QED
      BY <1>a, <1>c, <2>2, <2>3, <2>4
  <1>2. CASE LookupMiss(r)
    <2> DEFINE s == [reader[r] EXCEPT !.pc = "search", !.key = questions + 1]
    <2>1. ReadsOn(r, s)
      BY <1>2, <1>a, MissShape
    <2>2. s.pc = "search" /\ s.key = questions + 1
      BY <1>a DEF ReaderState
    <2>3. questions' = questions + 1 /\ questions < MaxQuestions /\ UNCHANGED cache
      BY <1>2 DEF LookupMiss
    <2> HIDE DEF s
    <2> QED
      BY <1>a, <1>c, <2>1, <2>2, <2>3
  <1>3. CASE hybrid_search(r)
    <2>1. PICK best \in SUBSET Visible(r) :
            ReadsOn(r, [reader[r] EXCEPT !.pc = "answer", !.found = best])
      BY <1>3, <1>a, SearchShape
    <2> DEFINE s == [reader[r] EXCEPT !.pc = "answer", !.found = best]
    <2>2. s.pc = "answer" /\ s.key = reader[r].key
      BY <1>a DEF ReaderState
    <2>3. UNCHANGED <<questions, cache>> /\ reader[r].key > 0
      BY <1>3 DEF hybrid_search, AnswerPart
    <2>4. ReadsOn(r, s)
      BY <2>1
    <2> HIDE DEF s
    <2> QED
      BY <1>a, <1>c, <2>2, <2>3, <2>4
  <1>4. CASE NotCached(r) \/ NextQuestion(r) \/ ReaderDies(r)
    <2>1. ReadsOn(r, IdleReader)
      BY <1>4, <1>a, IdleShape
    <2>2. UNCHANGED <<questions, cache>>
      BY <1>4 DEF NotCached, NextQuestion, ReaderDies
    <2> QED
      BY <1>a, <1>b, <1>c, <2>1, <2>2
  <1>5. CASE WriteEntry(r)
    <2> DEFINE s == [reader[r] EXCEPT !.pc = "expire"]
    <2>1. ReadsOn(r, s)
      BY <1>5, <1>a, WriteShape
    <2>2. s.pc = "expire" /\ s.key = reader[r].key
      BY <1>a DEF ReaderState
    <2>3. UNCHANGED questions /\ cache' = cache \cup {EntryOf(r)} /\ reader[r].key > 0
      BY <1>5 DEF WriteEntry, AnswerPart
    <2>4. EntryOf(r) \in Entry /\ EntryOf(r).key \in 1 .. questions
      BY <1>a, <2>3, EntryShape
    <2> HIDE DEF s
    <2> QED
      BY <1>a, <1>c, <2>1, <2>2, <2>3, <2>4
  <1>6. CASE SetExpiry(r)
    <2>1. ReadsOn(r, IdleReader)
      BY <1>6, <1>a, IdleShape
    <2>2. cache' \subseteq Entry /\ \A f \in cache' : f.key \in 1 .. questions
      BY <1>6, <1>a, ExpiryShape
    <2>3. UNCHANGED questions
      BY <1>6 DEF SetExpiry
    <2> QED
      BY <1>a, <1>b, <1>c, <2>1, <2>2, <2>3
  <1> QED
    BY <1>1, <1>2, <1>3, <1>4, <1>5, <1>6 DEF ReaderStep

(***************************************************************************)
(* Every step keeps the variables in their types.                          *)
(***************************************************************************)
LEMMA TypedStep == Typed /\ [Next]_vars => Typed'
  <1> SUFFICES ASSUME Typed, [Next]_vars PROVE Typed'
    OBVIOUS
  <1> USE DEF Typed
  <1>1. ASSUME NEW u \in Uris, Edit(u) PROVE Typed'
    <2>1. /\ run' \in [Runs -> RunState]
          /\ \A j \in Runs : run'[j] = [run[j] EXCEPT !.fresh = FALSE]
      BY <1>1, StaleShape DEF Edit, RunPart
    <2>2. ASSUME NEW j \in Runs
          PROVE  /\ run'[j].pc = run[j].pc /\ run'[j].cur = run[j].cur /\ run'[j].raw = run[j].raw
                 /\ run'[j].todo = run[j].todo
      BY <2>1 DEF RunState, RunPart
    <2>3. RunPart'
      BY <2>1, <2>2 DEF RunPart, Loaded
    <2>4. edits + 2 \in Hashes /\ edits' \in 0 .. MaxEdits
      BY <1>1, CatalogConstants DEF Edit, StorePart, Hashes
    <2>5. source' \in [Uris -> Hashes \cup {Absent}]
      BY <1>1, <2>4 DEF Edit, StorePart
    <2>6. StorePart'
      BY <1>1, <2>4, <2>5 DEF Edit, StorePart
    <2>7. AnswerPart'
      BY <1>1 DEF Edit, AnswerPart
    <2> QED
      BY <2>3, <2>6, <2>7
  <1>2. ASSUME NEW i \in Runs, RunStep(i) \/ DocumentFails(i) \/ RunDies(i) \/ InvalidationLost(i)
        PROVE  Typed'
    <2>1. RunPart' /\ StorePart'
      BY <1>2, RunPartStep, StorePartStep
    <2>2. CASE FindEntries(i)
      <3>1. /\ reader' \in [Readers -> ReaderState]
            /\ \A r \in Readers : reader'[r].pc = reader[r].pc /\ reader'[r].key = reader[r].key
        BY <2>2, MarkShape DEF AnswerPart
      <3>2. UNCHANGED questions
        BY <2>2 DEF FindEntries
      <3>3. \A f \in cache' : f \in Entry /\ \E e \in cache : f.key = e.key
        BY <2>2, FindCache DEF AnswerPart
      <3> QED
        BY <2>1, <3>1, <3>2, <3>3 DEF AnswerPart
    <2>3. CASE DeleteEntries(i)
      BY <2>1, <2>3 DEF DeleteEntries, AnswerPart
    <2>4. CASE ~FindEntries(i) /\ ~DeleteEntries(i)
      <3>1. UNCHANGED <<reader, cache, questions>>
        BY <1>2, <2>4
        DEF RunStep, Load, ReadHash, TombstoneOne, upsert_document, CommitDocument, SelectMissing,
            CommitRun, DeadlockDetected, DocumentFails, RunDies, InvalidationLost
      <3> QED
        BY <2>1, <3>1 DEF AnswerPart
    <2> QED
      BY <2>2, <2>3, <2>4
  <1>3. ASSUME NEW r \in Readers, ReaderStep(r) PROVE Typed'
    <2>1. UNCHANGED <<source, edits, documents, chunks, lock, run, missed>>
      BY <1>3
      DEF ReaderStep, LookupHit, LookupMiss, hybrid_search, NotCached, WriteEntry, SetExpiry,
          NextQuestion, ReaderDies
    <2>2. UNCHANGED faults \/ (faults < MaxFaults /\ faults' = faults + 1)
      BY <1>3
      DEF ReaderStep, LookupHit, LookupMiss, hybrid_search, NotCached, WriteEntry, SetExpiry,
          NextQuestion, ReaderDies
    <2>3. faults' \in 0 .. MaxFaults
      BY <2>2, CatalogConstants DEF StorePart
    <2>4. RunPart' /\ StorePart'
      BY <2>1, <2>3 DEF RunPart, StorePart, Loaded
    <2> QED
      BY <1>3, <2>4, AnswerPartStep
  <1>4. CASE EntryExpires \/ UNCHANGED vars
    <2>1. /\ UNCHANGED <<source, edits, documents, chunks, lock, run, reader, questions, missed, faults>>
          /\ cache' \subseteq cache
      BY <1>4 DEF EntryExpires, vars
    <2> QED
      BY <2>1 DEF RunPart, StorePart, AnswerPart, Loaded
  <1> QED
    BY <1>1, <1>2, <1>3, <1>4 DEF Next, ReaderStep

\* The catalogue as it was ingested at first is typed.
LEMMA TypedStart == Init => Typed
  <1> SUFFICES ASSUME Init PROVE Typed
    OBVIOUS
  <1> USE CatalogConstants DEF Init
  <1>1. RunPart
    <2>1. run \in [Runs -> RunState] /\ \A i \in Runs : run[i] = IdleRun
      BY IdleTyped
    <2> QED
      BY <2>1 DEF RunPart, Loaded, IdleRun
  <1>2. StorePart
    <2>1. 1 \in Hashes
      BY DEF Hashes
    <2> QED
      BY <2>1 DEF StorePart, Chunk
  <1>3. AnswerPart
    <2>1. reader \in [Readers -> ReaderState] /\ \A r \in Readers : reader[r] = IdleReader
      BY IdleTyped
    <2> QED
      BY <2>1 DEF AnswerPart, IdleReader
  <1> QED
    BY <1>1, <1>2, <1>3 DEF Typed

(***************************************************************************)
(* Every reachable state is typed.                                         *)
(***************************************************************************)
THEOREM CatalogTyped == Spec => []TypeOK
  <1>1. Typed => TypeOK
    BY TypedParts
  <1> QED
    BY <1>1, TypedStart, TypedStep, PTL DEF Spec

-----------------------------------------------------------------------------
(* The rows and the chunks *)

\* The chunks of a document in a set of chunks.
In(C, u) == {c \in C : c.uri = u}

Holding == HoldsDocument /\ HoldsTombstones

\* StoreInv is the typing, who holds which lock, and that chunks match their document.
LEMMA StoreParts ==
    /\ StoreInv <=> Typed /\ Holding /\ CatalogConsistent
    /\ StoreInv' <=> Typed' /\ Holding' /\ CatalogConsistent'
  BY DEF StoreInv, Holding, Typed, RunPart, StorePart, AnswerPart, TypeOK

\* A step of run i that leaves the rows and chunks others have locked alone.
LEMMA HoldingBy ==
    ASSUME Typed, Holding, NEW i \in Runs, NEW s, Becomes(i, s),
           \A j \in Runs, u \in Uris : j # i /\ lock[u] = j => lock'[u] = j /\ In(chunks', u) = In(chunks, u),
           s.pc = "embed" => lock'[s.cur] = i /\ s.doomed = In(chunks', s.cur),
           s.pc \in {"idle", "pick", "upsert", "embed"} => s.missing = {} /\ s.gone = {},
           s.pc = "tombstone" => \A u \in s.gone : lock'[u] = i
    PROVE  Holding'
  <1> USE DEF Holding, Becomes
  <1>1. ASSUME NEW j \in Runs, run'[j].pc = "embed"
        PROVE  lock'[run'[j].cur] = j /\ run'[j].doomed = In(chunks', run'[j].cur)
    <2>1. CASE j = i
      BY <1>1, <2>1
    <2>2. CASE j # i
      <3>1. run'[j] = run[j] /\ lock[run[j].cur] = j /\ run[j].doomed = In(chunks, run[j].cur)
        BY <1>1, <2>2 DEF HoldsDocument, ChunksOf, In
      <3>2. run[j].cur \in Uris
        BY <1>1, <3>1 DEF Typed, RunPart, RunState
      <3> QED
        BY <2>2, <3>1, <3>2
    <2> QED
      BY <2>1, <2>2
  <1>2. ASSUME NEW j \in Runs
        PROVE  /\ run'[j].pc \in {"idle", "pick", "upsert", "embed"} =>
                    run'[j].missing = {} /\ run'[j].gone = {}
               /\ run'[j].pc = "tombstone" => \A u \in run'[j].gone : lock'[u] = j
    <2>1. CASE j = i
      BY <2>1
    <2>2. CASE j # i
      <3>1. run[j].gone \subseteq Uris
        BY DEF Typed, RunPart, RunState
      <3> QED
        BY <2>2, <3>1 DEF HoldsTombstones
    <2> QED
      BY <2>1, <2>2
  <1> QED
    BY <1>1, <1>2 DEF HoldsDocument, ChunksOf, In, HoldsTombstones

\* Rows and chunks stay: so does their agreement.
LEMMA ConsistentQuiet ==
    ASSUME CatalogConsistent, UNCHANGED <<documents, chunks>>
    PROVE  CatalogConsistent' /\ \A u : In(chunks', u) = In(chunks, u)
  BY DEF CatalogConsistent, ChunksOf, In, ChunksOf

\* The chunks of the new version are all the document has.
LEMMA CommitDocumentKeeps ==
    ASSUME Typed, Holding, CatalogConsistent, NEW i \in Runs, CommitDocument(i)
    PROVE  CatalogConsistent' /\ Holding'
  <1> DEFINE u == run[i].cur
             h == run[i].raw[u]
             new == [uri |-> u, hash |-> h, by |-> i]
             s == [run[i] EXCEPT !.pc = "pick", !.cur = NoUri, !.doomed = {},
                                 !.changed = @ \cup {run[i].cur}]
  <1>1. /\ run \in [Runs -> RunState] /\ run[i] \in RunState /\ run[i].pc = "embed"
        /\ documents \in [Uris -> [hash : Hashes \cup {Absent}, live : BOOLEAN]]
        /\ lock \in [Uris -> Runs \cup {Nobody}]
    BY DEF Typed, RunPart, StorePart, CommitDocument
  <1>2. u \in Uris
    BY <1>1 DEF Typed, RunPart, RunState
  <1>3. lock[u] = i /\ run[i].doomed = In(chunks, u) /\ run[i].missing = {} /\ run[i].gone = {}
    BY <1>1 DEF Holding, HoldsDocument, HoldsTombstones, ChunksOf, In
  <1>4. /\ documents' = [documents EXCEPT ![u] = [hash |-> h, live |-> TRUE]]
        /\ chunks' = (chunks \ In(chunks, u)) \cup {new}
        /\ lock' = [lock EXCEPT ![u] = Nobody]
    BY <1>3 DEF CommitDocument, insert_chunk, chunk_markdown
  <1>5. Becomes(i, s)
    BY <1>1, <1>2, CommitDocumentShape
  <1>6. s.pc = "pick" /\ s.missing = {} /\ s.gone = {}
    BY <1>1, <1>3 DEF RunState
  <1> HIDE DEF u, h, s
  <1>7. In(chunks', u) = {new} /\ new.hash = h
    BY <1>4 DEF In
  <1>8. \A v : v # u => In(chunks', v) = In(chunks, v)
    BY <1>4 DEF In
  <1> HIDE DEF new
  <1>9. CatalogConsistent'
    <2> SUFFICES ASSUME NEW v \in Uris
                 PROVE  IF documents'[v].live
                        THEN /\ Cardinality(In(chunks', v)) = 1
                             /\ \A c \in In(chunks', v) : c.hash = documents'[v].hash
                        ELSE In(chunks', v) = {}
      BY DEF CatalogConsistent, ChunksOf, In
    <2>1. CASE v = u
      <3>1. documents'[u].live = TRUE /\ documents'[u].hash = h
        BY <1>1, <1>2, <1>4
      <3>2. Cardinality({new}) = 1
        BY FS_Singleton
      <3> QED
        BY <1>7, <2>1, <3>1, <3>2
    <2>2. CASE v # u
      BY <1>1, <1>4, <1>8, <2>2 DEF CatalogConsistent, ChunksOf, In
    <2> QED
      BY <2>1, <2>2
  <1>10. \A j \in Runs, v \in Uris : j # i /\ lock[v] = j => lock'[v] = j /\ In(chunks', v) = In(chunks, v)
    BY <1>1, <1>3, <1>4, <1>8
  <1> QED
    BY <1>5, <1>6, <1>9, <1>10, HoldingBy

\* The tombstones take the chunks of their documents along, and touch no other.
LEMMA CommitRunKeeps ==
    ASSUME Typed, Holding, CatalogConsistent, NEW i \in Runs, CommitRun(i)
    PROVE  CatalogConsistent' /\ Holding'
  <1>1. /\ run \in [Runs -> RunState] /\ run[i] \in RunState /\ run[i].pc = "tombstone"
        /\ documents \in [Uris -> [hash : Hashes \cup {Absent}, live : BOOLEAN]]
        /\ lock \in [Uris -> Runs \cup {Nobody}]
        /\ \A u \in run[i].gone : lock[u] = i
    BY DEF Typed, RunPart, StorePart, CommitRun, Holding, HoldsTombstones
  <1>2. /\ documents' = [u \in Uris |-> IF u \in run[i].gone
                                        THEN [documents[u] EXCEPT !.live = FALSE] ELSE documents[u]]
        /\ chunks' = {c \in chunks : c.uri \notin run[i].gone}
        /\ lock' = Released(i)
    BY DEF CommitRun
  <1>3. /\ \A v : v \in run[i].gone => In(chunks', v) = {}
        /\ \A v : v \notin run[i].gone => In(chunks', v) = In(chunks, v)
    BY <1>2 DEF In
  <1>4. CatalogConsistent'
    <2> SUFFICES ASSUME NEW v \in Uris
                 PROVE  IF documents'[v].live
                        THEN /\ Cardinality(In(chunks', v)) = 1
                             /\ \A c \in In(chunks', v) : c.hash = documents'[v].hash
                        ELSE In(chunks', v) = {}
      BY DEF CatalogConsistent, ChunksOf, In
    <2>1. CASE v \in run[i].gone
      <3>1. documents'[v] = [documents[v] EXCEPT !.live = FALSE]
        BY <1>2, <2>1
      <3>2. documents[v] \in [hash : Hashes \cup {Absent}, live : BOOLEAN]
        BY <1>1
      <3>3. documents'[v].live = FALSE
        BY <3>1, <3>2
      <3> QED
        BY <1>3, <2>1, <3>3
    <2>2. CASE v \notin run[i].gone
      <3>1. documents'[v] = documents[v] /\ In(chunks', v) = In(chunks, v)
        BY <1>2, <1>3, <2>2
      <3> QED
        BY <3>1 DEF CatalogConsistent, ChunksOf, In
    <2> QED
      BY <2>1, <2>2
  <1>5. ASSUME NEW j \in Runs, NEW v \in Uris, j # i, lock[v] = j
        PROVE  lock'[v] = j /\ In(chunks', v) = In(chunks, v)
    BY <1>1, <1>2, <1>3, <1>5 DEF Released
  <1> DEFINE s == [run[i] EXCEPT !.pc = "invalidate"]
  <1>6. Becomes(i, Finished(run[i])) \/ Becomes(i, s)
    BY <1>1, CommitRunShape
  <1>7. s.pc = "invalidate" /\ Finished(run[i]).pc = "done"
    BY <1>1, FinishedTyped DEF RunState
  <1> HIDE DEF s
  <1>8. Holding'
    BY <1>5, <1>6, <1>7, HoldingBy
  <1> QED
    BY <1>4, <1>8

\* The steps of a run that commit nothing: only its own locks change hands.
LEMMA RunKeepsStore ==
    ASSUME Typed, Holding, CatalogConsistent, NEW i \in Runs,
           RunStep(i) \/ DocumentFails(i) \/ RunDies(i) \/ InvalidationLost(i),
           ~CommitDocument(i), ~CommitRun(i)
    PROVE  CatalogConsistent' /\ Holding'
  <1>a. /\ run \in [Runs -> RunState] /\ run[i] \in RunState
        /\ run[i].pc \in {"upsert", "embed"} <=> run[i].cur # NoUri
        /\ lock \in [Uris -> Runs \cup {Nobody}]
        /\ source \in [Uris -> Hashes \cup {Absent}] /\ chunks \subseteq Chunk /\ questions \in Nat
        /\ Nobody \notin Runs
    BY CatalogConstants DEF Typed, RunPart, StorePart, AnswerPart
  <1>b. UNCHANGED <<documents, chunks>>
    BY DEF RunStep, Load, ReadHash, TombstoneOne, upsert_document, SelectMissing, FindEntries,
           DeleteEntries, DeadlockDetected, DocumentFails, RunDies, InvalidationLost
  <1>c. CatalogConsistent' /\ \A u : In(chunks', u) = In(chunks, u)
    BY <1>b, ConsistentQuiet
  <1>d. /\ run[i].pc \in {"idle", "pick", "upsert", "embed"} => run[i].missing = {} /\ run[i].gone = {}
        /\ run[i].pc = "tombstone" => \A u \in run[i].gone : lock[u] = i
    BY DEF Holding, HoldsTombstones
  \* Enough for HoldingBy: a lock that changes was free or is the run's own.
  <1>e. ASSUME NEW s, Becomes(i, s),
               \A u \in Uris : lock[u] # lock'[u] => lock[u] \in {Nobody, i},
               s.pc = "embed" => lock'[s.cur] = i /\ s.doomed = In(chunks, s.cur),
               s.pc \in {"idle", "pick", "upsert", "embed"} => s.missing = {} /\ s.gone = {},
               s.pc = "tombstone" => \A u \in s.gone : lock'[u] = i
        PROVE  Holding'
    BY <1>a, <1>c, <1>e, HoldingBy
  <1>1. CASE Load(i)
    <2>1. /\ run' \in [Runs -> RunState] /\ run[i].pc = "idle"
          /\ run'[i] = [run[i] EXCEPT !.pc = "pick", !.raw = source,
                                      !.todo = {u \in Uris : source[u] # Absent},
                                      !.fresh = \A j \in Runs : Over(j)]
          /\ \A j \in Runs : j # i => run'[j] = [run[j] EXCEPT !.fresh = FALSE]
      BY <1>1, <1>a, LoadShape
    <2>2. run'[i].pc = "pick" /\ run'[i].missing = {} /\ run'[i].gone = {}
      BY <1>a, <1>d, <2>1 DEF RunState
    <2>3. ASSUME NEW j \in Runs, j # i
          PROVE  /\ run'[j].pc = run[j].pc /\ run'[j].cur = run[j].cur
                 /\ run'[j].doomed = run[j].doomed /\ run'[j].missing = run[j].missing
                 /\ run'[j].gone = run[j].gone
      BY <1>a, <2>1, <2>3 DEF RunState
    <2>4. UNCHANGED lock
      BY <1>1 DEF Load
    <2>5. HoldsDocument'
      BY <1>b, <2>2, <2>3, <2>4 DEF Holding, HoldsDocument, ChunksOf
    <2>6. HoldsTombstones'
      BY <2>2, <2>3, <2>4 DEF Holding, HoldsTombstones
    <2> QED
      BY <1>c, <2>5, <2>6 DEF Holding
  <1>2. CASE ReadHash(i)
    <2>1. PICK u \in Uris :
             /\ run[i].pc = "pick"
             /\ \/ Becomes(i, [run[i] EXCEPT !.todo = @ \ {u}])
                \/ Becomes(i, [run[i] EXCEPT !.todo = @ \ {u}, !.cur = u, !.pc = "upsert"])
      BY <1>2, <1>a, ReadHashShape
    <2> DEFINE s == [run[i] EXCEPT !.todo = @ \ {u}]
               t == [run[i] EXCEPT !.todo = @ \ {u}, !.cur = u, !.pc = "upsert"]
    <2>2. /\ s.pc = "pick" /\ s.missing = {} /\ s.gone = {}
          /\ t.pc = "upsert" /\ t.missing = {} /\ t.gone = {}
      BY <1>a, <1>d, <2>1 DEF RunState
    <2>3. UNCHANGED lock
      BY <1>2 DEF ReadHash
    <2>4. Becomes(i, s) \/ Becomes(i, t)
      BY <2>1
    <2> HIDE DEF s, t
    <2>5. CASE Becomes(i, s)
      BY <1>c, <1>e, <2>2, <2>3, <2>5
    <2>6. CASE Becomes(i, t)
      BY <1>c, <1>e, <2>2, <2>3, <2>6
    <2> QED
      BY <2>4, <2>5, <2>6
  <1>3. CASE upsert_document(i)
    <2> DEFINE s == [run[i] EXCEPT !.pc = "embed", !.doomed = ChunksOf(run[i].cur)]
    <2>1. Becomes(i, s)
      BY <1>3, <1>a, UpsertShape
    <2>2. /\ run[i].pc = "upsert" /\ run[i].cur \in Uris /\ lock[run[i].cur] = Nobody
          /\ lock' = [lock EXCEPT ![run[i].cur] = i]
      BY <1>3, <1>a DEF upsert_document, RunState
    <2>3. /\ s.pc = "embed" /\ s.cur = run[i].cur /\ s.doomed = In(chunks, run[i].cur)
          /\ s.missing = {} /\ s.gone = {}
      BY <1>a, <1>d, <2>2 DEF RunState, ChunksOf, In
    <2> HIDE DEF s
    <2>4. lock'[run[i].cur] = i /\ \A u \in Uris : lock[u] # lock'[u] => lock[u] = Nobody
      BY <1>a, <2>2
    <2> QED
      BY <1>c, <1>e, <2>1, <2>3, <2>4
  <1>4. CASE Ends(i)
    <2> DEFINE s == [IdleRun EXCEPT !.pc = "dead"]
    <2>1. Becomes(i, s) /\ s.pc = "dead" /\ lock' = Released(i)
      BY <1>4, <1>a, DieShape, DeadTyped
    <2> HIDE DEF s
    <2> QED
      BY <1>a, <1>c, <1>e, <2>1, ReleasedTyped
  <1>5. CASE SelectMissing(i)
    <2> DEFINE rows == {u \in Uris : documents[u].live /\ run[i].raw[u] = Absent}
               s == [run[i] EXCEPT !.pc = "tombstone", !.missing = rows]
    <2>1. Becomes(i, s)
      BY <1>5, <1>a, SelectShape
    <2>2. run[i].pc = "pick" /\ UNCHANGED lock
      BY <1>5 DEF SelectMissing
    <2> HIDE DEF rows
    <2>3. s.pc = "tombstone" /\ s.gone = {}
      BY <1>a, <1>d, <2>2 DEF RunState
    <2> HIDE DEF s
    <2> QED
      BY <1>c, <1>e, <2>1, <2>2, <2>3
  <1>6. ASSUME NEW u \in Uris, TombstoneOne(i, u) PROVE CatalogConsistent' /\ Holding'
    <2> DEFINE s == [run[i] EXCEPT !.missing = @ \ {u}, !.gone = @ \cup {u}]
    <2>1. Becomes(i, s)
      BY <1>6, <1>a, TombstoneShape
    <2>2. run[i].pc = "tombstone" /\ lock[u] = Nobody /\ lock' = [lock EXCEPT ![u] = i]
      BY <1>6 DEF TombstoneOne
    <2>3. s.pc = "tombstone" /\ s.gone = run[i].gone \cup {u} /\ s.gone \subseteq Uris
      BY <1>a, <2>2 DEF RunState
    <2> HIDE DEF s
    <2>4. /\ \A v \in s.gone : lock'[v] = i
          /\ \A v \in Uris : lock[v] # lock'[v] => lock[v] = Nobody
      BY <1>a, <1>d, <2>2, <2>3
    <2> QED
      BY <1>c, <1>e, <2>1, <2>3, <2>4
  <1>7. CASE FindEntries(i)
    <2>0. PICK page \in SUBSET Citing(i) :
             Becomes(i, [run[i] EXCEPT !.pc = "purge", !.victims = page])
      BY <1>7, <1>a, FindShape
    <2> DEFINE s == [run[i] EXCEPT !.pc = "purge", !.victims = page]
    <2>1. Becomes(i, s)
      BY <2>0
    <2>2. UNCHANGED lock
      BY <1>7 DEF FindEntries
    <2>3. s.pc = "purge"
      BY <1>a DEF RunState
    <2> HIDE DEF s
    <2> QED
      BY <1>c, <1>e, <2>1, <2>2, <2>3
  <1>8. CASE DeleteEntries(i) \/ InvalidationLost(i)
    <2>1. Becomes(i, Finished(run[i])) /\ Finished(run[i]).pc = "done"
      BY <1>8, <1>a, FinishShape, FinishedTyped
    <2>2. UNCHANGED lock
      BY <1>8 DEF DeleteEntries, InvalidationLost
    <2> QED
      BY <1>c, <1>e, <2>1, <2>2
  <1> QED
    BY <1>1, <1>2, <1>3, <1>4, <1>5, <1>6, <1>7, <1>8 DEF RunStep, Ends

(***************************************************************************)
(* Every step keeps the rows and the chunks in agreement.                  *)
(***************************************************************************)
LEMMA StoreStep == StoreInv /\ [Next]_vars => StoreInv'
  <1> SUFFICES ASSUME Typed, Holding, CatalogConsistent, [Next]_vars
               PROVE  Typed' /\ Holding' /\ CatalogConsistent'
    BY StoreParts
  <1>0. Typed'
    BY TypedStep
  <1>1. ASSUME NEW u \in Uris, Edit(u) PROVE Holding' /\ CatalogConsistent'
    <2>1. UNCHANGED <<documents, chunks, lock>>
      BY <1>1 DEF Edit
    <2>2. \A j \in Runs : run'[j] = [run[j] EXCEPT !.fresh = FALSE]
      BY <1>1, StaleShape DEF Edit, Typed, RunPart
    <2>3. ASSUME NEW j \in Runs
          PROVE  /\ run'[j].pc = run[j].pc /\ run'[j].cur = run[j].cur
                 /\ run'[j].doomed = run[j].doomed /\ run'[j].missing = run[j].missing
                 /\ run'[j].gone = run[j].gone
      BY <2>2 DEF RunState, Typed, RunPart
    <2>4. HoldsDocument' /\ HoldsTombstones'
      BY <2>1, <2>3 DEF Holding, HoldsDocument, HoldsTombstones, ChunksOf
    <2> QED
      BY <2>1, <2>4, ConsistentQuiet DEF Holding
  <1>2. ASSUME NEW i \in Runs, RunStep(i) \/ DocumentFails(i) \/ RunDies(i) \/ InvalidationLost(i)
        PROVE  Holding' /\ CatalogConsistent'
    <2>1. CASE CommitDocument(i) \/ CommitRun(i)
      BY <2>1, CommitDocumentKeeps, CommitRunKeeps
    <2>2. CASE ~CommitDocument(i) /\ ~CommitRun(i)
      BY <1>2, <2>2, RunKeepsStore
    <2> QED
      BY <2>1, <2>2
  <1>3. CASE (\E r \in Readers : ReaderStep(r)) \/ EntryExpires \/ UNCHANGED vars
    <2>1. UNCHANGED <<documents, chunks, lock, run>>
      BY <1>3
      DEF ReaderStep, LookupHit, LookupMiss, hybrid_search, NotCached, WriteEntry, SetExpiry,
          NextQuestion, ReaderDies, EntryExpires, vars
    <2>2. HoldsDocument' /\ HoldsTombstones'
      BY <2>1 DEF Holding, HoldsDocument, HoldsTombstones, ChunksOf
    <2>3. CatalogConsistent'
      BY <2>1, ConsistentQuiet
    <2> QED
      BY <1>0, <2>2, <2>3 DEF Holding
  <1> QED
    BY <1>0, <1>1, <1>2, <1>3 DEF Next, ReaderStep

\* At first no run holds a lock and every chunk matches its document.
LEMMA StoreStart == Init => StoreInv
  <1> SUFFICES ASSUME Init PROVE Holding /\ CatalogConsistent
    BY TypedStart, StoreParts
  <1>1. \A i \in Runs : run[i] = IdleRun
    BY DEF Init
  <1>2. Holding
    BY <1>1 DEF Holding, HoldsDocument, HoldsTombstones, IdleRun
  <1>3. ASSUME NEW u \in Uris
        PROVE  /\ ChunksOf(u) = {[uri |-> u, hash |-> 1, by |-> Nobody]}
               /\ documents[u].live = TRUE /\ documents[u].hash = 1
    <2>1. documents[u] = [hash |-> 1, live |-> TRUE]
      BY DEF Init
    <2>2. chunks = {[uri |-> v, hash |-> 1, by |-> Nobody] : v \in Uris}
      BY DEF Init
    <2> QED
      BY <2>1, <2>2 DEF ChunksOf
  <1>4. ASSUME NEW u \in Uris
        PROVE  Cardinality(ChunksOf(u)) = 1 /\ \A c \in ChunksOf(u) : c.hash = 1
    <2> DEFINE first == [uri |-> u, hash |-> 1, by |-> Nobody]
    <2>1. ChunksOf(u) = {first} /\ first.hash = 1
      BY <1>3
    <2> HIDE DEF first
    <2>2. Cardinality({first}) = 1
      BY FS_Singleton
    <2> QED
      BY <2>1, <2>2
  <1>5. CatalogConsistent
    BY <1>3, <1>4 DEF CatalogConsistent
  <1> QED
    BY <1>2, <1>5

(***************************************************************************)
(* A live document is searchable in exactly one version, the one its row   *)
(* names, and a deleted one not at all.                                    *)
(***************************************************************************)
THEOREM CatalogStaysConsistent == Spec => []CatalogConsistent
  <1>1. StoreInv => CatalogConsistent
    BY DEF StoreInv
  <1> QED
    BY <1>1, StoreStart, StoreStep, PTL DEF Spec

-----------------------------------------------------------------------------
(* Who may read what *)

\* The search returns what the user may read, an answer is cached for users with the same
\* groups, and a hit gives a user the entries of that namespace.
LEMMA AclStep == Typed /\ AclRespected /\ NamespaceKeepsAcl /\ [Next]_vars
                    => AclRespected' /\ NamespaceKeepsAcl'
  <1> SUFFICES ASSUME Typed, AclRespected, NamespaceKeepsAcl, [Next]_vars
               PROVE  AclRespected' /\ NamespaceKeepsAcl'
    OBVIOUS
  <1>a. /\ reader \in [Readers -> ReaderState] /\ cache \subseteq Entry /\ chunks \subseteq Chunk
        /\ questions \in Nat
    BY CatalogConstants DEF Typed, AnswerPart, StorePart
  \* Steps that give nobody anything new to cite.
  <1>b. ASSUME \A r \in Readers : reader'[r].found \subseteq reader[r].found, cache' \subseteq cache
        PROVE  AclRespected' /\ NamespaceKeepsAcl'
    BY <1>b DEF AclRespected, NamespaceKeepsAcl
  <1>1. ASSUME NEW u \in Uris, Edit(u) PROVE AclRespected' /\ NamespaceKeepsAcl'
    BY <1>1, <1>b DEF Edit
  <1>2. ASSUME NEW i \in Runs, RunStep(i) \/ DocumentFails(i) \/ RunDies(i) \/ InvalidationLost(i)
        PROVE  AclRespected' /\ NamespaceKeepsAcl'
    <2>1. CASE FindEntries(i)
      <3>1. \A r \in Readers : reader'[r].found = reader[r].found
        BY <1>a, <2>1, MarkShape
      <3>2. \A f \in cache' : \E e \in cache : f.cites = e.cites /\ f.namespace = e.namespace
        BY <1>a, <2>1, FindCache
      <3> QED
        BY <3>1, <3>2 DEF AclRespected, NamespaceKeepsAcl
    <2>2. CASE ~FindEntries(i)
      <3>1. UNCHANGED reader /\ cache' \subseteq cache
        BY <1>2, <2>2
        DEF RunStep, Load, ReadHash, TombstoneOne, upsert_document, CommitDocument, SelectMissing,
            CommitRun, DeleteEntries, DeadlockDetected, DocumentFails, RunDies, InvalidationLost
      <3> QED
        BY <1>b, <3>1
    <2> QED
      BY <2>1, <2>2
  <1>3. ASSUME NEW r \in Readers, ReaderStep(r) PROVE AclRespected' /\ NamespaceKeepsAcl'
    <2>a. ASSUME NEW s, ReadsOn(r, s), \A c \in s.found : AclOf[c.uri] \in GroupsOf[r]
          PROVE  AclRespected'
      BY <2>a DEF AclRespected, ReadsOn
    <2>b. reader[r] \in ReaderState
      BY <1>a
    <2>1. CASE LookupHit(r)
      <3>1. PICK e \in cache :
              /\ e.namespace = acl_hash(GroupsOf[r])
              /\ ReadsOn(r, [IdleReader EXCEPT !.pc = "served", !.found = e.cites])
        BY <1>a, <2>1, HitShape
      <3> DEFINE s == [IdleReader EXCEPT !.pc = "served", !.found = e.cites]
      <3>2. s.found = e.cites
        BY DEF IdleReader
      <3>3. UNCHANGED cache
        BY <2>1 DEF LookupHit
      <3>4. ReadsOn(r, s)
        BY <3>1
      <3> HIDE DEF s
      <3>5. AclRespected'
        BY <2>a, <3>1, <3>2, <3>4 DEF NamespaceKeepsAcl
      <3> QED
        BY <3>3, <3>5 DEF NamespaceKeepsAcl
    <2>2. CASE LookupMiss(r)
      <3> DEFINE s == [reader[r] EXCEPT !.pc = "search", !.key = questions + 1]
      <3>1. ReadsOn(r, s) /\ s.found = reader[r].found /\ UNCHANGED cache
        BY <1>a, <2>2, <2>b, MissShape DEF LookupMiss, ReaderState
      <3> HIDE DEF s
      <3> QED
        BY <2>a, <3>1 DEF AclRespected, NamespaceKeepsAcl
    <2>3. CASE hybrid_search(r)
      <3>1. PICK best \in SUBSET Visible(r) :
              ReadsOn(r, [reader[r] EXCEPT !.pc = "answer", !.found = best])
        BY <1>a, <2>3, SearchShape
      <3> DEFINE s == [reader[r] EXCEPT !.pc = "answer", !.found = best]
      <3>2. ReadsOn(r, s) /\ s.found = best
        BY <2>b, <3>1 DEF ReaderState
      <3>3. UNCHANGED cache /\ \A c \in best : AclOf[c.uri] \in GroupsOf[r]
        BY <2>3 DEF hybrid_search, Visible
      <3> HIDE DEF s
      <3> QED
        BY <2>a, <3>2, <3>3 DEF NamespaceKeepsAcl
    <2>4. CASE NotCached(r) \/ NextQuestion(r) \/ ReaderDies(r) \/ SetExpiry(r)
      <3>1. ReadsOn(r, IdleReader) /\ IdleReader.found = {}
        BY <1>a, <2>4, IdleShape DEF IdleReader
      <3>2. AclRespected'
        BY <2>a, <3>1
      <3>3. \A f \in cache' : \E e \in cache : f.cites = e.cites /\ f.namespace = e.namespace
        <4>1. CASE SetExpiry(r)
          BY <1>a, <4>1, ExpiryShape
        <4>2. CASE ~SetExpiry(r)
          BY <2>4, <4>2 DEF NotCached, NextQuestion, ReaderDies
        <4> QED
          BY <4>1, <4>2
      <3>4. NamespaceKeepsAcl'
        BY <3>3 DEF NamespaceKeepsAcl
      <3> QED
        BY <3>2, <3>4
    <2>5. CASE WriteEntry(r)
      <3> DEFINE s == [reader[r] EXCEPT !.pc = "expire"]
      <3>1. ReadsOn(r, s) /\ s.found = reader[r].found
        BY <1>a, <2>5, <2>b, WriteShape DEF ReaderState
      <3> HIDE DEF s
      <3>2. AclRespected'
        BY <2>a, <3>1 DEF AclRespected
      <3>3. /\ cache' = cache \cup {EntryOf(r)}
            /\ EntryOf(r).cites = reader[r].found /\ EntryOf(r).namespace = GroupsOf[r]
        BY <1>a, <2>5, EntryShape DEF WriteEntry, acl_hash
      <3>4. NamespaceKeepsAcl'
        BY <3>3 DEF NamespaceKeepsAcl, AclRespected, acl_hash
      <3> QED
        BY <3>2, <3>4
    <2> QED
      BY <1>3, <2>1, <2>2, <2>3, <2>4, <2>5 DEF ReaderStep
  <1>4. CASE EntryExpires \/ UNCHANGED vars
    BY <1>4, <1>b DEF EntryExpires, vars
  <1> QED
    BY <1>1, <1>2, <1>3, <1>4 DEF Next, ReaderStep

(***************************************************************************)
(* No answer, fresh or cached, cites a document its user may not read.     *)
(***************************************************************************)
THEOREM AclIsRespected == Spec => []AclRespected
  <1>1. Init => Typed /\ AclRespected /\ NamespaceKeepsAcl
    BY TypedStart DEF Init, AclRespected, NamespaceKeepsAcl, IdleReader
  <1> QED
    BY <1>1, TypedStep, AclStep, PTL DEF Spec

-----------------------------------------------------------------------------
(* What a stale answer is excused by *)

\* What a run with record s has committed and not announced yet.
Says(s) ==
    CASE s.pc \in {"idle", "done", "dead"} -> {}
      [] s.pc \in {"invalidate", "purge"} -> s.changed \cup s.gone
      [] OTHER -> s.changed

\* What a run has committed and not yet announced is a function of its record.
LEMMA SaysUnannounced ==
    ASSUME NEW i \in Runs
    PROVE  Unannounced(i) = Says(run[i]) /\ Unannounced(i)' = Says(run'[i])
  BY DEF Unannounced, Announced, Says

\* What run i had to say is still to be said or was missed, and so it is with the chunks its
\* step removes.
LEMMA ExcuseBy ==
    ASSUME EntriesExcused, AnswersExcused, NEW i \in Runs,
           \A j \in Runs : j # i => /\ Unannounced(j)' = Unannounced(j) /\ run'[j].pc = run[j].pc
                                    /\ run'[j].victims = run[j].victims,
           \A u \in Unannounced(i) : u \in missed' \/ (u \in Unannounced(i)' /\ run'[i].pc # "purge"),
           \A c \in chunks : \/ c \in chunks' \/ c.uri \in missed'
                             \/ (c.uri \in Unannounced(i)' /\ run'[i].pc # "purge"),
           missed \subseteq missed', UNCHANGED <<reader, cache>>
    PROVE  EntriesExcused' /\ AnswersExcused'
  <1>1. ASSUME NEW e \in cache, NEW c \in e.cites, c \notin chunks'
        PROVE  \/ e.raced \/ e.beyond \/ c.uri \in missed'
               \/ \E j \in Runs : /\ c.uri \in Unannounced(j)'
                                  /\ run'[j].pc = "purge" => e.key \in run'[j].victims
    <2>1. CASE c \in chunks
      BY <1>1, <2>1
    <2>2. CASE c \notin chunks
      <3>1. \/ e.raced \/ e.beyond \/ c.uri \in missed
            \/ \E j \in Runs : /\ c.uri \in Unannounced(j)
                               /\ run[j].pc = "purge" => e.key \in run[j].victims
        <4>1. c \in Outdated(e)
          BY <2>2 DEF Outdated
        <4> QED
          BY <4>1 DEF EntriesExcused
      <3>2. ASSUME NEW j \in Runs, c.uri \in Unannounced(j),
                   run[j].pc = "purge" => e.key \in run[j].victims
            PROVE  \/ c.uri \in missed'
                   \/ \E k \in Runs : /\ c.uri \in Unannounced(k)'
                                      /\ run'[k].pc = "purge" => e.key \in run'[k].victims
        <4>1. CASE j = i
          BY <3>2, <4>1
        <4>2. CASE j # i
          BY <3>2, <4>2
        <4> QED
          BY <4>1, <4>2
      <3> QED
        BY <3>1, <3>2
    <2> QED
      BY <2>1, <2>2
  <1>2. ASSUME NEW r \in Readers, reader[r].pc = "answer", NEW c \in reader[r].found,
               c \notin chunks'
        PROVE  \/ reader[r].raced \/ c.uri \in missed'
               \/ \E j \in Runs : c.uri \in Unannounced(j)' /\ run'[j].pc # "purge"
    <2>1. CASE c \in chunks
      BY <1>2, <2>1
    <2>2. CASE c \notin chunks
      <3>1. \/ reader[r].raced \/ c.uri \in missed
            \/ \E j \in Runs : c.uri \in Unannounced(j) /\ run[j].pc # "purge"
        BY <1>2, <2>2 DEF AnswersExcused
      <3>2. ASSUME NEW j \in Runs, c.uri \in Unannounced(j), run[j].pc # "purge"
            PROVE  \/ c.uri \in missed'
                   \/ \E k \in Runs : c.uri \in Unannounced(k)' /\ run'[k].pc # "purge"
        <4>1. CASE j = i
          BY <3>2, <4>1
        <4>2. CASE j # i
          BY <3>2, <4>2
        <4> QED
          BY <4>1, <4>2
      <3> QED
        BY <3>1, <3>2
    <2> QED
      BY <2>1, <2>2
  <1>3. EntriesExcused'
    BY <1>1 DEF EntriesExcused, Outdated
  <1>4. AnswersExcused'
    BY <1>2 DEF AnswersExcused
  <1> QED
    BY <1>3, <1>4

\* A run that makes an entry stale still has to announce the change, or failed to.
LEMMA ExcuseRunStep ==
    ASSUME Typed, Holding, EntriesExcused, AnswersExcused, NEW i \in Runs,
           RunStep(i) \/ DocumentFails(i) \/ RunDies(i) \/ InvalidationLost(i)
    PROVE  EntriesExcused' /\ AnswersExcused'
  <1>a. /\ run \in [Runs -> RunState] /\ run[i] \in RunState
        /\ run[i].pc \in {"upsert", "embed"} <=> run[i].cur # NoUri
        /\ source \in [Uris -> Hashes \cup {Absent}] /\ chunks \subseteq Chunk /\ questions \in Nat
        /\ reader \in [Readers -> ReaderState] /\ cache \subseteq Entry
        /\ \A e \in cache : e.key \in 1 .. questions
    BY CatalogConstants DEF Typed, RunPart, StorePart, AnswerPart
  <1>b. ASSUME NEW s, Becomes(i, s), NEW j \in Runs, j # i
        PROVE  /\ Unannounced(j)' = Unannounced(j) /\ run'[j].pc = run[j].pc
               /\ run'[j].victims = run[j].victims
    BY <1>b, SaysUnannounced DEF Becomes
  \* Enough for ExcuseBy.
  <1>c. ASSUME NEW s, Becomes(i, s), missed \subseteq missed', UNCHANGED <<reader, cache>>,
               s.pc # "purge",
               \A u \in Says(run[i]) : u \in missed' \/ u \in Says(s),
               \A c \in chunks : c \in chunks' \/ c.uri \in missed' \/ c.uri \in Says(s)
        PROVE  EntriesExcused' /\ AnswersExcused'
    <2>1. run'[i] = s /\ Unannounced(i) = Says(run[i]) /\ Unannounced(i)' = Says(s)
      BY <1>c, SaysUnannounced DEF Becomes
    <2> QED
      BY <1>b, <1>c, <2>1, ExcuseBy
  <1>1. CASE Load(i)
    <2>1. /\ run[i].pc = "idle"
          /\ run'[i] = [run[i] EXCEPT !.pc = "pick", !.raw = source,
                                      !.todo = {u \in Uris : source[u] # Absent},
                                      !.fresh = \A j \in Runs : Over(j)]
          /\ \A j \in Runs : j # i => run'[j] = [run[j] EXCEPT !.fresh = FALSE]
      BY <1>1, <1>a, LoadShape
    <2>2. run'[i].pc = "pick" /\ Unannounced(i) = {}
      BY <1>a, <2>1 DEF RunState, Unannounced
    <2>3. ASSUME NEW j \in Runs, j # i
          PROVE  /\ run'[j].pc = run[j].pc /\ run'[j].changed = run[j].changed
                 /\ run'[j].gone = run[j].gone /\ run'[j].victims = run[j].victims
      <3>1. run[j] \in RunState /\ run'[j] = [run[j] EXCEPT !.fresh = FALSE]
        BY <1>a, <2>1, <2>3
      <3> QED
        BY <3>1 DEF RunState
    <2>4. ASSUME NEW j \in Runs, j # i PROVE Unannounced(j)' = Unannounced(j)
      BY <2>3, <2>4 DEF Unannounced, Announced
    <2>5. UNCHANGED <<chunks, missed, reader, cache>>
      BY <1>1 DEF Load
    <2> QED
      BY <2>2, <2>3, <2>4, <2>5, ExcuseBy
  <1>2. CASE ReadHash(i)
    <2>1. PICK u \in Uris :
             /\ run[i].pc = "pick"
             /\ \/ Becomes(i, [run[i] EXCEPT !.todo = @ \ {u}])
                \/ Becomes(i, [run[i] EXCEPT !.todo = @ \ {u}, !.cur = u, !.pc = "upsert"])
      BY <1>2, <1>a, ReadHashShape
    <2> DEFINE s == [run[i] EXCEPT !.todo = @ \ {u}]
               t == [run[i] EXCEPT !.todo = @ \ {u}, !.cur = u, !.pc = "upsert"]
    <2>2. /\ s.pc = "pick" /\ s.changed = run[i].changed
          /\ t.pc = "upsert" /\ t.changed = run[i].changed
      BY <1>a, <2>1 DEF RunState
    <2>3. UNCHANGED <<chunks, missed, reader, cache>>
      BY <1>2 DEF ReadHash
    <2>4. Becomes(i, s) \/ Becomes(i, t)
      BY <2>1
    <2> HIDE DEF s, t
    <2>5. Says(run[i]) = Says(s) /\ Says(run[i]) = Says(t)
      BY <2>1, <2>2 DEF Says
    <2>6. CASE Becomes(i, s)
      BY <1>c, <2>2, <2>3, <2>5, <2>6
    <2>7. CASE Becomes(i, t)
      BY <1>c, <2>2, <2>3, <2>5, <2>7
    <2> QED
      BY <2>4, <2>6, <2>7
  <1>3. CASE upsert_document(i)
    <2> DEFINE s == [run[i] EXCEPT !.pc = "embed", !.doomed = ChunksOf(run[i].cur)]
    <2>1. Becomes(i, s)
      BY <1>3, <1>a, UpsertShape
    <2>2. s.pc = "embed" /\ s.changed = run[i].changed
      BY <1>a DEF RunState
    <2>3. run[i].pc = "upsert" /\ UNCHANGED <<chunks, missed, reader, cache>>
      BY <1>3 DEF upsert_document
    <2> HIDE DEF s
    <2>4. Says(run[i]) = Says(s)
      BY <2>2, <2>3 DEF Says
    <2> QED
      BY <1>c, <2>1, <2>2, <2>3, <2>4
  <1>4. CASE CommitDocument(i)
    <2> DEFINE s == [run[i] EXCEPT !.pc = "pick", !.cur = NoUri, !.doomed = {},
                                   !.changed = @ \cup {run[i].cur}]
    <2>1. run[i].cur \in Uris /\ run[i].pc = "embed"
      BY <1>4, <1>a DEF CommitDocument, RunState
    <2>2. Becomes(i, s)
      BY <1>4, <1>a, <2>1, CommitDocumentShape
    <2>3. s.pc = "pick" /\ s.changed = run[i].changed \cup {run[i].cur}
      BY <1>a DEF RunState
    <2> HIDE DEF s
    <2>4. Says(s) = Says(run[i]) \cup {run[i].cur}
      BY <2>1, <2>3 DEF Says
    <2>5. run[i].doomed = ChunksOf(run[i].cur)
      BY <2>1 DEF Holding, HoldsDocument
    <2>6. \A c \in chunks : c \in chunks' \/ c.uri = run[i].cur
      BY <1>4, <2>5 DEF CommitDocument, insert_chunk, ChunksOf
    <2>7. UNCHANGED <<missed, reader, cache>>
      BY <1>4 DEF CommitDocument
    <2> QED
      BY <1>c, <2>2, <2>3, <2>4, <2>6, <2>7
  <1>5. CASE Ends(i)
    <2> DEFINE s == [IdleRun EXCEPT !.pc = "dead"]
    <2>1. Becomes(i, s) /\ s.pc = "dead"
      BY <1>5, <1>a, DieShape, DeadTyped
    <2>2. missed' = missed \cup Says(run[i]) /\ UNCHANGED <<chunks, reader, cache>>
      BY <1>5, <1>a, DieShape, SaysUnannounced
    <2> HIDE DEF s
    <2> QED
      BY <1>c, <2>1, <2>2
  <1>6. CASE SelectMissing(i)
    <2> DEFINE rows == {u \in Uris : documents[u].live /\ run[i].raw[u] = Absent}
               s == [run[i] EXCEPT !.pc = "tombstone", !.missing = rows]
    <2>1. Becomes(i, s)
      BY <1>6, <1>a, SelectShape
    <2> HIDE DEF rows
    <2>2. s.pc = "tombstone" /\ s.changed = run[i].changed
      BY <1>a DEF RunState
    <2>3. run[i].pc = "pick" /\ UNCHANGED <<chunks, missed, reader, cache>>
      BY <1>6 DEF SelectMissing
    <2> HIDE DEF s
    <2>4. Says(run[i]) = Says(s)
      BY <2>2, <2>3 DEF Says
    <2> QED
      BY <1>c, <2>1, <2>2, <2>3, <2>4
  <1>7. ASSUME NEW u \in Uris, TombstoneOne(i, u) PROVE EntriesExcused' /\ AnswersExcused'
    <2> DEFINE s == [run[i] EXCEPT !.missing = @ \ {u}, !.gone = @ \cup {u}]
    <2>1. Becomes(i, s)
      BY <1>7, <1>a, TombstoneShape
    <2>2. s.pc = run[i].pc /\ s.changed = run[i].changed
      BY <1>a DEF RunState
    <2>3. run[i].pc = "tombstone" /\ UNCHANGED <<chunks, missed, reader, cache>>
      BY <1>7 DEF TombstoneOne
    <2> HIDE DEF s
    <2>4. Says(run[i]) = Says(s)
      BY <2>2, <2>3 DEF Says
    <2> QED
      BY <1>c, <2>1, <2>2, <2>3, <2>4
  <1>8. CASE CommitRun(i)
    <2> DEFINE s == [run[i] EXCEPT !.pc = "invalidate"]
    <2>1. /\ run[i].pc = "tombstone" /\ UNCHANGED <<missed, reader, cache>>
          /\ chunks' = {c \in chunks : c.uri \notin run[i].gone}
      BY <1>8 DEF CommitRun
    <2>2. /\ s.pc = "invalidate" /\ s.changed = run[i].changed /\ s.gone = run[i].gone
          /\ Finished(run[i]).pc = "done"
      BY <1>a, FinishedTyped DEF RunState
    <2>3. \/ Announced(i) = {} /\ Becomes(i, Finished(run[i]))
          \/ Becomes(i, s)
      BY <1>8, <1>a, CommitRunShape
    <2> HIDE DEF s
    <2>4. Says(s) = Says(run[i]) \cup run[i].gone
      BY <2>1, <2>2 DEF Says
    <2>5. CASE Becomes(i, s)
      BY <1>c, <2>1, <2>2, <2>4, <2>5
    <2>6. CASE Announced(i) = {} /\ Becomes(i, Finished(run[i]))
      <3>1. Says(run[i]) = {} /\ run[i].gone = {}
        BY <2>1, <2>6 DEF Says, Announced
      <3>2. \A c \in chunks : c \in chunks'
        BY <2>1, <3>1
      <3> QED
        BY <1>c, <2>1, <2>2, <2>6, <3>1, <3>2
    <2> QED
      BY <2>3, <2>5, <2>6
  <1>9. CASE InvalidationLost(i)
    <2>1. Becomes(i, Finished(run[i])) /\ Finished(run[i]).pc = "done"
      BY <1>9, <1>a, FinishShape, FinishedTyped
    <2>2. missed' = missed \cup Says(run[i]) /\ UNCHANGED <<chunks, reader, cache>>
      BY <1>9 DEF InvalidationLost, Announced, Says
    <2> QED
      BY <1>c, <2>1, <2>2
  \* The entries that are left had another excuse than this run.
  <1>10. CASE DeleteEntries(i)
    <2>1. Becomes(i, Finished(run[i])) /\ Finished(run[i]).pc = "done"
      BY <1>10, <1>a, FinishShape, FinishedTyped
    <2>2. /\ run[i].pc = "purge" /\ cache' = {e \in cache : e.key \notin run[i].victims}
          /\ UNCHANGED <<chunks, missed, reader>>
      BY <1>10 DEF DeleteEntries
    <2>3. EntriesExcused'
      <3> SUFFICES ASSUME NEW e \in cache', NEW c \in e.cites, c \notin chunks'
                   PROVE  \/ e.raced \/ e.beyond \/ c.uri \in missed'
                          \/ \E j \in Runs : /\ c.uri \in Unannounced(j)'
                                             /\ run'[j].pc = "purge" => e.key \in run'[j].victims
        BY DEF EntriesExcused, Outdated
      <3>1. e \in cache /\ c \in Outdated(e) /\ e.key \notin run[i].victims
        BY <2>2 DEF Outdated
      <3>2. \/ e.raced \/ e.beyond \/ c.uri \in missed
            \/ \E j \in Runs : /\ c.uri \in Unannounced(j)
                               /\ run[j].pc = "purge" => e.key \in run[j].victims
        BY <3>1 DEF EntriesExcused
      <3> QED
        BY <1>b, <2>1, <2>2, <3>1, <3>2
    <2>4. AnswersExcused'
      <3> SUFFICES ASSUME NEW r \in Readers, reader[r].pc = "answer", NEW c \in reader[r].found,
                          c \notin chunks
                   PROVE  \/ reader[r].raced \/ c.uri \in missed
                          \/ \E j \in Runs : c.uri \in Unannounced(j)' /\ run'[j].pc # "purge"
        BY <2>2 DEF AnswersExcused
      <3>1. \/ reader[r].raced \/ c.uri \in missed
            \/ \E j \in Runs : c.uri \in Unannounced(j) /\ run[j].pc # "purge"
        BY DEF AnswersExcused
      <3> QED
        BY <1>b, <2>1, <2>2, <3>1
    <2> QED
      BY <2>3, <2>4
  \* Entries that cite an announced document are found, or beyond the page; answers that do
  \* are marked.
  <1>11. CASE FindEntries(i)
    <2>0. PICK page \in SUBSET Citing(i) :
             /\ Becomes(i, [run[i] EXCEPT !.pc = "purge", !.victims = page])
             /\ cache' = {IF e.key \in Citing(i) \ page THEN [e EXCEPT !.beyond = TRUE] ELSE e :
                            e \in cache}
      BY <1>11, <1>a, FindShape
    <2> DEFINE keys == Citing(i) \ page
               s == [run[i] EXCEPT !.pc = "purge", !.victims = page]
    <2>1. Becomes(i, s)
      BY <2>0
    <2>2. run[i].pc = "invalidate" /\ UNCHANGED <<chunks, missed>>
      BY <1>11 DEF FindEntries
    <2>3. \A e \in cache : \A c \in e.cites : c.uri \in Announced(i) => e.key \in page \cup keys
      BY <1>a DEF CitesAny, Citing
    <2>a. cache' = {IF e.key \in keys THEN [e EXCEPT !.beyond = TRUE] ELSE e : e \in cache}
      BY <2>0
    <2> HIDE DEF keys
    <2>b. \A f \in cache' : \E e \in cache :
             /\ f.key = e.key /\ f.cites = e.cites /\ f.raced = e.raced
             /\ e.beyond \/ e.key \in keys => f.beyond
      BY <1>a, <2>a, BeyondShape
    <2>4. s.pc = "purge" /\ s.victims = page /\ s.changed = run[i].changed /\ s.gone = run[i].gone
      BY <1>a DEF RunState
    <2>5. run'[i].pc = "purge" /\ run'[i].victims = page
      BY <2>1, <2>4 DEF Becomes
    <2> HIDE DEF s
    <2>6. Unannounced(i) = Announced(i) /\ Unannounced(i)' = Announced(i)
      BY <2>1, <2>2, <2>4, SaysUnannounced DEF Says, Announced, Becomes
    <2>7. ASSUME NEW f \in cache', NEW c \in f.cites, c \notin chunks
          PROVE  \/ f.raced \/ f.beyond \/ c.uri \in missed
                 \/ \E j \in Runs : /\ c.uri \in Unannounced(j)'
                                    /\ run'[j].pc = "purge" => f.key \in run'[j].victims
      <3>0. PICK e \in cache : /\ f.key = e.key /\ f.cites = e.cites /\ f.raced = e.raced
                               /\ e.beyond \/ e.key \in keys => f.beyond
        BY <2>b
      <3>1. c \in Outdated(e)
        BY <2>7, <3>0 DEF Outdated
      <3>2. \/ e.raced \/ e.beyond \/ c.uri \in missed
            \/ \E j \in Runs : /\ c.uri \in Unannounced(j)
                               /\ run[j].pc = "purge" => e.key \in run[j].victims
        BY <3>1 DEF EntriesExcused
      <3>3. ASSUME NEW j \in Runs, c.uri \in Unannounced(j),
                   run[j].pc = "purge" => e.key \in run[j].victims
            PROVE  \/ f.beyond
                   \/ /\ c.uri \in Unannounced(j)'
                      /\ run'[j].pc = "purge" => f.key \in run'[j].victims
        <4>1. CASE j = i
          BY <2>3, <2>5, <2>6, <3>0, <3>3, <4>1
        <4>2. CASE j # i
          BY <1>b, <2>1, <3>0, <3>3, <4>2
        <4> QED
          BY <4>1, <4>2
      <3> QED
        BY <3>0, <3>2, <3>3
    <2>8. EntriesExcused'
      BY <2>2, <2>7 DEF EntriesExcused, Outdated
    <2>9. \A r \in Readers :
            /\ reader'[r].pc = reader[r].pc /\ reader'[r].found = reader[r].found
            /\ reader'[r].raced = (\/ reader[r].raced
                                   \/ /\ reader[r].pc = "answer"
                                      /\ CitesAny(reader[r].found, Announced(i)))
      BY <1>11, <1>a, MarkShape
    <2>10. ASSUME NEW r \in Readers, reader'[r].pc = "answer", NEW c \in reader'[r].found,
                  c \notin chunks'
           PROVE  \/ reader'[r].raced \/ c.uri \in missed'
                  \/ \E j \in Runs : c.uri \in Unannounced(j)' /\ run'[j].pc # "purge"
      <3>1. reader[r].pc = "answer" /\ c \in reader[r].found /\ c \notin chunks
        BY <2>2, <2>9, <2>10
      <3>2. \/ reader[r].raced \/ c.uri \in missed
            \/ \E j \in Runs : c.uri \in Unannounced(j) /\ run[j].pc # "purge"
        BY <3>1 DEF AnswersExcused
      <3>3. ASSUME NEW j \in Runs, c.uri \in Unannounced(j), run[j].pc # "purge"
            PROVE  reader'[r].raced \/ (c.uri \in Unannounced(j)' /\ run'[j].pc # "purge")
        <4>1. CASE j = i
          <5>1. CitesAny(reader[r].found, Announced(i))
            BY <2>6, <3>1, <3>3, <4>1 DEF CitesAny
          <5> QED
            BY <2>9, <3>1, <5>1
        <4>2. CASE j # i
          BY <1>b, <2>1, <3>3, <4>2
        <4> QED
          BY <4>1, <4>2
      <3>4. CASE reader[r].raced
        BY <2>9, <3>4
      <3> QED
        BY <2>2, <3>2, <3>3, <3>4
    <2>11. AnswersExcused'
      BY <2>10 DEF AnswersExcused
    <2> QED
      BY <2>8, <2>11
  <1> QED
    BY <1>1, <1>2, <1>3, <1>4, <1>5, <1>6, <1>7, <1>8, <1>9, <1>10, <1>11 DEF RunStep, Ends

\* A reader takes no excuse away: the entry it writes has those of its answer.
LEMMA ExcuseReaderStep ==
    ASSUME Typed, EntriesExcused, AnswersExcused, NEW r \in Readers, ReaderStep(r)
    PROVE  EntriesExcused' /\ AnswersExcused'
  <1>a. /\ reader \in [Readers -> ReaderState] /\ reader[r] \in ReaderState
        /\ cache \subseteq Entry /\ chunks \subseteq Chunk /\ questions \in Nat
    BY CatalogConstants DEF Typed, StorePart, AnswerPart
  <1>b. UNCHANGED <<chunks, run, missed>> /\ \A i \in Runs : Unannounced(i)' = Unannounced(i)
    BY DEF ReaderStep, LookupHit, LookupMiss, hybrid_search, NotCached, WriteEntry, SetExpiry,
           NextQuestion, ReaderDies, Unannounced, Announced
  <1>c. ASSUME NEW s, ReadsOn(r, s), s.pc # "answer" \/ s.found \subseteq chunks
        PROVE  AnswersExcused'
    BY <1>b, <1>c DEF AnswersExcused, ReadsOn
  <1>d. ASSUME \A f \in cache' : \E e \in cache :
                  /\ f.key = e.key /\ f.cites = e.cites /\ f.raced = e.raced
                  /\ f.beyond = e.beyond
        PROVE  EntriesExcused'
    <2> SUFFICES ASSUME NEW f \in cache', NEW c \in f.cites, c \notin chunks
                 PROVE  \/ f.raced \/ f.beyond \/ c.uri \in missed
                        \/ \E i \in Runs : /\ c.uri \in Unannounced(i)
                                           /\ run[i].pc = "purge" => f.key \in run[i].victims
      BY <1>b DEF EntriesExcused, Outdated
    <2>1. PICK e \in cache : /\ f.key = e.key /\ f.cites = e.cites /\ f.raced = e.raced
                             /\ f.beyond = e.beyond
      BY <1>d
    <2>2. c \in Outdated(e)
      BY <2>1 DEF Outdated
    <2> QED
      BY <2>1, <2>2 DEF EntriesExcused
  <1>1. CASE LookupHit(r)
    <2>1. PICK e \in cache : ReadsOn(r, [IdleReader EXCEPT !.pc = "served", !.found = e.cites])
      BY <1>1, <1>a, HitShape
    <2> DEFINE s == [IdleReader EXCEPT !.pc = "served", !.found = e.cites]
    <2>2. ReadsOn(r, s) /\ s.pc = "served"
      BY <2>1 DEF IdleReader
    <2>3. UNCHANGED cache
      BY <1>1 DEF LookupHit
    <2> HIDE DEF s
    <2> QED
      BY <1>c, <1>d, <2>2, <2>3
  <1>2. CASE LookupMiss(r)
    <2> DEFINE s == [reader[r] EXCEPT !.pc = "search", !.key = questions + 1]
    <2>1. ReadsOn(r, s) /\ s.pc = "search"
      BY <1>2, <1>a, MissShape DEF ReaderState
    <2>2. UNCHANGED cache
      BY <1>2 DEF LookupMiss
    <2> HIDE DEF s
    <2> QED
      BY <1>c, <1>d, <2>1, <2>2
  <1>3. CASE hybrid_search(r)
    <2>1. PICK best \in SUBSET Visible(r) :
            ReadsOn(r, [reader[r] EXCEPT !.pc = "answer", !.found = best])
      BY <1>3, <1>a, SearchShape
    <2> DEFINE s == [reader[r] EXCEPT !.pc = "answer", !.found = best]
    <2>2. ReadsOn(r, s) /\ s.found = best
      BY <1>a, <2>1 DEF ReaderState
    <2>3. UNCHANGED cache /\ best \subseteq chunks
      BY <1>3 DEF hybrid_search, Visible
    <2> HIDE DEF s
    <2> QED
      BY <1>c, <1>d, <2>2, <2>3
  <1>4. CASE NotCached(r) \/ NextQuestion(r) \/ ReaderDies(r) \/ SetExpiry(r)
    <2>1. ReadsOn(r, IdleReader) /\ IdleReader.pc = "idle"
      BY <1>4, <1>a, IdleShape DEF IdleReader
    <2>2. \A f \in cache' : \E e \in cache : /\ f.key = e.key /\ f.cites = e.cites
                                            /\ f.raced = e.raced /\ f.beyond = e.beyond
      <3>1. CASE SetExpiry(r)
        BY <1>a, <3>1, ExpiryShape
      <3>2. CASE ~SetExpiry(r)
        BY <1>4, <3>2 DEF NotCached, NextQuestion, ReaderDies
      <3> QED
        BY <3>1, <3>2
    <2> QED
      BY <1>c, <1>d, <2>1, <2>2
  <1>5. CASE WriteEntry(r)
    <2> DEFINE s == [reader[r] EXCEPT !.pc = "expire"]
    <2>1. ReadsOn(r, s) /\ s.pc = "expire"
      BY <1>5, <1>a, WriteShape DEF ReaderState
    <2> HIDE DEF s
    <2>2. AnswersExcused'
      BY <1>c, <2>1
    <2>3. /\ cache' = cache \cup {EntryOf(r)} /\ reader[r].pc = "answer"
          /\ EntryOf(r).cites = reader[r].found /\ EntryOf(r).raced = reader[r].raced
      BY <1>5, <1>a, EntryShape DEF WriteEntry
    <2>4. EntriesExcused'
      <3> SUFFICES ASSUME NEW f \in cache', NEW c \in f.cites, c \notin chunks
                   PROVE  \/ f.raced \/ f.beyond \/ c.uri \in missed
                          \/ \E i \in Runs : /\ c.uri \in Unannounced(i)
                                             /\ run[i].pc = "purge" => f.key \in run[i].victims
        BY <1>b DEF EntriesExcused, Outdated
      <3>1. CASE f \in cache
        <4>1. c \in Outdated(f)
          BY DEF Outdated
        <4> QED
          BY <3>1, <4>1 DEF EntriesExcused
      <3>2. CASE f = EntryOf(r)
        BY <2>3, <3>2 DEF AnswersExcused
      <3> QED
        BY <2>3, <3>1, <3>2
    <2> QED
      BY <2>2, <2>4
  <1> QED
    BY <1>1, <1>2, <1>3, <1>4, <1>5 DEF ReaderStep

\* Every step, of runs, readers and authors, keeps the excuse of every entry and answer.
LEMMA ExcuseStep == Typed /\ Holding /\ EntriesExcused /\ AnswersExcused /\ [Next]_vars
                       => EntriesExcused' /\ AnswersExcused'
  <1> SUFFICES ASSUME Typed, Holding, EntriesExcused, AnswersExcused, [Next]_vars
               PROVE  EntriesExcused' /\ AnswersExcused'
    OBVIOUS
  \* Nothing changes but flags of runs, and entries that go.
  <1>a. ASSUME UNCHANGED <<chunks, missed, reader>>, cache' \subseteq cache,
               \A i \in Runs : /\ run'[i].pc = run[i].pc /\ run'[i].victims = run[i].victims
                               /\ Unannounced(i)' = Unannounced(i)
        PROVE  EntriesExcused' /\ AnswersExcused'
    <2>1. EntriesExcused'
      <3> SUFFICES ASSUME NEW f \in cache', NEW c \in f.cites, c \notin chunks
                   PROVE  \/ f.raced \/ f.beyond \/ c.uri \in missed
                          \/ \E i \in Runs : /\ c.uri \in Unannounced(i)'
                                             /\ run'[i].pc = "purge" => f.key \in run'[i].victims
        BY <1>a DEF EntriesExcused, Outdated
      <3>1. f \in cache /\ c \in Outdated(f)
        BY <1>a DEF Outdated
      <3> QED
        BY <1>a, <3>1 DEF EntriesExcused
    <2>2. AnswersExcused'
      BY <1>a DEF AnswersExcused
    <2> QED
      BY <2>1, <2>2
  <1>1. ASSUME NEW u \in Uris, Edit(u) PROVE EntriesExcused' /\ AnswersExcused'
    <2>1. \A j \in Runs : run[j] \in RunState /\ run'[j] = [run[j] EXCEPT !.fresh = FALSE]
      BY <1>1, StaleShape DEF Edit, Typed, RunPart
    <2>2. ASSUME NEW j \in Runs
          PROVE  /\ run'[j].pc = run[j].pc /\ run'[j].changed = run[j].changed
                 /\ run'[j].gone = run[j].gone /\ run'[j].victims = run[j].victims
      BY <2>1 DEF RunState
    <2>3. \A j \in Runs : Unannounced(j)' = Unannounced(j)
      BY <2>2 DEF Unannounced, Announced
    <2> QED
      BY <1>1, <1>a, <2>2, <2>3 DEF Edit
  <1>2. CASE EntryExpires \/ UNCHANGED vars
    <2>1. UNCHANGED <<chunks, missed, reader, run>> /\ cache' \subseteq cache
      BY <1>2 DEF EntryExpires, vars
    <2>2. \A j \in Runs : Unannounced(j)' = Unannounced(j)
      BY <2>1 DEF Unannounced, Announced
    <2> QED
      BY <1>a, <2>1, <2>2
  <1> QED
    BY <1>1, <1>2, ExcuseRunStep, ExcuseReaderStep DEF Next, ReaderStep

\* At first there are no entries and no answers.
LEMMA ExcuseStart == Init => ExcuseInv
  BY StoreStart DEF Init, ExcuseInv, EntriesExcused, AnswersExcused, IdleReader

\* The excuses together with the store they rest on are inductive.
LEMMA ExcuseInvStep == ExcuseInv /\ [Next]_vars => ExcuseInv'
  BY StoreStep, StoreParts, ExcuseStep DEF ExcuseInv

(***************************************************************************)
(* A cached answer that cites a version no longer in the catalogue is      *)
(* about to be invalidated, was missed, raced with the announcement, or    *)
(* was beyond the page of entries that an invalidation reads.              *)
(***************************************************************************)
THEOREM StaleAnswersAreExcused == Spec => []StaleIsExcused
  <1>1. ExcuseInv => StaleIsExcused
    <2> SUFFICES ASSUME EntriesExcused, NEW e \in cache, NEW c \in Outdated(e)
                 PROVE  \/ e.raced \/ e.beyond \/ c.uri \in missed
                        \/ \E i \in Runs : c.uri \in Unannounced(i)
      BY DEF ExcuseInv, StaleIsExcused
    <2> QED
      BY DEF EntriesExcused
  <1> QED
    BY <1>1, ExcuseStart, ExcuseInvStep, PTL DEF Spec

-----------------------------------------------------------------------------
(* What a run that was alone leaves behind *)

Converging == AloneWhenFresh /\ FreshLoaded /\ TombstonesDue /\ ListsAbsent /\ RunConverges

\* What Converging asks of the record of one run, for a catalogue and a source.
Working(s) == s.pc \in {"pick", "upsert", "embed", "tombstone"}
Committed(s) == s.pc \in {"invalidate", "purge", "done"}

\* A step of a run that is under way: no other run is fresh, so only its own record counts.
LEMMA ConvergeBy ==
    ASSUME AloneWhenFresh, ListsAbsent, NEW i \in Runs, NEW s, Becomes(i, s), ~Over(i),
           s.fresh => run[i].fresh,
           s.fresh /\ Working(s) =>
              /\ s.raw = source'
              /\ \A u \in Uris : s.raw[u] # Absent /\ u \notin s.todo \cup {s.cur} =>
                                                 StoredHash(u)' = s.raw[u],
           s.fresh /\ s.pc = "tombstone" =>
              /\ s.todo = {}
              /\ \A u \in Uris : s.raw[u] = Absent /\ documents'[u].live => u \in s.missing \cup s.gone,
           \A u \in s.missing \cup s.gone : s.raw[u] = Absent,
           Committed(s) /\ s.fresh => \A u \in Uris : StoredHash(u)' = source'[u]
    PROVE  Converging'
  <1>1. run'[i] = s /\ \A j \in Runs : j # i => run'[j] = run[j] /\ ~run[j].fresh
    BY DEF Becomes, AloneWhenFresh
  <1>2. AloneWhenFresh'
    BY <1>1 DEF AloneWhenFresh, Over
  <1>3. FreshLoaded'
    BY <1>1 DEF FreshLoaded, Working
  <1>4. TombstonesDue'
    BY <1>1 DEF TombstonesDue
  <1>5. ListsAbsent'
    BY <1>1 DEF ListsAbsent
  <1>6. RunConverges'
    BY <1>1 DEF RunConverges, Committed
  <1> QED
    BY <1>2, <1>3, <1>4, <1>5, <1>6 DEF Converging

\* Rows that stay keep their stored hash.
LEMMA StoredQuiet ==
    ASSUME NEW u, documents'[u] = documents[u]
    PROVE  StoredHash(u)' = StoredHash(u)
  BY DEF StoredHash

\* A fresh run keeps pace with the files: what it has done is in step with them.
LEMMA ConvergeRunStep ==
    ASSUME Typed, Holding, Converging, NEW i \in Runs,
           RunStep(i) \/ DocumentFails(i) \/ RunDies(i) \/ InvalidationLost(i)
    PROVE  Converging'
  <1>a. /\ run \in [Runs -> RunState] /\ run[i] \in RunState
        /\ run[i].pc \in {"upsert", "embed"} <=> run[i].cur # NoUri
        /\ run[i].cur # NoUri => run[i].raw[run[i].cur] # Absent
        /\ documents \in [Uris -> [hash : Hashes \cup {Absent}, live : BOOLEAN]]
        /\ source \in [Uris -> Hashes \cup {Absent}] /\ chunks \subseteq Chunk /\ questions \in Nat
        /\ NoUri \notin Uris
    BY CatalogConstants DEF Typed, RunPart, StorePart, AnswerPart, Loaded, NoUri
  <1>b. /\ AloneWhenFresh /\ ListsAbsent
        /\ run[i].fresh /\ Working(run[i]) =>
              /\ run[i].raw = source
              /\ \A u \in Uris : run[i].raw[u] # Absent /\ u \notin run[i].todo \cup {run[i].cur} =>
                                    StoredHash(u) = run[i].raw[u]
        /\ run[i].fresh /\ run[i].pc = "tombstone" =>
              /\ run[i].todo = {}
              /\ \A u \in Uris : run[i].raw[u] = Absent /\ documents[u].live =>
                                    u \in run[i].missing \cup run[i].gone
        /\ \A u \in run[i].missing \cup run[i].gone : run[i].raw[u] = Absent
        /\ Committed(run[i]) /\ run[i].fresh =>
              \A u \in Uris : StoredHash(u) = source[u]
    BY DEF Converging, FreshLoaded, TombstonesDue, ListsAbsent, RunConverges, Working, Committed
  <1>c. run[i].pc \in {"idle", "pick", "upsert", "embed"} => run[i].missing = {} /\ run[i].gone = {}
    BY DEF Holding, HoldsTombstones
  <1>1. CASE Load(i)
    <2>1. /\ run[i].pc = "idle"
          /\ run'[i] = [run[i] EXCEPT !.pc = "pick", !.raw = source,
                                      !.todo = {u \in Uris : source[u] # Absent},
                                      !.fresh = \A j \in Runs : Over(j)]
          /\ \A j \in Runs : j # i => run'[j] = [run[j] EXCEPT !.fresh = FALSE]
      BY <1>1, <1>a, LoadShape
    <2>2. UNCHANGED <<source, documents>>
      BY <1>1 DEF Load
    <2>3. /\ run'[i].pc = "pick" /\ run'[i].raw = source
          /\ run'[i].todo = {u \in Uris : source[u] # Absent}
          /\ run'[i].missing = {} /\ run'[i].gone = {}
          /\ run'[i].fresh = \A j \in Runs : Over(j)
      BY <1>a, <1>c, <2>1 DEF RunState
    <2>4. ASSUME NEW j \in Runs, j # i
          PROVE  /\ run'[j].fresh = FALSE /\ run'[j].pc = run[j].pc /\ run'[j].raw = run[j].raw
                 /\ run'[j].missing = run[j].missing /\ run'[j].gone = run[j].gone
      <3>1. run[j] \in RunState /\ run'[j] = [run[j] EXCEPT !.fresh = FALSE]
        BY <1>a, <2>1, <2>4
      <3> QED
        BY <3>1 DEF RunState
    <2>5. AloneWhenFresh'
      BY <2>3, <2>4 DEF AloneWhenFresh, Over
    <2>a. \A j \in Runs : run'[j].fresh => j = i
      BY <2>4
    <2>b. \A u \in Uris : run'[i].raw[u] # Absent => u \in run'[i].todo
      BY <2>3
    <2>6. FreshLoaded'
      BY <2>2, <2>3, <2>a, <2>b DEF FreshLoaded
    <2>7. TombstonesDue' /\ RunConverges'
      <3>1. \A j \in Runs : run'[j].fresh => run'[j].pc = "pick"
        BY <2>3, <2>a
      <3> QED
        BY <3>1 DEF TombstonesDue, RunConverges
    <2>8. ListsAbsent'
      <3>1. ASSUME NEW j \in Runs, NEW u \in run'[j].missing \cup run'[j].gone
            PROVE  run'[j].raw[u] = Absent
        <4>1. j # i
          BY <2>3, <3>1
        <4>2. u \in run[j].missing \cup run[j].gone /\ run'[j].raw = run[j].raw
          BY <2>4, <3>1, <4>1
        <4> QED
          BY <1>b, <4>2 DEF ListsAbsent
      <3> QED
        BY <3>1 DEF ListsAbsent
    <2> QED
      BY <2>5, <2>6, <2>7, <2>8 DEF Converging
  <1>2. CASE ReadHash(i)
    <2>1. PICK u \in Uris :
             /\ u \in run[i].todo /\ run[i].pc = "pick"
             /\ \/ /\ StoredHash(u) = run[i].raw[u]
                   /\ Becomes(i, [run[i] EXCEPT !.todo = @ \ {u}])
                \/ Becomes(i, [run[i] EXCEPT !.todo = @ \ {u}, !.cur = u, !.pc = "upsert"])
      BY <1>2, <1>a, ReadHashShape
    <2> DEFINE s == [run[i] EXCEPT !.todo = @ \ {u}]
               t == [run[i] EXCEPT !.todo = @ \ {u}, !.cur = u, !.pc = "upsert"]
    <2>2. /\ s.pc = "pick" /\ s.raw = run[i].raw /\ s.todo = run[i].todo \ {u}
          /\ s.missing = {} /\ s.gone = {} /\ s.fresh = run[i].fresh
          /\ s.cur = NoUri
      BY <1>a, <1>c, <2>1 DEF RunState
    <2>3. /\ t.pc = "upsert" /\ t.raw = run[i].raw /\ t.todo = run[i].todo \ {u} /\ t.cur = u
          /\ t.missing = {} /\ t.gone = {} /\ t.fresh = run[i].fresh
      BY <1>a, <1>c, <2>1 DEF RunState
    <2>4. UNCHANGED <<source, documents>>
      BY <1>2 DEF ReadHash
    <2>5. \A v \in Uris : StoredHash(v)' = StoredHash(v)
      BY <2>4, StoredQuiet
    <2>6. \/ StoredHash(u) = run[i].raw[u] /\ Becomes(i, s)
          \/ Becomes(i, t)
      BY <2>1
    <2>7. ~Over(i) /\ Working(run[i])
      BY <2>1 DEF Over, Working
    <2> HIDE DEF s, t
    <2>8. CASE StoredHash(u) = run[i].raw[u] /\ Becomes(i, s)
      <3>1. s.fresh => \A v \in Uris : s.raw[v] # Absent /\ v \notin s.todo \cup {s.cur} =>
                                                       StoredHash(v)' = s.raw[v]
        BY <1>a, <1>b, <2>1, <2>2, <2>5, <2>7, <2>8
      <3>2. s.fresh => s.raw = source'
        BY <1>b, <2>2, <2>4, <2>7
      <3> QED
        BY <1>b, <2>2, <2>7, <2>8, <3>1, <3>2, ConvergeBy DEF Committed
    <2>9. CASE Becomes(i, t)
      <3>1. t.fresh => \A v \in Uris : t.raw[v] # Absent /\ v \notin t.todo \cup {t.cur} =>
                                                       StoredHash(v)' = t.raw[v]
        BY <1>a, <1>b, <2>1, <2>3, <2>5, <2>7
      <3>2. t.fresh => t.raw = source'
        BY <1>b, <2>3, <2>4, <2>7
      <3> QED
        BY <1>b, <2>3, <2>7, <2>9, <3>1, <3>2, ConvergeBy DEF Committed
    <2> QED
      BY <2>6, <2>8, <2>9
  <1>3. CASE upsert_document(i)
    <2> DEFINE s == [run[i] EXCEPT !.pc = "embed", !.doomed = ChunksOf(run[i].cur)]
    <2>1. Becomes(i, s)
      BY <1>3, <1>a, UpsertShape
    <2>2. run[i].pc = "upsert" /\ UNCHANGED <<source, documents>>
      BY <1>3 DEF upsert_document
    <2>3. /\ s.pc = "embed" /\ s.raw = run[i].raw /\ s.todo = run[i].todo /\ s.cur = run[i].cur
          /\ s.missing = {} /\ s.gone = {} /\ s.fresh = run[i].fresh
      BY <1>a, <1>c, <2>2 DEF RunState
    <2>4. \A v \in Uris : StoredHash(v)' = StoredHash(v)
      BY <2>2, StoredQuiet
    <2>5. ~Over(i) /\ Working(run[i])
      BY <2>2 DEF Over, Working
    <2> HIDE DEF s
    <2> QED
      BY <1>b, <2>1, <2>2, <2>3, <2>4, <2>5, ConvergeBy DEF Committed
  <1>4. CASE CommitDocument(i)
    <2> DEFINE s == [run[i] EXCEPT !.pc = "pick", !.cur = NoUri, !.doomed = {},
                                   !.changed = @ \cup {run[i].cur}]
    <2>1. run[i].pc = "embed" /\ run[i].cur \in Uris
      BY <1>4, <1>a DEF CommitDocument, RunState
    <2>2. Becomes(i, s)
      BY <1>4, <1>a, <2>1, CommitDocumentShape
    <2>3. /\ s.pc = "pick" /\ s.raw = run[i].raw /\ s.todo = run[i].todo /\ s.cur = NoUri
          /\ s.missing = {} /\ s.gone = {} /\ s.fresh = run[i].fresh
      BY <1>a, <1>c, <2>1 DEF RunState
    <2>4. /\ UNCHANGED source
          /\ documents'[run[i].cur] = [hash |-> run[i].raw[run[i].cur], live |-> TRUE]
          /\ \A v \in Uris : v # run[i].cur => documents'[v] = documents[v]
      BY <1>4, <1>a, <2>1 DEF CommitDocument
    <2>5. /\ \A v \in Uris : v # run[i].cur => StoredHash(v)' = StoredHash(v)
          /\ \A v \in Uris : v = run[i].cur => StoredHash(v)' = run[i].raw[v]
      BY <2>4 DEF StoredHash
    <2>6. ~Over(i) /\ Working(run[i])
      BY <2>1 DEF Over, Working
    <2> HIDE DEF s
    <2>7. s.fresh => \A v \in Uris : s.raw[v] # Absent /\ v \notin s.todo \cup {s.cur} =>
                                                     StoredHash(v)' = s.raw[v]
      BY <1>b, <2>3, <2>5, <2>6
    <2>8. s.fresh => s.raw = source'
      BY <1>b, <2>3, <2>4, <2>6
    <2> QED
      BY <1>b, <2>2, <2>3, <2>6, <2>7, <2>8, ConvergeBy DEF Committed
  <1>5. CASE Ends(i)
    <2> DEFINE s == [IdleRun EXCEPT !.pc = "dead"]
    <2>1. Becomes(i, s) /\ s.pc = "dead" /\ s.missing = {} /\ s.gone = {} /\ s.fresh = FALSE
      BY <1>5, <1>a, DieShape, DeadTyped
    <2>2. ~Over(i)
      BY <1>5, <1>a, DieShape
    <2> HIDE DEF s
    <2> QED
      BY <1>b, <2>1, <2>2, ConvergeBy
  <1>6. CASE SelectMissing(i)
    <2> DEFINE rows == {u \in Uris : documents[u].live /\ run[i].raw[u] = Absent}
               s == [run[i] EXCEPT !.pc = "tombstone", !.missing = rows]
    <2>1. Becomes(i, s)
      BY <1>6, <1>a, SelectShape
    <2>2. \A u : u \in rows <=> u \in Uris /\ documents[u].live /\ run[i].raw[u] = Absent
      OBVIOUS
    <2> HIDE DEF rows
    <2>3. run[i].pc = "pick" /\ run[i].todo = {} /\ UNCHANGED <<source, documents>>
      BY <1>6 DEF SelectMissing
    <2>4. /\ s.pc = "tombstone" /\ s.raw = run[i].raw /\ s.todo = {} /\ s.cur = run[i].cur
          /\ s.missing = rows /\ s.gone = {} /\ s.fresh = run[i].fresh
      BY <1>a, <1>c, <2>3 DEF RunState
    <2>5. \A v \in Uris : StoredHash(v)' = StoredHash(v)
      BY <2>3, StoredQuiet
    <2>6. ~Over(i) /\ Working(run[i])
      BY <2>3 DEF Over, Working
    <2> HIDE DEF s
    <2>7. s.fresh => \A v \in Uris : s.raw[v] # Absent /\ v \notin s.todo \cup {s.cur} =>
                                                     StoredHash(v)' = s.raw[v]
      BY <1>b, <2>3, <2>4, <2>5, <2>6
    <2>8. /\ s.fresh => s.raw = source'
          /\ \A u \in Uris : s.raw[u] = Absent /\ documents'[u].live => u \in s.missing
          /\ \A u \in s.missing \cup s.gone : s.raw[u] = Absent
      BY <1>b, <2>2, <2>3, <2>4, <2>6
    <2> QED
      BY <1>b, <2>1, <2>4, <2>6, <2>7, <2>8, ConvergeBy DEF Committed
  <1>7. ASSUME NEW u \in Uris, TombstoneOne(i, u) PROVE Converging'
    <2> DEFINE s == [run[i] EXCEPT !.missing = @ \ {u}, !.gone = @ \cup {u}]
    <2>1. Becomes(i, s)
      BY <1>7, <1>a, TombstoneShape
    <2>2. run[i].pc = "tombstone" /\ u \in run[i].missing /\ UNCHANGED <<source, documents>>
      BY <1>7 DEF TombstoneOne
    <2>3. /\ s.pc = "tombstone" /\ s.raw = run[i].raw /\ s.todo = run[i].todo /\ s.cur = run[i].cur
          /\ s.missing = run[i].missing \ {u} /\ s.gone = run[i].gone \cup {u}
          /\ s.fresh = run[i].fresh
      BY <1>a, <2>2 DEF RunState
    <2>4. s.missing \cup s.gone = run[i].missing \cup run[i].gone
      BY <2>2, <2>3
    <2>5. \A v \in Uris : StoredHash(v)' = StoredHash(v)
      BY <2>2, StoredQuiet
    <2>6. ~Over(i) /\ Working(run[i])
      BY <2>2 DEF Over, Working
    <2> HIDE DEF s
    <2> QED
      BY <1>b, <2>1, <2>2, <2>3, <2>4, <2>5, <2>6, ConvergeBy DEF Committed
  \* Every row has been seen to: as loaded, or tombstoned, or dead already.
  <1>8. CASE CommitRun(i)
    <2> DEFINE s == [run[i] EXCEPT !.pc = "invalidate"]
    <2>1. /\ run[i].pc = "tombstone" /\ run[i].missing = {} /\ UNCHANGED source
          /\ documents' = [u \in Uris |-> IF u \in run[i].gone
                                          THEN [documents[u] EXCEPT !.live = FALSE]
                                          ELSE documents[u]]
      BY <1>8 DEF CommitRun
    <2>2. /\ s.pc = "invalidate" /\ s.missing = {} /\ s.gone = run[i].gone /\ s.raw = run[i].raw
          /\ s.fresh = run[i].fresh
      BY <1>a, <2>1 DEF RunState
    <2>3. /\ Finished(run[i]).pc = "done" /\ Finished(run[i]).missing = {}
          /\ Finished(run[i]).gone = {} /\ Finished(run[i]).fresh = run[i].fresh
      BY <1>a, FinishedTyped
    <2>4. Becomes(i, Finished(run[i])) \/ Becomes(i, s)
      BY <1>8, <1>a, CommitRunShape
    <2>5. ~Over(i) /\ Working(run[i])
      BY <2>1 DEF Over, Working
    <2>6. ASSUME run[i].fresh, NEW u \in Uris PROVE StoredHash(u)' = source'[u]
      <3>1. run[i].raw = source /\ run[i].todo = {} /\ run[i].cur = NoUri
        BY <1>a, <1>b, <2>1, <2>5, <2>6
      <3>2. CASE u \in run[i].gone
        <4>1. documents'[u] = [documents[u] EXCEPT !.live = FALSE]
          BY <2>1, <3>2
        <4>2. documents[u] \in [hash : Hashes \cup {Absent}, live : BOOLEAN]
          BY <1>a
        <4>3. documents'[u].live = FALSE
          BY <4>1, <4>2
        <4>4. StoredHash(u)' = Absent
          BY <4>3 DEF StoredHash
        <4> QED
          BY <1>b, <2>1, <3>1, <3>2, <4>4
      <3>3. CASE u \notin run[i].gone
        <4>1. documents'[u] = documents[u]
          BY <2>1, <3>3
        <4>2. StoredHash(u)' = StoredHash(u)
          BY <4>1, StoredQuiet
        <4>3. CASE run[i].raw[u] = Absent
          <5>1. ~documents[u].live
            BY <1>b, <2>1, <2>6, <3>3, <4>3
          <5> QED
            BY <2>1, <3>1, <4>2, <4>3, <5>1 DEF StoredHash
        <4>4. CASE run[i].raw[u] # Absent
          <5>1. u # NoUri
            BY <1>a
          <5> QED
            BY <1>b, <2>1, <2>5, <2>6, <3>1, <4>2, <4>4, <5>1
        <4> QED
          BY <4>3, <4>4
      <3> QED
        BY <3>2, <3>3
    <2> HIDE DEF s
    <2>7. CASE Becomes(i, s)
      BY <1>b, <2>1, <2>2, <2>5, <2>6, <2>7, ConvergeBy DEF Working
    <2>8. CASE Becomes(i, Finished(run[i]))
      BY <1>b, <2>1, <2>3, <2>5, <2>6, <2>8, ConvergeBy DEF Working
    <2> QED
      BY <2>4, <2>7, <2>8
  <1>9. CASE FindEntries(i)
    <2>0. PICK page \in SUBSET Citing(i) :
             Becomes(i, [run[i] EXCEPT !.pc = "purge", !.victims = page])
      BY <1>9, <1>a, FindShape
    <2> DEFINE s == [run[i] EXCEPT !.pc = "purge", !.victims = page]
    <2>1. Becomes(i, s)
      BY <2>0
    <2>2. run[i].pc = "invalidate" /\ UNCHANGED <<source, documents>>
      BY <1>9 DEF FindEntries
    <2>3. /\ s.pc = "purge" /\ s.missing = run[i].missing /\ s.gone = run[i].gone
          /\ s.raw = run[i].raw /\ s.fresh = run[i].fresh
      BY <1>a DEF RunState
    <2>4. \A v \in Uris : StoredHash(v)' = StoredHash(v)
      BY <2>2, StoredQuiet
    <2>5. ~Over(i) /\ Committed(run[i])
      BY <2>2 DEF Over, Committed
    <2> HIDE DEF s
    <2> QED
      BY <1>b, <2>1, <2>2, <2>3, <2>4, <2>5, ConvergeBy DEF Working
  <1>10. CASE DeleteEntries(i) \/ InvalidationLost(i)
    <2>1. Becomes(i, Finished(run[i]))
      BY <1>10, <1>a, FinishShape
    <2>2. run[i].pc \in {"invalidate", "purge"} /\ UNCHANGED <<source, documents>>
      BY <1>10 DEF DeleteEntries, InvalidationLost
    <2>3. /\ Finished(run[i]).pc = "done" /\ Finished(run[i]).missing = {}
          /\ Finished(run[i]).gone = {} /\ Finished(run[i]).fresh = run[i].fresh
      BY <1>a, FinishedTyped
    <2>4. \A v \in Uris : StoredHash(v)' = StoredHash(v)
      BY <2>2, StoredQuiet
    <2>5. ~Over(i) /\ Committed(run[i])
      BY <2>2 DEF Over, Committed
    <2> QED
      BY <1>b, <2>1, <2>2, <2>3, <2>4, <2>5, ConvergeBy DEF Working
  <1> QED
    BY <1>1, <1>2, <1>3, <1>4, <1>5, <1>6, <1>7, <1>8, <1>9, <1>10 DEF RunStep, Ends

\* Every step keeps the progress of the fresh runs; an edit leaves none fresh.
LEMMA ConvergeStep == Typed /\ Holding /\ Converging /\ [Next]_vars => Converging'
  <1> SUFFICES ASSUME Typed, Holding, Converging, [Next]_vars PROVE Converging'
    OBVIOUS
  \* After an edit no run is fresh.
  <1>1. ASSUME NEW u \in Uris, Edit(u) PROVE Converging'
    <2>1. \A j \in Runs : run[j] \in RunState /\ run'[j] = [run[j] EXCEPT !.fresh = FALSE]
      BY <1>1, StaleShape DEF Edit, Typed, RunPart
    <2>2. ASSUME NEW j \in Runs
          PROVE  /\ run'[j].fresh = FALSE /\ run'[j].raw = run[j].raw
                 /\ run'[j].missing = run[j].missing /\ run'[j].gone = run[j].gone
      BY <2>1 DEF RunState
    <2>3. AloneWhenFresh' /\ FreshLoaded' /\ TombstonesDue' /\ RunConverges'
      BY <2>2 DEF AloneWhenFresh, FreshLoaded, TombstonesDue, RunConverges
    <2>4. ListsAbsent'
      BY <2>2 DEF ListsAbsent, Converging
    <2> QED
      BY <2>3, <2>4 DEF Converging
  <1>2. CASE (\E r \in Readers : ReaderStep(r)) \/ EntryExpires \/ UNCHANGED vars
    <2>1. UNCHANGED <<documents, source, run>>
      BY <1>2
      DEF ReaderStep, LookupHit, LookupMiss, hybrid_search, NotCached, WriteEntry, SetExpiry,
          NextQuestion, ReaderDies, EntryExpires, vars
    <2> QED
      BY <2>1
      DEF Converging, AloneWhenFresh, FreshLoaded, TombstonesDue, ListsAbsent, RunConverges,
          StoredHash, Over
  <1> QED
    BY <1>1, <1>2, ConvergeRunStep DEF Next, ReaderStep

\* The progress of fresh runs together with the store it rests on is inductive.
LEMMA ConvergeInvStep == ConvergeInv /\ [Next]_vars => ConvergeInv'
  BY StoreStep, StoreParts, ConvergeStep DEF ConvergeInv, Converging

(***************************************************************************)
(* A run that was alone, saw the last edit and came to its end leaves the  *)
(* catalogue equal to the source, whatever earlier runs left behind.       *)
(***************************************************************************)
THEOREM FreshRunsConverge == Spec => []RunConverges
  <1>1. Init => ConvergeInv
    <2> SUFFICES ASSUME Init PROVE Converging
      BY StoreStart DEF ConvergeInv, Converging
    <2>1. \A i \in Runs : run[i] = IdleRun
      BY DEF Init
    <2> QED
      BY <2>1
      DEF Converging, AloneWhenFresh, FreshLoaded, TombstonesDue, ListsAbsent, RunConverges, IdleRun
  <1>2. ConvergeInv => RunConverges
    BY DEF ConvergeInv
  <1> QED
    BY <1>1, <1>2, ConvergeInvStep, PTL DEF Spec
=============================================================================
