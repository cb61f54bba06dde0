------------------------------- MODULE Catalog -------------------------------
(***************************************************************************)
(* The document catalogue and the answers cached from it: the runs of      *)
(* ingestion (pipeline.py), agent runs that look an answer up, search the   *)
(* catalogue and cache what they said (harness cache_lookup, retrieve and   *)
(* cache_write with cache/store.py), and the invalidation call by which     *)
(* ingestion tells harness what changed.                                    *)
(*                                                                          *)
(* Postgres runs at READ COMMITTED: a statement sees what is committed when *)
(* it starts, and an INSERT ... ON CONFLICT DO UPDATE or an UPDATE keeps    *)
(* its row locked until the transaction ends.  An edit of a document means  *)
(* a new content_hash; chunks of a document are one element, named after    *)
(* the hash they were cut from and the run that inserted them.              *)
(***************************************************************************)
EXTENDS Naturals, FiniteSets

CONSTANTS
    Uris,        \* source_uri of the documents, numbered in the order of the file names
    AclOf,       \* [Uris -> Groups]: the acl group of each
    Sources,     \* the states the source may be in at first
    Runs,        \* ingestion runs, possibly concurrent
    Readers,     \* agent runs
    GroupsOf,    \* [Readers -> SUBSET Groups]: acl_group_ids of their users
    PageSize,    \* the 1000 entries one invalidation looks at
    MaxEdits,    \* edits of the source (bound)
    MaxQuestions,\* questions asked (bound)
    MaxFaults    \* crashes, exceptions and lost calls (bound)

Absent == 0                   \* a source file that is not there
Hashes == 1 .. (MaxEdits + 1) \* content hashes
NoUri == 0
Nobody == "nobody"

ASSUME CatalogConstants ==
    /\ MaxEdits \in Nat /\ MaxQuestions \in Nat /\ MaxFaults \in Nat /\ PageSize \in Nat
    /\ Uris \subseteq Nat \ {NoUri} /\ Nobody \notin Runs
    /\ DOMAIN AclOf = Uris /\ DOMAIN GroupsOf = Readers
    /\ Sources \subseteq [Uris -> {1, Absent}]

Chunk == [uri : Uris, hash : Hashes, by : Runs \cup {Nobody}]

VARIABLES
    source,      \* [Uris -> Hashes \cup {Absent}]: the files
    edits,
    documents,   \* catalog.documents: [hash, live] per uri
    chunks,      \* catalog.chunks, as committed
    lock,        \* [Uris -> Runs \cup {Nobody}]: who holds the row of the document
    run,         \* the ingestion runs
    reader,      \* the agent runs
    cache,       \* entries of the semantic cache
    questions,
    missed,      \* history: documents whose change was never announced
    faults

vars == <<source, edits, documents, chunks, lock, run, reader, cache, questions, missed, faults>>

\* pc of a run; raw: the files it loaded; todo: the ones still to do; cur: the document of
\* its open transaction; doomed: the chunks that transaction deletes; missing: rows to
\* tombstone; gone: rows tombstoned; changed; fresh (history): nothing else has happened
\* to the source or by another run since it loaded; victims: the keys to delete.
IdleRun == [pc |-> "idle", raw |-> [u \in Uris |-> Absent], todo |-> {}, cur |-> NoUri,
            doomed |-> {}, missing |-> {}, gone |-> {}, changed |-> {}, fresh |-> FALSE,
            victims |-> {}]

\* key: the key its entry would get; found: the chunks its answer cites; raced (history): a document of them was announced
\* as changed after they were found.
IdleReader == [pc |-> "idle", key |-> 0, found |-> {}, raced |-> FALSE]

\* Mutant of acl_hash: one namespace for the whole tenant.
TenantHash(groups) == {}

\* acl_hash: one namespace per set of groups.
acl_hash(groups) == groups

RunState ==
    [pc : {"idle", "pick", "upsert", "embed", "tombstone", "invalidate", "purge", "done", "dead"},
     raw : [Uris -> Hashes \cup {Absent}], todo : SUBSET Uris, cur : Uris \cup {NoUri},
     doomed : SUBSET Chunk, missing : SUBSET Uris, gone : SUBSET Uris, changed : SUBSET Uris,
     fresh : BOOLEAN, victims : SUBSET Nat]
ReaderState ==
    [pc : {"idle", "search", "answer", "expire", "served"}, key : Nat, found : SUBSET Chunk,
     raced : BOOLEAN]
\* beyond (history): an invalidation that concerned the entry had its page full of others.
Entry ==
    [key : Nat, namespace : {acl_hash(GroupsOf[r]) : r \in Readers}, cites : SUBSET Chunk,
     ttl : BOOLEAN, raced : BOOLEAN, beyond : BOOLEAN]

TypeOK ==
    /\ source \in [Uris -> Hashes \cup {Absent}]
    /\ edits \in 0 .. MaxEdits
    /\ documents \in [Uris -> [hash : Hashes \cup {Absent}, live : BOOLEAN]]
    /\ chunks \subseteq Chunk
    /\ lock \in [Uris -> Runs \cup {Nobody}]
    /\ run \in [Runs -> RunState]
    /\ \A i \in Runs : run[i].pc \in {"upsert", "embed"} <=> run[i].cur # NoUri
    /\ reader \in [Readers -> ReaderState]
    /\ \A r \in Readers :
          /\ reader[r].key <= questions
          /\ reader[r].pc \in {"search", "answer", "expire"} => reader[r].key > 0
    /\ cache \subseteq Entry /\ \A e \in cache : e.key \in 1 .. questions
    /\ questions \in 0 .. MaxQuestions
    /\ missed \subseteq Uris
    /\ faults \in 0 .. MaxFaults

Init ==
    /\ source \in Sources /\ edits = 0
    /\ documents = [u \in Uris |-> [hash |-> 1, live |-> TRUE]]
    /\ chunks = {[uri |-> u, hash |-> 1, by |-> Nobody] : u \in Uris}
    /\ lock = [u \in Uris |-> Nobody]
    /\ run = [i \in Runs |-> IdleRun]
    /\ reader = [r \in Readers |-> IdleReader]
    /\ cache = {} /\ questions = 0 /\ missed = {} /\ faults = 0

ChunksOf(u) == {c \in chunks : c.uri = u}
Over(i) == run[i].pc \in {"idle", "done", "dead"}

\* Nothing a run loaded before is the last word any more.
Stale(runs) == [j \in Runs |-> [runs[j] EXCEPT !.fresh = FALSE]]
-----------------------------------------------------------------------------
(* The source *)

\* An author changes a file, removes it, or puts it back.
Edit(u) ==
    /\ edits < MaxEdits
    /\ edits' = edits + 1
    /\ \/ source' = [source EXCEPT ![u] = edits + 2]
       \/ source' = [source EXCEPT ![u] = Absent]
    /\ run' = Stale(run)
    /\ UNCHANGED <<documents, chunks, lock, reader, cache, questions, missed, faults>>
-----------------------------------------------------------------------------
(* Ingestion *)

\* run_filesystem_ingestion: load_filesystem_documents.
Load(i) ==
    /\ run[i].pc = "idle"
    /\ run' = [Stale(run) EXCEPT
                 ![i].pc = "pick", ![i].raw = source,
                 ![i].todo = {u \in Uris : source[u] # Absent},
                 ![i].fresh = \A j \in Runs : Over(j)]
    /\ UNCHANGED <<source, edits, documents, chunks, lock, reader, cache, questions, missed, faults>>

\* Mutant of StoredHash: the SELECT without "deleted_at IS NULL".
StoredHashTombstoned(u) == documents[u].hash

\* get_document_hash
StoredHash(u) == IF documents[u].live THEN documents[u].hash ELSE Absent

\* _ingest_one_document reads the hash: skip, or go on to replace the document.
ReadHash(i) ==
    \E u \in run[i].todo :
    /\ run[i].pc = "pick"
    /\ \A v \in run[i].todo : u <= v
    /\ run' = IF StoredHash(u) = run[i].raw[u]
              THEN [run EXCEPT ![i].todo = @ \ {u}]
              ELSE [run EXCEPT ![i].todo = @ \ {u}, ![i].cur = u, ![i].pc = "upsert"]
    /\ UNCHANGED <<source, edits, documents, chunks, lock, reader, cache, questions, missed, faults>>

\* Mutant of upsert_document: the document is replaced without holding its row.
UpsertUnlocked(i) ==
    /\ run[i].pc = "upsert"
    /\ run' = [run EXCEPT ![i].pc = "embed", ![i].doomed = ChunksOf(run[i].cur)]
    /\ UNCHANGED <<source, edits, documents, chunks, lock, reader, cache, questions, missed, faults>>

\* Waits for the row; the new values are visible to others from the commit on.  The chunks
\* of a locked document are its owner's: delete_chunks_for_document follows in the same step.
upsert_document(i) ==
    /\ run[i].pc = "upsert"
    /\ lock[run[i].cur] = Nobody
    /\ lock' = [lock EXCEPT ![run[i].cur] = i]
    /\ run' = [run EXCEPT ![i].pc = "embed", ![i].doomed = ChunksOf(run[i].cur)]
    /\ UNCHANGED <<source, edits, documents, chunks, reader, cache, questions, missed, faults>>

\* The chunks of a version, as one element.
chunk_markdown(u, hash, i) == {[uri |-> u, hash |-> hash, by |-> i]}

\* The chunks of the run's document replace the ones its transaction deleted.
insert_chunk(i) == (chunks \ run[i].doomed)
                      \cup chunk_markdown(run[i].cur, run[i].raw[run[i].cur], i)

\* Mutant of CommitDocument: the document is not taken off the run when it is done.
CommitKeepsCurrent(i) ==
    LET u == run[i].cur IN
    /\ run[i].pc = "embed"
    /\ documents' = [documents EXCEPT ![u] = [hash |-> run[i].raw[u], live |-> TRUE]]
    /\ chunks' = insert_chunk(i)
    /\ lock' = [lock EXCEPT ![u] = Nobody]
    /\ run' = [run EXCEPT ![i].pc = "pick", ![i].changed = @ \cup {u}]
    /\ UNCHANGED <<source, edits, reader, cache, questions, missed, faults>>

\* The embeddings arrive, the chunks are inserted and the transaction commits.
CommitDocument(i) ==
    LET u == run[i].cur IN
    /\ run[i].pc = "embed"
    /\ documents' = [documents EXCEPT ![u] = [hash |-> run[i].raw[u], live |-> TRUE]]
    /\ chunks' = insert_chunk(i)
    /\ lock' = [lock EXCEPT ![u] = Nobody]
    /\ run' = [run EXCEPT ![i].pc = "pick", ![i].cur = NoUri, ![i].doomed = {},
                          ![i].changed = @ \cup {u}]
    /\ UNCHANGED <<source, edits, reader, cache, questions, missed, faults>>

Released(i) == [u \in Uris |-> IF lock[u] = i THEN Nobody ELSE lock[u]]

\* tombstone_missing_documents: the live rows that were not among the files.
SelectMissing(i) ==
    /\ run[i].pc = "pick"
    /\ run[i].todo = {}
    /\ run' = [run EXCEPT ![i].pc = "tombstone",
                  ![i].missing = {u \in Uris : documents[u].live /\ run[i].raw[u] = Absent}]
    /\ UNCHANGED <<source, edits, documents, chunks, lock, reader, cache, questions, missed, faults>>

\* The UPDATE of one row; waits for the row.
TombstoneOne(i, u) ==
    /\ run[i].pc = "tombstone"
    /\ u \in run[i].missing
    /\ lock[u] = Nobody
    /\ lock' = [lock EXCEPT ![u] = i]
    /\ run' = [run EXCEPT ![i].missing = @ \ {u}, ![i].gone = @ \cup {u}]
    /\ UNCHANGED <<source, edits, documents, chunks, reader, cache, questions, missed, faults>>

Finished(own) == [IdleRun EXCEPT !.pc = "done", !.fresh = own.fresh]

\* Mutant of Announced: only edits are announced, deletions are not.
AnnouncedEdits(i) == run[i].changed

\* The documents the run will announce as changed: edits and deletions alike.
Announced(i) == run[i].changed \cup run[i].gone

\* With insert_ingestion_run in the same transaction.
CommitRun(i) ==
    /\ run[i].pc = "tombstone"
    /\ run[i].missing = {}
    /\ documents' = [u \in Uris |-> IF u \in run[i].gone
                                    THEN [documents[u] EXCEPT !.live = FALSE] ELSE documents[u]]
    /\ chunks' = {c \in chunks : c.uri \notin run[i].gone}
    /\ lock' = Released(i)
    /\ run' = [run EXCEPT ![i] = IF Announced(i) = {}
                                 THEN Finished(run[i]) ELSE [run[i] EXCEPT !.pc = "invalidate"]]
    /\ UNCHANGED <<source, edits, reader, cache, questions, missed, faults>>

\* The documents whose change the run has committed and not announced yet; its tombstones
\* count from their commit on.
Unannounced(i) ==
    CASE run[i].pc \in {"idle", "done", "dead"} -> {}
      [] run[i].pc \in {"invalidate", "purge"} -> Announced(i)
      [] OTHER -> run[i].changed

\* The run ends where it is: its transaction is rolled back, what it committed stays, and
\* nobody is told.
Abandoned(i) ==
    /\ lock' = Released(i)
    /\ missed' = missed \cup Unannounced(i)
    /\ run' = [run EXCEPT ![i] = [IdleRun EXCEPT !.pc = "dead"]]

\* A crash, or an exception where none is caught (the tombstones).
RunDies(i) ==
    /\ ~Over(i)
    /\ faults < MaxFaults
    /\ faults' = faults + 1
    /\ Abandoned(i)
    /\ UNCHANGED <<source, edits, documents, chunks, reader, cache, questions>>

\* The error row names the run, whose own row insert_ingestion_run writes at the end: the
\* foreign key refuses it, and the exception leaves run_filesystem_ingestion.
insert_ingestion_error(i) == Abandoned(i)

\* A document fails (the embedding call, the database).  The handler that is to let the run
\* go on records the error, and so ends the run.
DocumentFails(i) ==
    /\ run[i].pc \in {"upsert", "embed"}
    /\ faults < MaxFaults
    /\ faults' = faults + 1
    /\ insert_ingestion_error(i)
    /\ UNCHANGED <<source, edits, documents, chunks, reader, cache, questions>>

Waits(i, u) == run[i].pc = "tombstone" /\ u \in run[i].missing

\* Postgres breaks a deadlock of two transactions that tombstone the same rows in opposite
\* orders by failing one of them.
DeadlockDetected(i) ==
    /\ \E j \in Runs \ {i}, u, v \in Uris :
          lock[u] = j /\ Waits(i, u) /\ lock[v] = i /\ Waits(j, v)
    /\ Abandoned(i)
    /\ UNCHANGED <<source, edits, documents, chunks, reader, cache, faults, questions>>
-----------------------------------------------------------------------------
(* Invalidation *)

CitesAny(cites, uris) == \E c \in cites : c.uri \in uris

\* The keys of the entries that cite a document the run announces.
Citing(i) == {k \in 1 .. questions :
                 \E e \in cache : e.key = k /\ CitesAny(e.cites, Announced(i))}

\* Query(...).paging(0, 1000): all of them, or a page of them in no particular order.
Pages(keys) == IF Cardinality(keys) <= PageSize
               THEN {keys} ELSE {page \in SUBSET keys : Cardinality(page) = PageSize}

\* invalidate_by_documents finds the keys to delete, one page of them.  Answers that cite
\* one of the documents and are not written yet will be missed.
FindEntries(i) ==
    /\ run[i].pc = "invalidate"
    /\ \E page \in Pages(Citing(i)) :
          /\ run' = [run EXCEPT ![i].pc = "purge", ![i].victims = page]
          /\ cache' = {IF e.key \in Citing(i) \ page THEN [e EXCEPT !.beyond = TRUE] ELSE e :
                          e \in cache}
    /\ reader' = [r \in Readers |->
                    IF reader[r].pc = "answer" /\ CitesAny(reader[r].found, Announced(i))
                    THEN [reader[r] EXCEPT !.raced = TRUE] ELSE reader[r]]
    /\ UNCHANGED <<source, edits, documents, chunks, lock, questions, missed, faults>>

DeleteEntries(i) ==
    /\ run[i].pc = "purge"
    /\ cache' = {e \in cache : e.key \notin run[i].victims}
    /\ run' = [run EXCEPT ![i] = Finished(run[i])]
    /\ UNCHANGED <<source, edits, documents, chunks, lock, reader, questions, missed, faults>>

\* The call to harness fails or times out; HarnessCacheClient logs it and goes on.
InvalidationLost(i) ==
    /\ run[i].pc \in {"invalidate", "purge"}
    /\ faults < MaxFaults
    /\ faults' = faults + 1
    /\ missed' = missed \cup Announced(i)
    /\ run' = [run EXCEPT ![i] = Finished(run[i])]
    /\ UNCHANGED <<source, edits, documents, chunks, lock, reader, cache, questions>>
-----------------------------------------------------------------------------
(* Agent runs *)

\* lookup: similar questions hit any entry of the namespace; others miss.
LookupHit(r) ==
    /\ reader[r].pc = "idle"
    /\ questions < MaxQuestions
    /\ questions' = questions + 1
    /\ \E e \in cache :
          /\ e.namespace = acl_hash(GroupsOf[r])
          /\ reader' = [reader EXCEPT ![r] = [IdleReader EXCEPT !.pc = "served",
                                                           !.found = e.cites]]
    /\ UNCHANGED <<source, edits, documents, chunks, lock, run, cache, missed, faults>>

LookupMiss(r) ==
    /\ reader[r].pc = "idle"
    /\ questions < MaxQuestions
    /\ questions' = questions + 1
    /\ reader' = [reader EXCEPT ![r].pc = "search", ![r].key = questions + 1]
    /\ UNCHANGED <<source, edits, documents, chunks, lock, run, cache, missed, faults>>

\* hybrid_search: chunks of the user's groups (c.acl_group_ids && p.acl); ranking, top_k and
\* the size of the context decide which of them are used.
Visible(r) == {c \in chunks : AclOf[c.uri] \in GroupsOf[r]}

hybrid_search(r) ==
    /\ reader[r].pc = "search"
    /\ \E best \in SUBSET Visible(r) :
          reader' = [reader EXCEPT ![r].pc = "answer", ![r].found = best]
    /\ UNCHANGED <<source, edits, documents, chunks, lock, run, cache, questions, missed, faults>>

\* The answer is not cached (is_cacheable in module AgentRun).
NotCached(r) ==
    /\ reader[r].pc = "answer"
    /\ reader' = [reader EXCEPT ![r] = IdleReader]
    /\ UNCHANGED <<source, edits, documents, chunks, lock, run, cache, questions, missed, faults>>

EntryOf(r) == [key |-> reader[r].key, namespace |-> acl_hash(GroupsOf[r]), cites |-> reader[r].found,
               ttl |-> FALSE, raced |-> reader[r].raced, beyond |-> FALSE]

\* write: HSET, then EXPIRE.
WriteEntry(r) ==
    /\ reader[r].pc = "answer"
    /\ cache' = cache \cup {EntryOf(r)}
    /\ reader' = [reader EXCEPT ![r].pc = "expire"]
    /\ UNCHANGED <<source, edits, documents, chunks, lock, run, questions, missed, faults>>

SetExpiry(r) ==
    /\ reader[r].pc = "expire"
    /\ cache' = {IF e.key = reader[r].key THEN [e EXCEPT !.ttl = TRUE] ELSE e : e \in cache}
    /\ reader' = [reader EXCEPT ![r] = IdleReader]
    /\ UNCHANGED <<source, edits, documents, chunks, lock, run, questions, missed, faults>>

\* The user has the cached answer; the next question comes.
NextQuestion(r) ==
    /\ reader[r].pc = "served"
    /\ reader' = [reader EXCEPT ![r] = IdleReader]
    /\ UNCHANGED <<source, edits, documents, chunks, lock, run, cache, questions, missed, faults>>

ReaderDies(r) ==
    /\ reader[r].pc \in {"search", "answer", "expire"}
    /\ faults < MaxFaults
    /\ faults' = faults + 1
    /\ reader' = [reader EXCEPT ![r] = IdleReader]
    /\ UNCHANGED <<source, edits, documents, chunks, lock, run, cache, questions, missed>>

\* The TTL of an entry runs out.
EntryExpires ==
    /\ \E e \in cache : e.ttl /\ cache' = cache \ {e}
    /\ UNCHANGED <<source, edits, documents, chunks, lock, run, reader, questions, missed, faults>>

RunStep(i) ==
    \/ Load(i)
    \/ ReadHash(i) \/ \E u \in Uris : TombstoneOne(i, u)
    \/ upsert_document(i) \/ CommitDocument(i)
    \/ SelectMissing(i) \/ CommitRun(i) \/ FindEntries(i) \/ DeleteEntries(i)
    \/ DeadlockDetected(i)

Next ==
    \/ \E u \in Uris : Edit(u)
    \/ \E i \in Runs : RunStep(i) \/ DocumentFails(i) \/ RunDies(i) \/ InvalidationLost(i)
    \/ \E r \in Readers :
          \/ LookupHit(r) \/ LookupMiss(r) \/ hybrid_search(r) \/ NotCached(r)
          \/ WriteEntry(r) \/ SetExpiry(r) \/ NextQuestion(r) \/ ReaderDies(r)
    \/ EntryExpires

Spec == Init /\ [][Next]_vars
-----------------------------------------------------------------------------
(* Properties *)

\* Whatever runs overlap, fail or die, a live document is searchable in exactly the version
\* its row names, once, and a deleted one not at all: no duplicate chunks although there is
\* no lock around a run (SPEC 23.2, two runs over one source), no document without chunks
\* after a failed embedding.
CatalogConsistent ==
    \A u \in Uris :
       IF documents[u].live
       THEN Cardinality(ChunksOf(u)) = 1 /\ \A c \in ChunksOf(u) : c.hash = documents[u].hash
       ELSE ChunksOf(u) = {}

\* The inductive invariant behind it: a run replaces only documents it loaded, and the chunks
\* it deletes are still all the document has when it commits, because it holds the row.
Loaded ==
    \A i \in Runs :
       /\ \A u \in run[i].todo : run[i].raw[u] # Absent
       /\ run[i].cur # NoUri => run[i].raw[run[i].cur] # Absent
HoldsDocument ==
    \A i \in Runs : run[i].pc = "embed" =>
       lock[run[i].cur] = i /\ run[i].doomed = ChunksOf(run[i].cur)
HoldsTombstones ==
    \A i \in Runs :
       /\ run[i].pc \in {"idle", "pick", "upsert", "embed"} => run[i].missing = {} /\ run[i].gone = {}
       /\ run[i].pc = "tombstone" => \A u \in run[i].gone : lock[u] = i
StoreInv == TypeOK /\ Loaded /\ HoldsDocument /\ HoldsTombstones /\ CatalogConsistent

\* A run that was alone, saw the last edit and came to its end leaves the catalogue equal to
\* the source, whatever earlier runs did or left undone (11.1's incremental rule).
RunConverges ==
    \A i \in Runs :
       run[i].pc \in {"invalidate", "purge", "done"} /\ run[i].fresh =>
          \A u \in Uris : StoredHash(u) = source[u]

\* The inductive invariant behind it: a fresh run has the catalogue to itself; what it has
\* passed is as it loaded it, and before the tombstones are committed the
\* rows without a file are on its list.
AloneWhenFresh == \A i, j \in Runs : run[i].fresh /\ i # j => Over(j)
FreshLoaded ==
    \A i \in Runs : run[i].fresh /\ run[i].pc \in {"pick", "upsert", "embed", "tombstone"} =>
       /\ run[i].raw = source
       /\ \A u \in Uris : run[i].raw[u] # Absent /\ u \notin run[i].todo \cup {run[i].cur} =>
                             StoredHash(u) = run[i].raw[u]
TombstonesDue ==
    \A i \in Runs : run[i].fresh /\ run[i].pc = "tombstone" =>
       /\ run[i].todo = {}
       /\ \A u \in Uris : run[i].raw[u] = Absent /\ documents[u].live =>
                             u \in run[i].missing \cup run[i].gone
ListsAbsent ==
    \A i \in Runs : \A u \in run[i].missing \cup run[i].gone : run[i].raw[u] = Absent
ConvergeInv ==
    StoreInv /\ AloneWhenFresh /\ FreshLoaded /\ TombstonesDue /\ ListsAbsent /\ RunConverges

Outdated(e) == e.cites \ chunks

\* A cached answer that cites a version no longer in the catalogue has one of four excuses:
\* the change is still to be announced, the announcement was lost, the answer was on its way
\* to the cache when the announcement came, or more answers than a page holds were to be
\* deleted (invalidate_by_documents "deletes every entry", but reads one page of 1000).
StaleIsExcused ==
    \A e \in cache : \A c \in Outdated(e) :
       \/ e.raced
       \/ e.beyond
       \/ c.uri \in missed
       \/ \E i \in Runs : c.uri \in Unannounced(i)

\* The inductive invariant behind it.  A run that has found its victims is an excuse for them
\* only; an answer on its way to the cache has no excuse in a run that has looked already.
EntriesExcused ==
    \A e \in cache : \A c \in Outdated(e) :
       \/ e.raced
       \/ e.beyond
       \/ c.uri \in missed
       \/ \E i \in Runs : /\ c.uri \in Unannounced(i)
                          /\ run[i].pc = "purge" => e.key \in run[i].victims
AnswersExcused ==
    \A r \in Readers : reader[r].pc = "answer" => \A c \in reader[r].found \ chunks :
       \/ reader[r].raced
       \/ c.uri \in missed
       \/ \E i \in Runs : c.uri \in Unannounced(i) /\ run[i].pc # "purge"
ExcuseInv == StoreInv /\ EntriesExcused /\ AnswersExcused

\* No answer, fresh or cached, cites a document its user may not read: the namespace keeps
\* users with different groups apart.
AclRespected ==
    \A r \in Readers : \A c \in reader[r].found : AclOf[c.uri] \in GroupsOf[r]

\* The inductive invariant behind it: so do the entries of the user's namespace.
NamespaceKeepsAcl ==
    \A e \in cache, r \in Readers : e.namespace = acl_hash(GroupsOf[r]) =>
       \A c \in e.cites : AclOf[c.uri] \in GroupsOf[r]
=============================================================================
