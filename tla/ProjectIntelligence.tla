-------------------------- MODULE ProjectIntelligence --------------------------
(***************************************************************************)
(* The memory of a project (services/project_intelligence_service.py and   *)
(* _store.py): the sources it was given, the documents and the evidence    *)
(* (chunks and facts) derived from them, and the recommendations rebuilt   *)
(* from them after each change.                                            *)
(*                                                                         *)
(* Every call of the store is awaited, so the requests of a project, each  *)
(* an actor here, interleave between any two of its statements.            *)
(***************************************************************************)
EXTENDS Naturals, Sequences, FiniteSets

CONSTANTS
    Ingesters,   \* uploads and connector syncs
    Removers,    \* DELETE sources/{id}
    Files,       \* what is uploaded: an origin and its text
    Texts,       \* normalized texts
    Audience,    \* those whose facts are of the category "audience"
    Batch,       \* bound: files of one ingestion
    Mishaps      \* bound: calls of the store that raise

VARIABLES
    text,      \* the text of each file
    job,       \* the job of each ingestion
    sources,   \* the rows of ProjectIntelligenceSource
    docs,      \* the documents, each with its evidence and its duplicate row
    recs,      \* the recommendation of each key
    actor,     \* how far each request is
    plan,      \* the recommendations a rebuild is about to write: key -> evidence
    overlapped,\* history: two jobs have been active at once
    crossed,   \* history: a rebuild has begun while another was under way, or a
               \* removal was broken off
    mishaps

vars == <<text, job, sources, docs, recs, actor, plan, overlapped, crossed, mishaps>>

rows == <<text, job, sources, docs, recs, overlapped, crossed, mishaps>>

(* Three of the six recommendations, in the order build_recommendations    *)
(* lists them. "seo_backlog_without_ideas" and "stale_source_data" rest on *)
(* listed sources as the first two do; "high_confidence_idea_candidate" is *)
(* never planned: it needs a fact of confidence 0.7, and the extractor     *)
(* gives 0.62 at most.                                                     *)
KeyOrder == <<"missing_audience_signal", "weak_source_diversity",
              "duplicate_evidence_detected">>

Keys == {KeyOrder[n] : n \in 1 .. 3}

ASSUME IntelligenceAssumption ==
    /\ Ingesters \cap Removers = {}
    /\ Audience \subseteq Texts
    /\ Mishaps \in Nat /\ Batch \in Nat

Actors == Ingesters \cup Removers

Absent == [row |-> FALSE, live |-> FALSE, evidence |-> {}]

(* Identifiers of sources and documents.                                   *)
Source(n) == <<"source", n>>
Document(n) == <<"document", n>>

Ids == {Source(n) : n \in DOMAIN sources} \cup {Document(n) : n \in DOMAIN docs}

(* item: the file of an ingestion, the key of a recommendation; doc: the    *)
(* document just created, or the one it duplicates.                        *)
Idle == [at |-> "start", files |-> {}, source |-> 0, doc |-> 0, item |-> "none", found |-> FALSE]

Places == {"start", "create_job", "find_source", "create_source", "find_exact", "find_near",
           "create_document", "create_duplicate", "create_evidence", "read_sources",
           "read_facts", "read_duplicates", "clear", "find_rec", "write_rec", "finish",
           "fail", "mark_documents", "mark_evidence", "mark_recs", "done"}

TypeOK ==
    /\ text \in [Files -> Texts]
    /\ job \in [Ingesters -> {"none", "running", "completed", "failed"}]
    /\ sources \in Seq([file : Files, removed : BOOLEAN])
    /\ docs \in Seq([source : 1 .. Len(sources), text : Texts, canonical : 0 .. Len(docs),
                     removed : BOOLEAN, duplicate : BOOLEAN,
                     evidence : {"none", "live", "removed"}])
    /\ recs \in [Keys -> [row : BOOLEAN, live : BOOLEAN, evidence : SUBSET Ids]]
    /\ actor \in [Actors -> [at : Places, files : SUBSET Files, source : 0 .. Len(sources),
                             doc : 0 .. Len(docs), item : Files \cup Keys \cup {"none"},
                             found : BOOLEAN]]
    /\ \A p \in Actors : /\ DOMAIN plan[p] \subseteq Keys
                         /\ \A k \in DOMAIN plan[p] : plan[p][k] \subseteq Ids
    /\ overlapped \in BOOLEAN /\ crossed \in BOOLEAN /\ mishaps \in 0 .. Mishaps

Init ==
    /\ text \in [Files -> Texts]
    /\ job = [p \in Ingesters |-> "none"]
    /\ sources = <<>> /\ docs = <<>>
    /\ recs = [k \in Keys |-> Absent]
    /\ actor = [p \in Actors |-> Idle]
    /\ plan = [p \in Actors |-> <<>>]
    /\ overlapped = FALSE /\ crossed = FALSE /\ mishaps = 0

At(p, place) == actor[p].at = place

Goes(p, place) == actor' = [actor EXCEPT ![p].at = place]

(* What a listing shows: the rows whose source is not removed.             *)
LiveSources == {n \in DOMAIN sources : ~sources[n].removed}

ListedDocs == {n \in DOMAIN docs : ~docs[n].removed /\ docs[n].source \in LiveSources}

ListedFacts == {n \in DOMAIN docs : docs[n].evidence = "live" /\ docs[n].source \in LiveSources}

Active == {p \in Ingesters : job[p] = "running"}

(* --------------------------------------------------------------- ingestion *)

(* ingest_uploads, sync_connectors: get_active_job, then create_job        *)
Begin(p) ==
    /\ At(p, "start")
    /\ IF Active # {} THEN Goes(p, "done")
       ELSE \E F \in {G \in SUBSET Files : Cardinality(G) \in 1 .. Batch} :
                actor' = [actor EXCEPT ![p].at = "create_job", ![p].files = F]
    /\ UNCHANGED <<rows, plan>>

CreateJob(p) ==
    /\ At(p, "create_job") /\ Goes(p, "find_source")
    /\ job' = [job EXCEPT ![p] = "running"]
    /\ overlapped' = (overlapped \/ Active # {})
    /\ UNCHANGED <<text, sources, docs, recs, plan, crossed, mishaps>>

(* The actor p after the files F: the next of them, or the rebuild.        *)
Rest(F) == [Idle EXCEPT !.at = IF F = {} THEN "read_sources" ELSE "find_source", !.files = F]

(* _ingest_text_source: find_source looks for the file among the sources   *)
(* that are not removed.                                                   *)
FindSource(p) ==
    /\ At(p, "find_source")
    /\ \E f \in actor[p].files :
         \/ /\ \E n \in LiveSources : sources[n].file = f
            /\ actor' = [actor EXCEPT ![p] = Rest(actor[p].files \ {f})]
         \/ /\ \A n \in LiveSources : sources[n].file # f
            /\ actor' = [actor EXCEPT ![p].at = "create_source", ![p].files = @ \ {f},
                                      ![p].item = f]
    /\ UNCHANGED <<rows, plan>>

CreateSource(p) ==
    /\ At(p, "create_source")
    /\ sources' = Append(sources, [file |-> actor[p].item, removed |-> FALSE])
    /\ actor' = [actor EXCEPT ![p].at = "find_exact", ![p].source = Len(sources) + 1]
    /\ UNCHANGED <<text, job, docs, recs, plan, overlapped, crossed, mishaps>>

TextOf(p) == text[actor[p].item]

Oldest(N) == CHOOSE n \in N : \A m \in N : n <= m

(* MUTANT: the search by text is left out.                                 *)
ExactNever(p) == {}

(* get_document_by_normalized_hash does not look at the document's source. *)
Exact(p) == {n \in DOMAIN docs : docs[n].text = TextOf(p) /\ ~docs[n].removed}

FindExact(p) ==
    /\ At(p, "find_exact")
    /\ actor' = [actor EXCEPT
          ![p].at = IF Exact(p) = {} THEN "find_near" ELSE "create_document",
          ![p].doc = IF Exact(p) = {} THEN 0 ELSE Oldest(Exact(p))]
    /\ UNCHANGED <<rows, plan>>

(* list_documents: any of another text may be similar enough, or none.     *)
FindNear(p) ==
    /\ At(p, "find_near")
    /\ \E n \in {0} \cup {m \in ListedDocs : docs[m].text # TextOf(p)} :
         actor' = [actor EXCEPT ![p].at = "create_document", ![p].doc = n]
    /\ UNCHANGED <<rows, plan>>

CreateDocument(p) ==
    /\ At(p, "create_document")
    /\ docs' = Append(docs, [source |-> actor[p].source, text |-> TextOf(p),
                             canonical |-> actor[p].doc, removed |-> FALSE,
                             duplicate |-> FALSE, evidence |-> "none"])
    /\ actor' = [actor EXCEPT
          ![p].at = IF actor[p].doc = 0 THEN "create_evidence" ELSE "create_duplicate",
          ![p].doc = Len(docs) + 1]
    /\ UNCHANGED <<text, job, sources, recs, plan, overlapped, crossed, mishaps>>

CreateDuplicate(p) ==
    /\ At(p, "create_duplicate")
    /\ docs' = [docs EXCEPT ![actor[p].doc].duplicate = TRUE]
    /\ actor' = [actor EXCEPT ![p] = Rest(actor[p].files)]
    /\ UNCHANGED <<text, job, sources, recs, plan, overlapped, crossed, mishaps>>

(* create_chunks and create_facts                                          *)
CreateEvidence(p) ==
    /\ At(p, "create_evidence")
    /\ docs' = [docs EXCEPT ![actor[p].doc].evidence = "live"]
    /\ actor' = [actor EXCEPT ![p] = Rest(actor[p].files)]
    /\ UNCHANGED <<text, job, sources, recs, plan, overlapped, crossed, mishaps>>

(* ----------------------------------------------------------- the rebuild *)

Plans(p, k, E) == plan' = [plan EXCEPT ![p] = [l \in DOMAIN @ \cup {k} |->
                                                 IF l = k THEN E ELSE @[l]]]

(* Where a rebuild is between its first listing and its last write.        *)
UnderWay(p) == actor[p].at \in {"read_facts", "read_duplicates", "clear", "find_rec", "write_rec"}

(* The k newest rows of N: listings begin with the newest.                 *)
Newest(N, k) == {n \in N : Cardinality({m \in N : m > n}) < k}

(* _rebuild_recommendations: three listings, then the plan that            *)
(* build_recommendations makes of them. Types of sources are not modelled: *)
(* three sources or more may be of three types, and then varied enough.    *)
ReadSources(p) ==
    /\ At(p, "read_sources") /\ Goes(p, "read_facts")
    /\ \E varied \in {FALSE, Cardinality(LiveSources) > 2} :
         plan' = [plan EXCEPT ![p] =
                    [k \in IF varied THEN {KeyOrder[1]} ELSE {KeyOrder[1], KeyOrder[2]} |->
                       {Source(n) : n \in Newest(LiveSources, IF k = KeyOrder[1] THEN 2 ELSE 3)}]]
    /\ crossed' = (crossed \/ \E q \in Actors : UnderWay(q))
    /\ UNCHANGED <<text, job, sources, docs, recs, overlapped, mishaps>>

(* The audience is missing unless a listed fact is of that category.       *)
ReadFacts(p) ==
    /\ At(p, "read_facts") /\ Goes(p, "read_duplicates")
    /\ IF \E n \in ListedFacts : docs[n].text \in Audience
       THEN plan' = [plan EXCEPT ![p] = [k \in DOMAIN @ \ {KeyOrder[1]} |-> @[k]]]
       ELSE UNCHANGED plan
    /\ UNCHANGED rows

(* list_duplicates lists them all, removed or not.                         *)
ReadDuplicates(p) ==
    /\ At(p, "read_duplicates") /\ Goes(p, "clear")
    /\ LET D == {n \in DOMAIN docs : docs[n].duplicate}
       IN  IF D = {} THEN UNCHANGED plan
           ELSE Plans(p, KeyOrder[3], {Document(n) : n \in Newest(D, 4)})
    /\ UNCHANGED rows

(* After the last write: a job is finished, a removal answers.             *)
Rebuilt(p) == IF p \in Ingesters THEN "finish" ELSE "done"

Clear(p) ==
    /\ At(p, "clear") /\ Goes(p, IF DOMAIN plan[p] = {} THEN Rebuilt(p) ELSE "find_rec")
    /\ recs' = [k \in Keys |-> [recs[k] EXCEPT !.live = FALSE]]
    /\ UNCHANGED <<text, job, sources, docs, plan, overlapped, crossed, mishaps>>

NextKey(p) == KeyOrder[Oldest({n \in 1 .. 3 : KeyOrder[n] \in DOMAIN plan[p]})]

(* upsert_recommendations: look for the row of the key, then write it.     *)
FindRec(p) ==
    /\ At(p, "find_rec")
    /\ actor' = [actor EXCEPT ![p].at = "write_rec", ![p].item = NextKey(p),
                              ![p].found = recs[NextKey(p)].row]
    /\ UNCHANGED <<rows, plan>>

WriteRec(p) ==
    LET k == actor[p].item
        left == DOMAIN plan[p] \ {k}
    IN  /\ At(p, "write_rec") /\ (actor[p].found \/ ~recs[k].row)
        /\ recs' = [recs EXCEPT ![k] = [row |-> TRUE, live |-> TRUE,
                                        evidence |-> plan[p][k]]]
        /\ plan' = [plan EXCEPT ![p] = [l \in left |-> @[l]]]
        /\ actor' = [actor EXCEPT
              ![p] = [Idle EXCEPT !.at = IF left = {} THEN Rebuilt(p) ELSE "find_rec"]]
        /\ UNCHANGED <<text, job, sources, docs, overlapped, crossed, mishaps>>

(* An exception: a job is marked failed, unless that is what raised; a     *)
(* removal answers an error, broken off.                                   *)
Raises(p) ==
    /\ actor' = [actor EXCEPT ![p] =
          [Idle EXCEPT !.at = IF p \in Active /\ ~At(p, "fail") THEN "fail" ELSE "done"]]
    /\ plan' = [plan EXCEPT ![p] = <<>>]
    /\ crossed' = (crossed \/ p \in Removers)

(* The key is unique: a row inserted meanwhile makes the insert fail.      *)
Conflict(p) ==
    /\ At(p, "write_rec") /\ ~actor[p].found /\ recs[actor[p].item].row
    /\ Raises(p)
    /\ UNCHANGED <<text, job, sources, docs, recs, overlapped, mishaps>>

(* MUTANT: a status the table does not know.                               *)
FinishDone(p) ==
    /\ At(p, "finish") /\ Goes(p, "done")
    /\ job' = [job EXCEPT ![p] = "done"]
    /\ UNCHANGED <<text, sources, docs, recs, plan, overlapped, crossed, mishaps>>

(* The status "degraded" of a run without AI synthesis is not told apart.  *)
Finish(p) ==
    /\ At(p, "finish") /\ Goes(p, "done")
    /\ job' = [job EXCEPT ![p] = "completed"]
    /\ UNCHANGED <<text, sources, docs, recs, plan, overlapped, crossed, mishaps>>

Fail(p) ==
    /\ At(p, "fail") /\ Goes(p, "done")
    /\ job' = [job EXCEPT ![p] = "failed"]
    /\ UNCHANGED <<text, sources, docs, recs, plan, overlapped, crossed, mishaps>>

(* ----------------------------------------------------------- the removal *)

(* mark_source_removed: one statement after the other                      *)
MarkSource(p) ==
    /\ At(p, "start")
    /\ \E n \in DOMAIN sources :
         /\ sources' = [sources EXCEPT ![n].removed = TRUE]
         /\ actor' = [actor EXCEPT ![p].at = "mark_documents", ![p].source = n]
    /\ UNCHANGED <<text, job, docs, recs, plan, overlapped, crossed, mishaps>>

MarkDocuments(p) ==
    /\ At(p, "mark_documents") /\ Goes(p, "mark_evidence")
    /\ docs' = [n \in DOMAIN docs |-> [docs[n] EXCEPT
                   !.removed = @ \/ docs[n].source = actor[p].source]]
    /\ UNCHANGED <<text, job, sources, recs, plan, overlapped, crossed, mishaps>>

MarkEvidence(p) ==
    /\ At(p, "mark_evidence") /\ Goes(p, "mark_recs")
    /\ docs' = [n \in DOMAIN docs |-> [docs[n] EXCEPT
                   !.evidence = IF @ = "live" /\ docs[n].source = actor[p].source
                                THEN "removed" ELSE @]]
    /\ UNCHANGED <<text, job, sources, recs, plan, overlapped, crossed, mishaps>>

(* MUTANT: a removal ends without a rebuild of its own.                    *)
MarkRecsOnly(p) ==
    /\ At(p, "mark_recs")
    /\ recs' = [k \in Keys |-> IF Source(actor[p].source) \in recs[k].evidence
                               THEN [recs[k] EXCEPT !.live = FALSE]
                               ELSE recs[k]]
    /\ actor' = [actor EXCEPT ![p] = [Idle EXCEPT !.at = "done"]]
    /\ UNCHANGED <<text, job, sources, docs, plan, overlapped, crossed, mishaps>>

(* The recommendations whose evidence names the source itself.             *)
MarkRecs(p) ==
    /\ At(p, "mark_recs")
    /\ recs' = [k \in Keys |-> IF Source(actor[p].source) \in recs[k].evidence
                               THEN [recs[k] EXCEPT !.live = FALSE]
                               ELSE recs[k]]
    /\ actor' = [actor EXCEPT ![p] = [Idle EXCEPT !.at = "read_sources"]]
    /\ UNCHANGED <<text, job, sources, docs, plan, overlapped, crossed, mishaps>>

(* -------------------------------------------------------------- mishaps *)

(* A call of the store raises.                                             *)
Error(p) ==
    /\ ~At(p, "start") /\ ~At(p, "done")
    /\ mishaps < Mishaps /\ mishaps' = mishaps + 1
    /\ Raises(p)
    /\ UNCHANGED <<text, job, sources, docs, recs, overlapped>>

Rebuild(p) == ReadSources(p) \/ ReadFacts(p) \/ ReadDuplicates(p) \/ Clear(p) \/ FindRec(p)
              \/ WriteRec(p) \/ Conflict(p)

Ingest(p) == Begin(p) \/ CreateJob(p) \/ FindSource(p) \/ CreateSource(p) \/ FindExact(p)
             \/ FindNear(p) \/ CreateDocument(p) \/ CreateDuplicate(p) \/ CreateEvidence(p)
             \/ Rebuild(p) \/ Finish(p) \/ Fail(p)

Remove(p) == MarkSource(p) \/ MarkDocuments(p) \/ MarkEvidence(p) \/ MarkRecs(p) \/ Rebuild(p)

Next == \/ \E p \in Ingesters : Ingest(p)
        \/ \E p \in Removers : Remove(p)
        \/ \E p \in Actors : Error(p)

Spec == Init /\ [][Next]_vars

(* ------------------------------------------------------------ properties *)

(* As long as two jobs are never active at once, evidence is never counted *)
(* twice: a text is stated by the facts of one source at most, whatever is *)
(* removed, uploaded again or left half done.                              *)
EvidenceOnce == ~overlapped => \A m, n \in ListedFacts :
    docs[m].text = docs[n].text => m = n

Answered == \A p \in Actors : At(p, "start") \/ At(p, "done")

(* As long as no rebuild begins while another is under way and no removal  *)
(* is broken off, once every request has been answered no recommendation   *)
(* names a removed source: whatever an ingestion listed before the source  *)
(* was marked and wrote after, the rebuild of the removal takes back.      *)
SourceIsGone == Answered /\ ~crossed =>
    \A k \in Keys, n \in DOMAIN sources :
        recs[k].live /\ Source(n) \in recs[k].evidence => ~sources[n].removed

(* Under the same conditions, no recommendation rests on a removed source  *)
(* or on one of its documents.                                             *)
RemovedIsGone == Answered /\ ~crossed =>
    \A k \in Keys : recs[k].live => recs[k].evidence \subseteq
        {Source(n) : n \in LiveSources} \cup
        {Document(n) : n \in {d \in DOMAIN docs : docs[d].source \in LiveSources}}
===============================================================================
