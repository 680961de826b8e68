----------------------- MODULE ProjectIntelligence_proofs -----------------------
(* Theorems of ProjectIntelligence and their proofs, for any requests, files *)
(* and texts and any number of calls of the store that raise.                *)
EXTENDS ProjectIntelligence, FiniteSetTheorems, WellFoundedInduction, TLAPS

-------------------------------------------------------------------------------
(* The inductive invariant                                                   *)

SourceType == [file : Files, removed : BOOLEAN]

DocType == [source : Nat, text : Texts, canonical : Nat, removed : BOOLEAN, duplicate : BOOLEAN,
            evidence : {"none", "live", "removed"}]

RecType == [row : BOOLEAN, live : BOOLEAN, evidence : SUBSET Ids]

ActorType == [at : Places, files : SUBSET Files, source : Nat, doc : Nat,
              item : Files \cup Keys \cup {"none"}, found : BOOLEAN]

ScalarsType ==
    /\ text \in [Files -> Texts]
    /\ job \in [Ingesters -> {"none", "running", "completed", "failed"}]
    /\ crossed \in BOOLEAN
    /\ overlapped \in BOOLEAN /\ mishaps \in 0 .. Mishaps

(* Every document is of a source that exists, and is removed only after it.  *)
DocsOfSources == \A n \in DOMAIN docs :
    /\ docs[n].source \in DOMAIN sources /\ docs[n].canonical <= Len(docs)
    /\ docs[n].removed => sources[docs[n].source].removed

StoreType ==
    /\ sources \in Seq(SourceType) /\ docs \in Seq(DocType) /\ DocsOfSources
    /\ recs \in [Keys -> RecType]

PlanType(f) == DOMAIN f \subseteq Keys /\ \A k \in DOMAIN f : f[k] \subseteq Ids

PlansType ==
    /\ plan = [p \in Actors |-> plan[p]]
    /\ \A p \in Actors : PlanType(plan[p])

(* Where an ingestion is between create_job and the end of its job.          *)
Working == {"find_source", "create_source", "find_exact", "find_near", "create_document",
            "create_duplicate", "create_evidence", "read_sources", "read_facts",
            "read_duplicates", "clear", "find_rec", "write_rec", "finish", "fail"}

Rebuilding == {"read_facts", "read_duplicates", "clear", "find_rec"}

Marking == {"mark_documents", "mark_evidence", "mark_recs"}

(* What an actor p knows by its record a and its plan f.                     *)
Knows(p, a, f) ==
    /\ a.source <= Len(sources) /\ a.doc <= Len(docs)
    /\ a.at \in {"create_source", "find_exact", "find_near", "create_document"} => a.item \in Files
    /\ a.at \in {"find_exact", "find_near", "create_document"} => a.source \in DOMAIN sources
    /\ a.at \in {"create_duplicate", "create_evidence"} => a.doc \in DOMAIN docs
    /\ a.at = "find_rec" => DOMAIN f # {}
    /\ a.at = "write_rec" => a.item \in DOMAIN f
    /\ a.at \in Marking => a.source \in DOMAIN sources /\ sources[a.source].removed
    /\ p \in Removers => a.at \in {"start", "done", "read_sources", "write_rec"} \cup Rebuilding \cup Marking
    /\ p \in Ingesters => /\ a.at \in {"start", "create_job", "done"} \cup Working
                          /\ a.at \in Working => p \in Active

PlanOf(p) == plan[p]

AllKnow == \A p \in Actors : Knows(p, actor[p], PlanOf(p))

(* An ingestion that is about to write evidence has looked for documents of  *)
(* its text, and there is none that is not removed.                          *)
Fresh(a) ==
    /\ a.at = "find_near" \/ (a.at = "create_document" /\ a.doc = 0) =>
         \A n \in DOMAIN docs : docs[n].text = text[a.item] => docs[n].removed
    /\ a.at = "create_evidence" =>
         \A n \in DOMAIN docs \ {a.doc} : docs[n].text = docs[a.doc].text => docs[n].removed

OneAtATime ==
    /\ \A p, q \in Active : p = q
    /\ \A p \in Ingesters : Fresh(actor[p])

IntelligenceInv ==
    /\ ScalarsType /\ StoreType /\ actor \in [Actors -> ActorType] /\ PlansType
    /\ AllKnow
    /\ ~overlapped => OneAtATime
    /\ EvidenceOnce

-------------------------------------------------------------------------------
(* The operators of the model                                                *)

(* The oldest of some rows is one of them.                                   *)
LEMMA OldestIsOne ==
    ASSUME NEW N, N \subseteq Nat, N # {}
    PROVE  Oldest(N) \in N
<1> DEFINE Before == OpToRel(<, Nat)
<1>1. \A m, n \in Nat : m < n => <<m, n>> \in Before BY DEF OpToRel
<1>2. IsWellFoundedOn(Before, Nat) BY NatLessThanWellFounded
<1> HIDE DEF Before
<1>3. PICK n \in N : \A m \in N : ~(<<m, n>> \in Before) BY <1>2, WFMin
<1>4. ASSUME NEW m \in N PROVE n <= m
  <2>1. m \in Nat /\ n \in Nat /\ ~(m < n) BY <1>1, <1>3
  <2> QED BY <2>1
<1> QED BY <1>4 DEF Oldest

LEMMA KeysOfOrder == KeyOrder[1] \in Keys /\ KeyOrder[2] \in Keys /\ KeyOrder[3] \in Keys
                     /\ Keys = {KeyOrder[1], KeyOrder[2], KeyOrder[3]}
BY DEF Keys

(* The next key of a plan is one that the plan holds.                        *)
LEMMA NextKeyPlanned ==
    ASSUME NEW p, DOMAIN plan[p] \subseteq Keys, DOMAIN plan[p] # {}
    PROVE  NextKey(p) \in DOMAIN plan[p]
<1> DEFINE N == {n \in 1 .. 3 : KeyOrder[n] \in DOMAIN plan[p]}
<1>1. N # {} BY DEF Keys
<1>2. N \subseteq Nat OBVIOUS
<1>3. PICK n : n = Oldest(N) OBVIOUS
<1>4. n \in N BY <1>1, <1>2, <1>3, OldestIsOne
<1> QED BY <1>3, <1>4 DEF NextKey

LEMMA Lengths ==
    ASSUME NEW S, NEW q \in Seq(S)
    PROVE  Len(q) \in Nat /\ DOMAIN q = 1 .. Len(q)
OBVIOUS

LEMMA SourceNumbers ==
    ASSUME StoreType
    PROVE  /\ DOMAIN sources = 1 .. Len(sources) /\ Len(sources) \in Nat
           /\ \A n \in DOMAIN sources : sources[n] \in SourceType
<1> DEFINE S == SourceType
<1>1. sources \in Seq(S) BY DEF StoreType
<1> HIDE DEF S
<1>2. /\ DOMAIN sources = 1 .. Len(sources) /\ Len(sources) \in Nat
      /\ \A n \in DOMAIN sources : sources[n] \in S
  BY <1>1
<1> QED BY <1>2 DEF S

LEMMA DocNumbers ==
    ASSUME StoreType
    PROVE  /\ DOMAIN docs = 1 .. Len(docs) /\ Len(docs) \in Nat
           /\ \A n \in DOMAIN docs : docs[n] \in DocType
<1> DEFINE D == DocType
<1>1. docs \in Seq(D) BY DEF StoreType
<1> HIDE DEF D
<1>2. /\ DOMAIN docs = 1 .. Len(docs) /\ Len(docs) \in Nat
      /\ \A n \in DOMAIN docs : docs[n] \in D
  BY <1>1
<1> QED BY <1>2 DEF D

LEMMA TypeOfInv == IntelligenceInv => TypeOK
<1> SUFFICES ASSUME IntelligenceInv PROVE TypeOK
  OBVIOUS
<1> StoreType BY DEF IntelligenceInv
<1>1. sources \in Seq([file : Files, removed : BOOLEAN])
  BY DEF StoreType, SourceType
<1>2. docs \in Seq([source : 1 .. Len(sources), text : Texts, canonical : 0 .. Len(docs),
                    removed : BOOLEAN, duplicate : BOOLEAN,
                    evidence : {"none", "live", "removed"}])
  <2> DEFINE D == [source : 1 .. Len(sources), text : Texts, canonical : 0 .. Len(docs),
                   removed : BOOLEAN, duplicate : BOOLEAN,
                   evidence : {"none", "live", "removed"}]
  <2>1. \A n \in DOMAIN docs : docs[n] \in D
    BY SourceNumbers, DocNumbers DEF StoreType, DocsOfSources, DocType
  <2>2. docs \in Seq(DocType) BY DEF StoreType
  <2>3. docs = [n \in 1 .. Len(docs) |-> docs[n]] /\ Len(docs) \in Nat
    <3> HIDE DEF D
    <3>1. PICK T : T = DocType OBVIOUS
    <3>2. docs \in Seq(T) BY <2>2, <3>1
    <3> QED BY <3>2
  <2> HIDE DEF D
  <2>4. docs \in Seq(D) BY <2>1, <2>3, DocNumbers
  <2> QED BY <2>4 DEF D
<1>3. recs \in [Keys -> [row : BOOLEAN, live : BOOLEAN, evidence : SUBSET Ids]]
  BY DEF StoreType, RecType
<1>4. ASSUME NEW p \in Actors
      PROVE  actor[p] \in [at : Places, files : SUBSET Files, source : 0 .. Len(sources),
                           doc : 0 .. Len(docs), item : Files \cup Keys \cup {"none"}, found : BOOLEAN]
  <2>1. actor[p] \in ActorType /\ Knows(p, actor[p], PlanOf(p))
    BY DEF IntelligenceInv, AllKnow
  <2>2. actor[p].source \in 0 .. Len(sources) /\ actor[p].doc \in 0 .. Len(docs)
    BY <2>1, SourceNumbers, DocNumbers DEF ActorType, Knows
  <2> QED BY <2>1, <2>2 DEF ActorType
<1>5. actor \in [Actors -> [at : Places, files : SUBSET Files, source : 0 .. Len(sources),
                            doc : 0 .. Len(docs), item : Files \cup Keys \cup {"none"},
                            found : BOOLEAN]]
  BY <1>4 DEF IntelligenceInv
<1> QED
  BY <1>1, <1>2, <1>3, <1>5
     DEF IntelligenceInv, ScalarsType, PlansType, PlanType, TypeOK

LEMMA Start == Init => IntelligenceInv
<1> SUFFICES ASSUME Init PROVE IntelligenceInv
  OBVIOUS
<1>1. ScalarsType
  <2>1. overlapped \in BOOLEAN /\ crossed \in BOOLEAN BY DEF Init
  <2> QED BY <2>1, IntelligenceAssumption DEF Init, ScalarsType
<1>2. /\ sources \in Seq(SourceType) /\ docs \in Seq(DocType)
      /\ DOMAIN docs = {} /\ Len(sources) = 0 /\ Len(docs) = 0
  BY DEF Init
<1>3. recs \in [Keys -> RecType]
  BY DEF Init, Absent, RecType
<1>4. Idle \in ActorType BY DEF Idle, ActorType, Places
<1>5. actor \in [Actors -> ActorType] BY <1>4 DEF Init
<1>6. PlansType
  <2>1. PlanType(<<>>) BY DEF PlanType
  <2> QED BY <2>1 DEF Init, PlansType
<1>7. Active = {} BY DEF Init, Active
<1>8. ASSUME NEW p \in Actors PROVE Knows(p, actor[p], PlanOf(p))
  <2>1. actor[p] = Idle BY DEF Init
  <2>2. actor[p].at = "start" /\ actor[p].source = 0 /\ actor[p].doc = 0
    BY <2>1 DEF Idle
  <2> QED BY <1>2, <2>2 DEF Knows, Rebuilding, Marking, Working
<1>9. OneAtATime /\ EvidenceOnce
  <2>1. \A p \in Ingesters : actor[p].at = "start"
    BY DEF Init, Idle, Actors
  <2> QED BY <1>2, <1>7, <2>1 DEF OneAtATime, EvidenceOnce, ListedFacts, Fresh
<1> QED BY <1>1, <1>2, <1>3, <1>5, <1>6, <1>8, <1>9 DEF IntelligenceInv, StoreType, DocsOfSources, AllKnow

-------------------------------------------------------------------------------
(* What every step keeps                                                     *)

(* Sources and documents are added, never taken away, and stay removed.      *)
SourcesKept ==
    /\ Len(sources) <= Len(sources')
    /\ \A n \in DOMAIN sources : n \in DOMAIN sources' /\ (sources[n].removed => sources'[n].removed)

DocsKept ==
    /\ Len(docs) <= Len(docs')
    /\ \A n \in DOMAIN docs :
         /\ n \in DOMAIN docs' /\ docs'[n].text = docs[n].text
         /\ docs[n].removed => docs'[n].removed

LEMMA IdsKept ==
    ASSUME SourcesKept, DocsKept
    PROVE  Ids \subseteq Ids'
BY DEF SourcesKept, DocsKept, Ids

LEMMA PlanStays ==
    ASSUME SourcesKept, DocsKept, NEW f, PlanType(f)
    PROVE  PlanType(f)'
BY IdsKept DEF PlanType

LEMMA KnowsStays ==
    ASSUME StoreType, StoreType', SourcesKept, DocsKept, NEW p, NEW a \in ActorType, NEW f,
           Knows(p, a, f), p \in Ingesters => job'[p] = job[p]
    PROVE  Knows(p, a, f)'
<1>1. a.source <= Len(sources') /\ a.doc <= Len(docs')
  <2>1. /\ a.source \in Nat /\ a.doc \in Nat /\ Len(sources) \in Nat /\ Len(sources') \in Nat
        /\ Len(docs) \in Nat /\ Len(docs') \in Nat
    BY Lengths DEF ActorType, StoreType
  <2> QED BY <2>1 DEF Knows, SourcesKept, DocsKept
<1>2. p \in Active => p \in Active' BY DEF Knows, Active
<1> QED BY <1>1, <1>2 DEF Knows, SourcesKept, DocsKept, Active

(* The plans of the others stay.                                             *)
PlanStep(p) ==
    /\ plan' = [q \in Actors |-> plan'[q]]
    /\ \A q \in Actors : q # p => plan'[q] = plan[q]

OtherJobs(p) == \A q \in Ingesters : q # p => job'[q] = job[q]

LEMMA ActorMoves ==
    ASSUME IntelligenceInv, StoreType', SourcesKept, DocsKept, NEW p \in Actors, OtherJobs(p),
           NEW a \in ActorType, actor' = [actor EXCEPT ![p] = a],
           PlanStep(p), NEW f, f = PlanOf(p)', PlanType(f)', Knows(p, a, f)'
    PROVE  /\ actor' \in [Actors -> ActorType] /\ PlansType' /\ AllKnow'
           /\ \A q \in Actors : actor'[q] = IF q = p THEN a ELSE actor[q]
<1>1. actor' \in [Actors -> ActorType] BY DEF IntelligenceInv
<1>2. \A q \in Actors : actor'[q] = IF q = p THEN a ELSE actor[q] BY DEF IntelligenceInv
<1>3. PlansType'
  <2>1. ASSUME NEW q \in Actors PROVE PlanType(plan[q])'
    <3>1. CASE q = p BY <2>1, <3>1 DEF PlanOf, PlanType
    <3>2. CASE q # p
      <4>1. PICK g : g = plan[q] OBVIOUS
      <4>2. PlanType(g) BY <4>1 DEF IntelligenceInv, PlansType
      <4>3. PlanType(g)' BY <4>2, PlanStays
      <4>4. plan'[q] = g BY <3>2, <4>1 DEF PlanStep
      <4> QED BY <4>3, <4>4 DEF PlanType
    <3> QED BY <3>1, <3>2
  <2> QED BY <2>1 DEF PlansType, PlanStep
<1>4. ASSUME NEW q \in Actors PROVE Knows(q, actor[q], PlanOf(q))'
  <2>1. CASE q = p BY <1>2, <2>1 DEF Knows
  <2>2. CASE q # p
    <3>1. PICK b \in ActorType : b = actor[q] BY DEF IntelligenceInv
    <3>0. PICK g : g = PlanOf(q) OBVIOUS
    <3>2. Knows(q, b, g) BY <3>0, <3>1 DEF IntelligenceInv, AllKnow
    <3>3. Knows(q, b, g)' BY <2>2, <3>2, KnowsStays DEF IntelligenceInv, OtherJobs
    <3>4. actor'[q] = b /\ PlanOf(q)' = g BY <1>2, <2>2, <3>0, <3>1 DEF PlanOf, PlanStep
    <3> QED BY <3>3, <3>4 DEF Knows
  <2> QED BY <2>1, <2>2
<1> QED BY <1>1, <1>2, <1>3, <1>4 DEF AllKnow

(* What a fresh ingestion has seen stays so while the documents stay, but    *)
(* for those that are removed.                                               *)
LEMMA FreshStays ==
    ASSUME DocsKept, DOMAIN docs' = DOMAIN docs, UNCHANGED text, NEW a, Fresh(a),
           a.at = "create_evidence" => a.doc \in DOMAIN docs
    PROVE  Fresh(a)'
BY DEF Fresh, DocsKept

LEMMA Alone ==
    ASSUME IntelligenceInv, ~overlapped, DocsKept, UNCHANGED text, NEW p \in Actors,
           NEW a, \A q \in Actors : actor'[q] = IF q = p THEN a ELSE actor[q],
           DOMAIN docs' = DOMAIN docs \/ p \in Active,
           p \in Ingesters => Fresh(a)', \A q, r \in Active' : q = r
    PROVE  OneAtATime'
<1>1. ASSUME NEW q \in Ingesters, q # p PROVE Fresh(actor[q])'
  <2>1. q \in Actors BY DEF Actors
  <2>2. PICK b : b = actor[q] OBVIOUS
  <2>3. actor'[q] = b BY <1>1, <2>1, <2>2
  <2>4. Knows(q, b, PlanOf(q)) BY <2>1, <2>2 DEF IntelligenceInv, AllKnow
  <2>5. Fresh(b) BY <2>2 DEF IntelligenceInv, OneAtATime
  <2>6. CASE q \in Active
    <3>1. p \notin Active BY <1>1, <2>6 DEF IntelligenceInv, OneAtATime
    <3>2. Fresh(b)' BY <2>4, <2>5, <3>1, FreshStays DEF Knows
    <3> QED BY <2>3, <3>2 DEF Fresh
  <2>7. CASE q \notin Active
    <3>1. b.at \notin Working BY <2>4, <2>7 DEF Knows
    <3>2. Fresh(b)' BY <3>1 DEF Fresh, Working
    <3> QED BY <2>3, <3>2 DEF Fresh
  <2> QED BY <2>6, <2>7
<1>2. p \in Ingesters => Fresh(actor[p])'
  <2>1. actor'[p] = a OBVIOUS
  <2> QED BY <2>1 DEF Fresh
<1> QED BY <1>1, <1>2 DEF OneAtATime

(* A step of one request.                                                    *)
LEMMA Step ==
    ASSUME IntelligenceInv, ScalarsType', StoreType', SourcesKept, DocsKept, UNCHANGED text,
           NEW p \in Actors, OtherJobs(p), NEW a \in ActorType, actor' = [actor EXCEPT ![p] = a],
           PlanStep(p), NEW f, f = PlanOf(p)', PlanType(f)', Knows(p, a, f)',
           overlapped => overlapped', EvidenceOnce',
           ~overlapped' => /\ \A q, r \in Active' : q = r
                           /\ p \in Ingesters => Fresh(a)'
                           /\ DOMAIN docs' = DOMAIN docs \/ p \in Active
    PROVE  IntelligenceInv'
<1>1. /\ actor' \in [Actors -> ActorType] /\ PlansType' /\ AllKnow'
      /\ \A q \in Actors : actor'[q] = IF q = p THEN a ELSE actor[q]
  <2> HIDE DEF IntelligenceInv, Knows, PlanType
  <2> QED BY ActorMoves
<1>2. ASSUME ~overlapped' PROVE OneAtATime'
  <2>1. ~overlapped BY <1>2
  <2> QED BY <1>1, <1>2, <2>1, Alone
<1> QED BY <1>1, <1>2 DEF IntelligenceInv

(* A step that adds no row of a source or a document.                        *)
LEMMA QuietStep ==
    ASSUME IntelligenceInv, UNCHANGED <<text, job, sources, docs, overlapped>>,
           recs' \in [Keys -> RecType], crossed' \in BOOLEAN, mishaps' \in 0 .. Mishaps,
           NEW p \in Actors, NEW a \in ActorType, actor' = [actor EXCEPT ![p] = a],
           PlanStep(p), NEW f, f = PlanOf(p)', PlanType(f), Knows(p, a, f),
           p \in Ingesters => Fresh(a) \/ overlapped
    PROVE  IntelligenceInv'
<1>1. Ids' = Ids BY DEF Ids
<1>2. ScalarsType' BY DEF IntelligenceInv, ScalarsType
<1>3. StoreType' BY <1>1 DEF IntelligenceInv, StoreType, DocsOfSources, RecType
<1>4. SourcesKept /\ DocsKept
  BY SourceNumbers, DocNumbers DEF IntelligenceInv, SourcesKept, DocsKept
<1>5. OtherJobs(p) BY DEF OtherJobs
<1>6. PlanType(f)' BY <1>1 DEF PlanType
<1>7. Active' = Active BY DEF Active
<1>8. Knows(p, a, f)' BY <1>7 DEF Knows
<1>9. EvidenceOnce' BY DEF IntelligenceInv, EvidenceOnce, ListedFacts, LiveSources
<1>10. ASSUME ~overlapped'
       PROVE  /\ \A q, r \in Active' : q = r
              /\ p \in Ingesters => Fresh(a)'
              /\ DOMAIN docs' = DOMAIN docs \/ p \in Active
  BY <1>7, <1>10 DEF IntelligenceInv, OneAtATime, Fresh
<1>11. UNCHANGED text /\ (overlapped => overlapped') OBVIOUS
<1> HIDE DEF IntelligenceInv
<1> QED BY <1>2, <1>3, <1>4, <1>5, <1>6, <1>8, <1>9, <1>10, <1>11, Step

LEMMA RowsQuiet ==
    ASSUME IntelligenceInv, UNCHANGED rows
    PROVE  /\ UNCHANGED <<text, job, sources, docs, overlapped>>
           /\ recs' \in [Keys -> RecType] /\ crossed' \in BOOLEAN
           /\ mishaps' \in 0 .. Mishaps
BY DEF rows, IntelligenceInv, ScalarsType, StoreType

LEMMA AtActor ==
    ASSUME IntelligenceInv, NEW p \in Actors
    PROVE  /\ actor[p] \in ActorType /\ Knows(p, actor[p], PlanOf(p)) /\ PlanType(PlanOf(p))
           /\ ~overlapped /\ p \in Ingesters => Fresh(actor[p])
<1>1. PlanType(<<>>) BY DEF PlanType
<1> QED BY <1>1 DEF IntelligenceInv, AllKnow, PlanOf, PlansType, OneAtATime

LEMMA SamePlan ==
    ASSUME IntelligenceInv, UNCHANGED plan, NEW p \in Actors
    PROVE  PlanStep(p) /\ PlanOf(p)' = PlanOf(p)
BY DEF IntelligenceInv, PlansType, PlanStep, PlanOf

LEMMA NewPlan ==
    ASSUME IntelligenceInv, NEW p \in Actors, NEW g, plan' = [plan EXCEPT ![p] = g]
    PROVE  PlanStep(p) /\ PlanOf(p)' = g
<1>1. plan = [q \in Actors |-> plan[q]] BY DEF IntelligenceInv, PlansType
<1>2. plan' = [q \in Actors |-> IF q = p THEN g ELSE plan[q]] BY <1>1
<1> QED BY <1>2 DEF PlanStep, PlanOf

LEMMA GoesTo ==
    ASSUME IntelligenceInv, NEW p \in Actors, NEW place \in Places, Goes(p, place)
    PROVE  \E a \in ActorType :
             /\ actor' = [actor EXCEPT ![p] = a]
             /\ a.at = place /\ a.source = actor[p].source /\ a.doc = actor[p].doc
             /\ a.item = actor[p].item
<1>1. PICK a : a = [actor[p] EXCEPT !.at = place] OBVIOUS
<1>2. /\ a \in ActorType /\ a.at = place /\ a.source = actor[p].source /\ a.doc = actor[p].doc
      /\ a.item = actor[p].item
  BY <1>1, AtActor DEF ActorType
<1>3. actor' = [actor EXCEPT ![p] = a] BY <1>1 DEF Goes
<1> QED BY <1>2, <1>3

LEMMA Records ==
    /\ Idle \in ActorType /\ Idle.at = "start" /\ Idle.source = 0 /\ Idle.doc = 0
    /\ \A place \in Places :
         LET a == [Idle EXCEPT !.at = place] IN
         a \in ActorType /\ a.at = place /\ a.source = 0 /\ a.doc = 0
    /\ \A F \in SUBSET Files :
         /\ Rest(F) \in ActorType /\ Rest(F).at \in {"read_sources", "find_source"}
         /\ Rest(F).source = 0 /\ Rest(F).doc = 0
BY DEF Idle, ActorType, Rest, Places

(* Where an actor knows nothing but what it is.                              *)
LEMMA KnowsLittle ==
    ASSUME IntelligenceInv, NEW p \in Actors, NEW a, NEW f, a.source = 0, a.doc = 0,
           \/ a.at \in {"start", "done"}
           \/ p \in Ingesters /\ p \in Active /\ a.at \in {"read_sources", "find_source", "finish", "fail"}
           \/ p \in Removers /\ a.at = "read_sources"
    PROVE  Knows(p, a, f) /\ (a.at \notin {"find_near", "create_document", "create_evidence"})
<1>1. a.source <= Len(sources) /\ a.doc <= Len(docs)
  BY SourceNumbers, DocNumbers DEF IntelligenceInv
<1>2. p \in Removers => p \notin Ingesters
  BY IntelligenceAssumption
<1> QED BY <1>1, <1>2 DEF Knows, Rebuilding, Marking, Working

LEMMA FreshElsewhere ==
    ASSUME NEW a, a.at \notin {"find_near", "create_document", "create_evidence"}
    PROVE  Fresh(a) /\ Fresh(a)'
BY DEF Fresh

-------------------------------------------------------------------------------
(* The steps of an ingestion that write no rows                              *)

LEMMA LookingStep ==
    ASSUME IntelligenceInv, NEW p \in Ingesters,
           Begin(p) \/ FindSource(p) \/ FindExact(p) \/ FindNear(p)
    PROVE  IntelligenceInv'
<1> DEFINE b == actor[p]
           f == PlanOf(p)
<1> p \in Actors BY DEF Actors
<1>1. UNCHANGED rows /\ UNCHANGED plan BY DEF Begin, FindSource, FindExact, FindNear
<1>2. /\ UNCHANGED <<text, job, sources, docs, overlapped>>
      /\ recs' \in [Keys -> RecType] /\ crossed' \in BOOLEAN
      /\ mishaps' \in 0 .. Mishaps
  BY <1>1, RowsQuiet
<1>3. PlanStep(p) /\ f = PlanOf(p)' BY <1>1, SamePlan
<1>4. b \in ActorType /\ Knows(p, b, f) /\ PlanType(f) BY AtActor
<1>5. p \notin Removers BY IntelligenceAssumption
<1>6. ASSUME NEW a \in ActorType, actor' = [actor EXCEPT ![p] = a], Knows(p, a, f),
             Fresh(a) \/ overlapped
      PROVE  IntelligenceInv'
  <2>0. \E g : g = f OBVIOUS
  <2>1. PICK g : g = f BY <2>0
  <2>2. g = PlanOf(p)' /\ PlanType(g) /\ Knows(p, a, g) BY <1>3, <1>4, <1>6, <2>1
  <2> HIDE DEF IntelligenceInv, f
  <2> QED BY <1>2, <1>3, <1>6, <2>2, QuietStep
<1>7. b.source <= Len(sources) /\ b.doc <= Len(docs) BY <1>4 DEF Knows
<1>8. CASE Begin(p)
  <2>1. b.at = "start" BY <1>8 DEF Begin, At
  <2>2. PICK a : /\ actor' = [actor EXCEPT ![p] = a]
                 /\ a \in ActorType /\ a.at \in {"done", "create_job"}
                 /\ a.source = b.source /\ a.doc = b.doc
    <3>1. CASE Active # {}
      <4>1. Goes(p, "done") /\ "done" \in Places BY <1>8, <3>1 DEF Begin, Places
      <4> QED BY <4>1, GoesTo
    <3>2. CASE Active = {}
      <4>1. PICK F \in SUBSET Files :
              actor' = [actor EXCEPT ![p] = [@ EXCEPT !.at = "create_job", !.files = F]]
        BY <1>8, <3>2 DEF Begin
      <4>2. PICK a : a = [b EXCEPT !.at = "create_job", !.files = F] OBVIOUS
      <4>3. a \in ActorType /\ a.at = "create_job" /\ a.source = b.source /\ a.doc = b.doc
        BY <1>4, <4>2 DEF ActorType, Places
      <4>4. actor' = [actor EXCEPT ![p] = a] BY <4>1, <4>2
      <4> QED BY <4>3, <4>4
    <3> QED BY <3>1, <3>2
  <2>3. Knows(p, a, f) BY <1>5, <1>7, <2>2 DEF Knows, Rebuilding, Marking, Working
  <2> QED BY <1>6, <2>2, <2>3, FreshElsewhere
<1>9. CASE FindSource(p)
  <2>1. b.at = "find_source" /\ p \in Active
    BY <1>4, <1>9 DEF FindSource, At, Knows, Working
  <2>2. PICK x \in b.files :
          \/ actor' = [actor EXCEPT ![p] = Rest(b.files \ {x})]
          \/ actor' = [actor EXCEPT ![p] =
               [b EXCEPT !.at = "create_source", !.files = b.files \ {x}, !.item = x]]
    BY <1>9 DEF FindSource
  <2>3. b.files \in SUBSET Files /\ b.files \ {x} \in SUBSET Files /\ x \in Files
    BY <1>4, <2>2 DEF ActorType
  <2>4. CASE actor' = [actor EXCEPT ![p] = Rest(b.files \ {x})]
    <3>1. PICK a : a = Rest(b.files \ {x}) OBVIOUS
    <3>2. a \in ActorType /\ Knows(p, a, f) /\ Fresh(a)
      BY <2>1, <2>3, <3>1, Records, KnowsLittle, FreshElsewhere
    <3> QED BY <1>6, <2>4, <3>1, <3>2
  <2>5. CASE actor' = [actor EXCEPT ![p] =
               [b EXCEPT !.at = "create_source", !.files = b.files \ {x}, !.item = x]]
    <3>1. PICK a : a = [b EXCEPT !.at = "create_source", !.files = b.files \ {x}, !.item = x] OBVIOUS
    <3>2. /\ a \in ActorType /\ a.at = "create_source" /\ a.item = x /\ a.source = b.source
          /\ a.doc = b.doc
      BY <1>4, <2>3, <3>1 DEF ActorType, Places
    <3>3. Knows(p, a, f)
      BY <1>5, <1>7, <2>1, <2>3, <3>2 DEF Knows, Rebuilding, Marking, Working
    <3> QED BY <1>6, <2>5, <3>1, <3>2, <3>3, FreshElsewhere
  <2> QED BY <2>2, <2>4, <2>5
<1>10. CASE FindExact(p)
  <2>1. /\ b.at = "find_exact" /\ p \in Active /\ b.item \in Files /\ b.source \in DOMAIN sources
    BY <1>4, <1>10 DEF FindExact, At, Knows, Working
  <2>2. PICK place, d :
          /\ actor' = [actor EXCEPT ![p] = [b EXCEPT !.at = place, !.doc = d]]
          /\ \/ Exact(p) = {} /\ place = "find_near" /\ d = 0
             \/ Exact(p) # {} /\ place = "create_document" /\ d = Oldest(Exact(p))
    BY <1>10 DEF FindExact
  <2>3. d <= Len(docs) /\ d \in Nat /\ (place = "create_document" => d # 0)
    <3>1. Exact(p) \subseteq DOMAIN docs /\ DOMAIN docs = 1 .. Len(docs) /\ Len(docs) \in Nat
      BY DocNumbers DEF Exact, IntelligenceInv
    <3>2. CASE Exact(p) = {} BY <2>2, <3>1, <3>2
    <3>3. CASE Exact(p) # {}
      <4>1. PICK N : N = Exact(p) OBVIOUS
      <4>2. Oldest(N) \in N BY <3>1, <3>3, <4>1, OldestIsOne
      <4> QED BY <2>2, <3>1, <3>3, <4>1, <4>2
    <3> QED BY <3>2, <3>3
  <2>4. PICK a : a = [b EXCEPT !.at = place, !.doc = d] OBVIOUS
  <2>5. /\ a \in ActorType /\ a.at = place /\ a.doc = d /\ a.item = b.item /\ a.source = b.source
    BY <1>4, <2>2, <2>3, <2>4 DEF ActorType, Places
  <2>6. Knows(p, a, f)
    BY <1>5, <1>7, <2>1, <2>2, <2>3, <2>5 DEF Knows, Rebuilding, Marking, Working
  <2>7. Fresh(a)
    <3>1. CASE place = "find_near"
      <4>1. \A n \in DOMAIN docs : docs[n].text = text[a.item] => docs[n].removed
        BY <2>2, <2>5, <3>1 DEF Exact, TextOf
      <4> QED BY <2>5, <3>1, <4>1 DEF Fresh
    <3>2. CASE place = "create_document" BY <2>3, <2>5, <3>2 DEF Fresh
    <3> QED BY <2>2, <3>1, <3>2
  <2> QED BY <1>6, <2>2, <2>4, <2>5, <2>6, <2>7
<1>11. CASE FindNear(p)
  <2>1. /\ b.at = "find_near" /\ p \in Active /\ b.item \in Files /\ b.source \in DOMAIN sources
    BY <1>4, <1>11 DEF FindNear, At, Knows, Working
  <2>2. PICK d \in {0} \cup DOMAIN docs :
          actor' = [actor EXCEPT ![p] = [b EXCEPT !.at = "create_document", !.doc = d]]
    BY <1>11 DEF FindNear, ListedDocs
  <2>3. d <= Len(docs) /\ d \in Nat BY DocNumbers DEF IntelligenceInv
  <2>4. PICK a : a = [b EXCEPT !.at = "create_document", !.doc = d] OBVIOUS
  <2>5. /\ a \in ActorType /\ a.at = "create_document" /\ a.doc = d /\ a.item = b.item
        /\ a.source = b.source
    BY <1>4, <2>3, <2>4 DEF ActorType, Places
  <2>6. Knows(p, a, f)
    BY <1>5, <1>7, <2>1, <2>3, <2>5 DEF Knows, Rebuilding, Marking, Working
  <2>7. Fresh(a) \/ overlapped
    <3>1. CASE ~overlapped
      <4>1. Fresh(b) BY <3>1 DEF IntelligenceInv, OneAtATime
      <4> QED BY <2>1, <2>5, <4>1 DEF Fresh
    <3> QED BY <3>1
  <2> QED BY <1>6, <2>2, <2>4, <2>5, <2>6, <2>7
<1> QED BY <1>8, <1>9, <1>10, <1>11
-------------------------------------------------------------------------------
(* The steps of the rebuild                                                  *)

LEMMA PlannerMoves ==
    ASSUME IntelligenceInv, UNCHANGED <<text, job, sources, docs, overlapped>>,
           recs' \in [Keys -> RecType], crossed' \in BOOLEAN, mishaps' \in 0 .. Mishaps,
           NEW p \in Actors, NEW a \in ActorType, actor' = [actor EXCEPT ![p] = a],
           NEW g, plan' = [plan EXCEPT ![p] = g], PlanType(g), Knows(p, a, g),
           a.at \notin {"find_near", "create_document", "create_evidence"}
    PROVE  IntelligenceInv'
<1>1. PlanStep(p) /\ g = PlanOf(p)' BY NewPlan
<1>2. Fresh(a) BY FreshElsewhere
<1>3. p \in Actors BY DEF Actors
<1> HIDE DEF IntelligenceInv
<1> QED BY <1>1, <1>2, <1>3, QuietStep

LEMMA Planned ==
    ASSUME IntelligenceInv, NEW p \in Actors
    PROVE  /\ plan = [plan EXCEPT ![p] = plan[p]] /\ PlanType(plan[p]) /\ p \in Actors
           /\ PlanOf(p) = plan[p] /\ (p \in Ingesters <=> p \notin Removers)
BY IntelligenceAssumption DEF IntelligenceInv, PlansType, Actors, PlanOf, Actors

LEMMA PlansAdds ==
    ASSUME IntelligenceInv, NEW p \in Actors, NEW k \in Keys, NEW E \in SUBSET Ids,
           Plans(p, k, E)
    PROVE  \E g : plan' = [plan EXCEPT ![p] = g] /\ PlanType(g) /\ DOMAIN g # {}
<1>1. PICK h : h = plan[p] OBVIOUS
<1>2. PlanType(h) BY <1>1, Planned
<1>3. PICK g : g = [l \in DOMAIN h \cup {k} |-> IF l = k THEN E ELSE h[l]] OBVIOUS
<1>4. PlanType(g) /\ DOMAIN g # {} BY <1>2, <1>3 DEF PlanType
<1>5. plan' = [plan EXCEPT ![p] = g] BY <1>1, <1>3 DEF Plans
<1> QED BY <1>4, <1>5

LEMMA KnowsRebuilding ==
    ASSUME IntelligenceInv, NEW p \in Actors, NEW a, NEW g,
           a.source <= Len(sources), a.doc <= Len(docs),
           a.at \in Rebuilding \cup {"write_rec"}, a.at = "find_rec" => DOMAIN g # {},
           a.at = "write_rec" => a.item \in DOMAIN g, p \in Ingesters => p \in Active
    PROVE  /\ Knows(p, a, g)
           /\ a.at \notin {"find_near", "create_document", "create_evidence"}
BY Planned DEF Knows, Rebuilding, Marking, Working

(* A call that raises ends the request.                                      *)
LEMMA RaisesStep ==
    ASSUME IntelligenceInv, UNCHANGED <<text, job, sources, docs, overlapped>>,
           recs' \in [Keys -> RecType], mishaps' \in 0 .. Mishaps,
           NEW p \in Actors, Raises(p)
    PROVE  IntelligenceInv'
<1>1. /\ plan = [plan EXCEPT ![p] = plan[p]] /\ PlanType(plan[p]) /\ p \in Actors
      /\ (p \in Ingesters <=> p \notin Removers)
  BY Planned
<1>2. PICK place \in {"fail", "done"} :
        /\ actor' = [actor EXCEPT ![p] = [Idle EXCEPT !.at = place]]
        /\ place = "fail" => p \in Active
  BY <1>1 DEF Raises
<1>3. PICK a : a = [Idle EXCEPT !.at = place] OBVIOUS
<1>4. a \in ActorType /\ a.at = place /\ a.source = 0 /\ a.doc = 0
  BY <1>3, Records DEF Places
<1>5. PICK g : g = <<>> OBVIOUS
<1>6. PlanType(g) /\ plan' = [plan EXCEPT ![p] = g] BY <1>1, <1>5 DEF Raises, PlanType
<1>7. Knows(p, a, g) /\ a.at \notin {"find_near", "create_document", "create_evidence"}
  BY <1>1, <1>2, <1>4, KnowsLittle DEF Active
<1>8. actor' = [actor EXCEPT ![p] = a] BY <1>2, <1>3
<1>9. crossed' \in BOOLEAN BY DEF Raises, IntelligenceInv, ScalarsType
<1> HIDE DEF IntelligenceInv
<1> QED BY <1>4, <1>6, <1>7, <1>8, <1>9, PlannerMoves

LEMMA ListingStep ==
    ASSUME IntelligenceInv, NEW p \in Actors,
           ReadSources(p) \/ ReadFacts(p) \/ ReadDuplicates(p)
    PROVE  IntelligenceInv'
<1> DEFINE b == actor[p]
<1>1. /\ UNCHANGED <<text, job, sources, docs, overlapped>>
      /\ recs' \in [Keys -> RecType] /\ crossed' \in BOOLEAN
      /\ mishaps' \in 0 .. Mishaps
  <2>1. CASE ReadSources(p)
    <3>1. UNCHANGED <<text, job, sources, docs, recs, overlapped, mishaps>> /\ crossed' \in BOOLEAN
      BY <2>1 DEF ReadSources, IntelligenceInv, ScalarsType
    <3> QED BY <3>1 DEF IntelligenceInv, ScalarsType, StoreType, RecType, Ids
  <2>2. CASE ~ReadSources(p) BY <2>2, RowsQuiet DEF ReadFacts, ReadDuplicates
  <2> QED BY <2>1, <2>2
<1>2. p \in Actors /\ PlanOf(p) = plan[p] /\ PlanType(plan[p]) /\ plan = [plan EXCEPT ![p] = plan[p]]
  BY Planned
<1>3. b \in ActorType /\ Knows(p, b, plan[p]) BY <1>2, AtActor
<1>4. b.at \in {"read_sources", "read_facts", "read_duplicates"}
  BY DEF ReadSources, ReadFacts, ReadDuplicates, At
<1>5. p \in Ingesters => p \in Active BY <1>3, <1>4 DEF Knows, Working
<1>6. PICK place \in {"read_facts", "read_duplicates", "clear"} : Goes(p, place)
  BY DEF ReadSources, ReadFacts, ReadDuplicates
<1>7. PICK a \in ActorType :
        /\ actor' = [actor EXCEPT ![p] = a]
        /\ a.at = place /\ a.source = b.source /\ a.doc = b.doc
  <2>1. place \in Places BY <1>6 DEF Places
  <2> QED BY <1>2, <1>6, <2>1, GoesTo
<1>8. \E g : plan' = [plan EXCEPT ![p] = g] /\ PlanType(g)
  <2>1. CASE UNCHANGED plan BY <1>2, <2>1
  <2>2. CASE ReadSources(p)
    <3>1. PICK K \in SUBSET Keys :
            plan' = [plan EXCEPT ![p] =
              [k \in K |-> {Source(n) : n \in Newest(LiveSources, IF k = KeyOrder[1] THEN 2 ELSE 3)}]]
      BY <2>2, KeysOfOrder DEF ReadSources
    <3>2. PICK g : g = [k \in K |-> {Source(n) : n \in Newest(LiveSources, IF k = KeyOrder[1] THEN 2 ELSE 3)}]
      OBVIOUS
    <3>3. PlanType(g) BY <3>2 DEF PlanType, Newest, LiveSources, Ids
    <3> QED BY <3>1, <3>2, <3>3
  <2>3. CASE ReadFacts(p) /\ plan' # plan
    <3>1. PICK h : h = plan[p] OBVIOUS
    <3>2. PICK g : g = [k \in DOMAIN h \ {KeyOrder[1]} |-> h[k]] OBVIOUS
    <3>3. plan' = [plan EXCEPT ![p] = g] BY <2>3, <3>1, <3>2 DEF ReadFacts
    <3>4. PlanType(g) BY <1>2, <3>1, <3>2 DEF PlanType
    <3> QED BY <3>3, <3>4
  <2>4. CASE ReadDuplicates(p) /\ plan' # plan
    <3>1. PICK E : E = {Document(n) : n \in Newest({m \in DOMAIN docs : docs[m].duplicate}, 4)} OBVIOUS
    <3>2. E \in SUBSET Ids BY <3>1 DEF Newest, Ids
    <3>3. Plans(p, KeyOrder[3], E) BY <2>4, <3>1 DEF ReadDuplicates
    <3> QED BY <3>2, <3>3, PlansAdds, KeysOfOrder
  <2> QED BY <2>1, <2>2, <2>3, <2>4
<1>9. PICK g : plan' = [plan EXCEPT ![p] = g] /\ PlanType(g) BY <1>8
<1>10. a.source <= Len(sources) /\ a.doc <= Len(docs) BY <1>3, <1>7 DEF Knows
<1>11. Knows(p, a, g) /\ a.at \notin {"find_near", "create_document", "create_evidence"}
  BY <1>5, <1>6, <1>7, <1>9, <1>10, KnowsRebuilding DEF Rebuilding
<1> HIDE DEF IntelligenceInv
<1> QED BY <1>1, <1>7, <1>9, <1>11, PlannerMoves

LEMMA WritingStep ==
    ASSUME IntelligenceInv, NEW p \in Actors,
           Clear(p) \/ FindRec(p) \/ WriteRec(p) \/ Conflict(p)
    PROVE  IntelligenceInv'
<1> DEFINE b == actor[p]
<1>1. /\ UNCHANGED <<text, job, sources, docs, overlapped>>
      /\ crossed' \in BOOLEAN /\ mishaps' \in 0 .. Mishaps
  BY DEF Clear, FindRec, WriteRec, Conflict, Raises, rows, IntelligenceInv, ScalarsType
<1>2. /\ p \in Actors /\ PlanOf(p) = plan[p] /\ PlanType(plan[p])
      /\ plan = [plan EXCEPT ![p] = plan[p]]
      /\ (p \in Ingesters <=> p \notin Removers)
  BY Planned
<1>3. b \in ActorType /\ Knows(p, b, plan[p]) BY <1>2, AtActor
<1>4. b.at \in {"clear", "find_rec", "write_rec"}
  BY DEF Clear, FindRec, WriteRec, Conflict, At
<1>5. p \in Ingesters => p \in Active BY <1>3, <1>4 DEF Knows, Working
<1>6. b.source <= Len(sources) /\ b.doc <= Len(docs) BY <1>3 DEF Knows
<1>7. recs \in [Keys -> RecType] BY DEF IntelligenceInv, StoreType
<1>8. CASE Clear(p)
  <2>1. recs' \in [Keys -> RecType] BY <1>7, <1>8 DEF Clear, RecType
  <2>2. PICK place \in {"find_rec", "finish", "done"} :
          /\ Goes(p, place)
          /\ place = "find_rec" => DOMAIN plan[p] # {}
          /\ place = "finish" => p \in Ingesters
          /\ place = "done" => p \notin Ingesters
    BY <1>8 DEF Clear, Rebuilt
  <2>3. PICK a \in ActorType :
          /\ actor' = [actor EXCEPT ![p] = a]
          /\ a.at = place /\ a.source = b.source /\ a.doc = b.doc
    <3>1. place \in Places BY <2>2 DEF Places
    <3> QED BY <1>2, <2>2, <3>1, GoesTo
  <2>4. PICK g : g = plan[p] OBVIOUS
  <2>5. plan' = [plan EXCEPT ![p] = g] /\ PlanType(g) BY <1>2, <1>8, <2>4 DEF Clear
  <2>6. Knows(p, a, g) /\ a.at \notin {"find_near", "create_document", "create_evidence"}
    BY <1>2, <1>5, <1>6, <2>2, <2>3, <2>4 DEF Knows, Rebuilding, Marking, Working
  <2> HIDE DEF IntelligenceInv
  <2> QED BY <1>1, <2>1, <2>3, <2>5, <2>6, PlannerMoves
<1>9. CASE FindRec(p)
  <2>1. recs' = recs /\ plan' = plan BY <1>9 DEF FindRec, rows
  <2>2. DOMAIN plan[p] # {} BY <1>3, <1>9 DEF FindRec, At, Knows, Rebuilding
  <2>3. PICK k : k = NextKey(p) OBVIOUS
  <2>4. k \in DOMAIN plan[p] /\ k \in Keys
    BY <1>2, <2>2, <2>3, NextKeyPlanned DEF PlanType
  <2>5. PICK a : a = [b EXCEPT !.at = "write_rec", !.item = k, !.found = recs[k].row] OBVIOUS
  <2>6. actor' = [actor EXCEPT ![p] = a] BY <1>9, <2>3, <2>5 DEF FindRec
  <2>7. recs[k].row \in BOOLEAN BY <1>7, <2>4 DEF RecType
  <2>8. /\ a \in ActorType /\ a.at = "write_rec" /\ a.item = k /\ a.source = b.source
        /\ a.doc = b.doc
    BY <1>3, <2>4, <2>5, <2>7 DEF ActorType, Places
  <2>9. PICK g : g = plan[p] OBVIOUS
  <2>10. plan' = [plan EXCEPT ![p] = g] /\ PlanType(g) BY <1>2, <2>1, <2>9
  <2>11. Knows(p, a, g) /\ a.at \notin {"find_near", "create_document", "create_evidence"}
    BY <1>5, <1>6, <2>2, <2>4, <2>8, <2>9, KnowsRebuilding DEF Rebuilding
  <2> HIDE DEF IntelligenceInv
  <2> QED BY <1>1, <1>7, <2>1, <2>6, <2>8, <2>10, <2>11, PlannerMoves
<1>10. CASE WriteRec(p)
  <2>1. PICK k, left : k = b.item /\ left = DOMAIN plan[p] \ {k} OBVIOUS
  <2>2. k \in DOMAIN plan[p] BY <1>3, <1>10, <2>1 DEF WriteRec, At, Knows
  <2>3. k \in Keys /\ plan[p][k] \in SUBSET Ids BY <1>2, <2>2 DEF PlanType
  <2>4. recs' \in [Keys -> RecType]
    <3>1. [row |-> TRUE, live |-> TRUE, evidence |-> plan[p][k]] \in RecType
      BY <2>3 DEF RecType
    <3>2. recs' = [recs EXCEPT ![k] = [row |-> TRUE, live |-> TRUE, evidence |-> plan[p][k]]]
      BY <1>10, <2>1 DEF WriteRec
    <3>3. Ids' = Ids BY <1>1 DEF Ids
    <3> QED BY <1>7, <3>1, <3>2
  <2>5. PICK h : h = plan[p] OBVIOUS
  <2>6. PICK g : g = [l \in left |-> h[l]] OBVIOUS
  <2>7. plan' = [plan EXCEPT ![p] = g] BY <1>10, <2>1, <2>5, <2>6 DEF WriteRec
  <2>8. PlanType(g) BY <1>2, <2>1, <2>5, <2>6 DEF PlanType
  <2>9. PICK place \in {"finish", "done", "find_rec"} :
          /\ actor' = [actor EXCEPT ![p] = [Idle EXCEPT !.at = place]]
          /\ place = "finish" => p \in Ingesters
          /\ place = "done" => p \notin Ingesters
          /\ place = "find_rec" => left # {}
    BY <1>10, <2>1 DEF WriteRec, Rebuilt
  <2>10. PICK a : a = [Idle EXCEPT !.at = place] OBVIOUS
  <2>11. a \in ActorType /\ a.at = place /\ a.source = 0 /\ a.doc = 0
    BY <2>10, Records DEF Places
  <2>12. Knows(p, a, g) /\ a.at \notin {"find_near", "create_document", "create_evidence"}
    <3>1. CASE place = "find_rec"
      <4>1. 0 <= Len(sources) /\ 0 <= Len(docs)
        BY SourceNumbers, DocNumbers DEF IntelligenceInv
      <4>2. DOMAIN g # {} BY <2>6, <2>9, <3>1
      <4> QED BY <1>5, <2>11, <3>1, <4>1, <4>2, KnowsRebuilding DEF Rebuilding
    <3>2. CASE place # "find_rec" BY <1>2, <1>5, <2>9, <2>11, <3>2, KnowsLittle
    <3> QED BY <3>1, <3>2
  <2>13. actor' = [actor EXCEPT ![p] = a] BY <2>9, <2>10
  <2> HIDE DEF IntelligenceInv
  <2> QED BY <1>1, <2>4, <2>7, <2>8, <2>11, <2>12, <2>13, PlannerMoves
<1>11. CASE Conflict(p)
  <2>1. recs' \in [Keys -> RecType] /\ Raises(p) BY <1>7, <1>11 DEF Conflict, RecType, Ids
  <2> HIDE DEF IntelligenceInv
  <2> QED BY <1>1, <2>1, RaisesStep
<1> QED BY <1>8, <1>9, <1>10, <1>11
-------------------------------------------------------------------------------
(* The other steps that add no row                                           *)

(* The end of a removal and the calls that raise.                            *)
LEMMA EndingStep ==
    ASSUME IntelligenceInv, NEW p \in Removers, MarkRecs(p)
    PROVE  IntelligenceInv'
<1>0. p \in Actors BY DEF Actors
<1>1. /\ UNCHANGED <<text, job, sources, docs, overlapped>>
      /\ crossed' \in BOOLEAN /\ mishaps' \in 0 .. Mishaps
  BY DEF MarkRecs, IntelligenceInv, ScalarsType
<1>2. /\ p \in Actors /\ PlanType(plan[p]) /\ plan = [plan EXCEPT ![p] = plan[p]]
  BY <1>0, Planned
<1>3. recs \in [Keys -> RecType] BY DEF IntelligenceInv, StoreType
<1>4. recs' \in [Keys -> RecType]
  <2>1. recs' = [k \in Keys |-> recs'[k]] BY DEF MarkRecs
  <2>2. ASSUME NEW k \in Keys PROVE recs'[k] \in RecType
    <3>1. recs'[k] = recs[k] \/ recs'[k] = [recs[k] EXCEPT !.live = FALSE] BY DEF MarkRecs
    <3> QED BY <1>3, <3>1 DEF RecType
  <2> QED BY <2>1, <2>2
<1>5. PICK a : a = [Idle EXCEPT !.at = "read_sources"] OBVIOUS
<1>6. a \in ActorType /\ a.at = "read_sources" /\ a.source = 0 /\ a.doc = 0
  BY <1>5, Records DEF Places
<1>7. actor' = [actor EXCEPT ![p] = a] BY <1>5 DEF MarkRecs
<1>8. PICK g : g = plan[p] OBVIOUS
<1>9. plan' = [plan EXCEPT ![p] = g] /\ PlanType(g) BY <1>2, <1>8 DEF MarkRecs
<1>10. Knows(p, a, g) /\ a.at \notin {"find_near", "create_document", "create_evidence"}
  BY <1>2, <1>6, KnowsLittle
<1> HIDE DEF IntelligenceInv
<1> QED BY <1>0, <1>1, <1>4, <1>6, <1>7, <1>9, <1>10, PlannerMoves

LEMMA ErrorStep ==
    ASSUME IntelligenceInv, NEW p \in Actors, Error(p)
    PROVE  IntelligenceInv'
<1>1. /\ UNCHANGED <<text, job, sources, docs, overlapped>> /\ Raises(p)
      /\ recs' \in [Keys -> RecType] /\ mishaps' \in 0 .. Mishaps
  <2>1. mishaps \in 0 .. Mishaps /\ mishaps < Mishaps /\ mishaps' = mishaps + 1
    BY DEF Error, IntelligenceInv, ScalarsType
  <2>2. mishaps' \in 0 .. Mishaps BY <2>1, IntelligenceAssumption
  <2>3. UNCHANGED <<text, job, sources, docs, overlapped, recs>> /\ Raises(p)
    BY DEF Error
  <2> QED BY <2>2, <2>3 DEF IntelligenceInv, ScalarsType, StoreType, RecType, Ids
<1> HIDE DEF IntelligenceInv
<1> QED BY <1>1, RaisesStep
-------------------------------------------------------------------------------
(* The steps that add rows or mark them                                      *)

LEMMA OneMore ==
    ASSUME NEW S, NEW q \in Seq(S), NEW v \in S
    PROVE  /\ Append(q, v) \in Seq(S) /\ Len(Append(q, v)) = Len(q) + 1
           /\ DOMAIN Append(q, v) = DOMAIN q \cup {Len(q) + 1}
           /\ Append(q, v)[Len(q) + 1] = v /\ \A j \in DOMAIN q : Append(q, v)[j] = q[j]
OBVIOUS

LEMMA OneChanged ==
    ASSUME NEW S, NEW q \in Seq(S), NEW j \in DOMAIN q, NEW v \in S
    PROVE  /\ [q EXCEPT ![j] = v] \in Seq(S) /\ Len([q EXCEPT ![j] = v]) = Len(q)
           /\ DOMAIN [q EXCEPT ![j] = v] = DOMAIN q
           /\ \A k \in DOMAIN q : [q EXCEPT ![j] = v][k] = IF k = j THEN v ELSE q[k]
OBVIOUS

LEMMA EachChanged ==
    ASSUME NEW S, NEW q \in Seq(S), NEW r, r = [n \in DOMAIN q |-> r[n]],
           \A n \in DOMAIN q : r[n] \in S
    PROVE  r \in Seq(S) /\ Len(r) = Len(q) /\ DOMAIN r = DOMAIN q
OBVIOUS

(* The recommendations stay well typed as the rows grow.                     *)
LEMMA RecsStay ==
    ASSUME StoreType, SourcesKept, DocsKept, UNCHANGED recs
    PROVE  recs' \in [Keys -> RecType']
BY IdsKept DEF StoreType, RecType

(* Evidence is counted once still when none is added.                        *)
LEMMA EvidenceStays ==
    ASSUME EvidenceOnce, overlapped => overlapped', ListedFacts' \subseteq ListedFacts,
           \A n \in ListedFacts : docs'[n].text = docs[n].text
    PROVE  EvidenceOnce'
BY DEF EvidenceOnce

(* A step of a request that changes rows, and no plan.                       *)
LEMMA RowStep ==
    ASSUME IntelligenceInv, ScalarsType', StoreType', SourcesKept, DocsKept,
           UNCHANGED <<text, plan>>, NEW p \in Actors, OtherJobs(p), NEW a \in ActorType,
           actor' = [actor EXCEPT ![p] = a], NEW f, f = PlanOf(p), Knows(p, a, f)',
           overlapped => overlapped', EvidenceOnce',
           ~overlapped' => /\ \A q, r \in Active' : q = r
                           /\ p \in Ingesters => Fresh(a)'
                           /\ DOMAIN docs' = DOMAIN docs \/ p \in Active
    PROVE  IntelligenceInv'
<1>1. PlanStep(p) /\ f = PlanOf(p)' BY SamePlan
<1>2. PlanType(f) BY AtActor
<1>3. PlanType(f)' BY <1>2, PlanStays
<1>4. UNCHANGED text OBVIOUS
<1> HIDE DEF IntelligenceInv, Knows, PlanType
<1> QED BY <1>1, <1>3, <1>4, Step

(* A step of a request in which no job begins or ends.                       *)
LEMMA SameJobs ==
    ASSUME IntelligenceInv, UNCHANGED <<text, job, crossed, overlapped, mishaps>>, NEW p \in Actors
    PROVE  /\ ScalarsType' /\ OtherJobs(p) /\ UNCHANGED text /\ (overlapped => overlapped')
           /\ Active' = Active /\ (~overlapped' => \A q, r \in Active' : q = r)
<1>1. ScalarsType' BY DEF IntelligenceInv, ScalarsType
<1>2. Active' = Active BY DEF Active
<1> QED BY <1>1, <1>2 DEF IntelligenceInv, OneAtATime, OtherJobs

LEMMA JobStep ==
    ASSUME IntelligenceInv, NEW p \in Ingesters, CreateJob(p) \/ Finish(p) \/ Fail(p)
    PROVE  IntelligenceInv'
<1> DEFINE b == actor[p]
<1>1. p \in Actors /\ p \in Actors /\ p \notin Removers
  BY IntelligenceAssumption DEF Actors
<1>2. UNCHANGED <<text, sources, docs, recs, crossed, plan, mishaps>>
  BY DEF CreateJob, Finish, Fail
<1>3. b \in ActorType /\ Knows(p, b, PlanOf(p)) BY <1>1, AtActor
<1>4. b.source <= Len(sources) /\ b.doc <= Len(docs) BY <1>3 DEF Knows
<1>5. SourcesKept /\ DocsKept
  BY <1>2, SourceNumbers, DocNumbers DEF IntelligenceInv, SourcesKept, DocsKept
<1>6. StoreType'
  <2>1. Ids' = Ids BY <1>2 DEF Ids
  <2> QED BY <1>2, <2>1 DEF IntelligenceInv, StoreType, DocsOfSources, RecType
<1>7. PICK state \in {"running", "completed", "failed"} : job' = [job EXCEPT ![p] = state]
  BY DEF CreateJob, Finish, Fail
<1>8. job \in [Ingesters -> {"none", "running", "completed", "failed"}] /\ overlapped \in BOOLEAN
  BY DEF IntelligenceInv, ScalarsType
<1>9. OtherJobs(p) /\ job'[p] = state BY <1>7, <1>8 DEF OtherJobs
<1>10. overlapped' \in BOOLEAN /\ (overlapped => overlapped')
  BY <1>8 DEF CreateJob, Finish, Fail
<1>11. ScalarsType'
  <2>1. job' \in [Ingesters -> {"none", "running", "completed", "failed"}] BY <1>7, <1>8
  <2> QED BY <1>2, <1>10, <2>1 DEF IntelligenceInv, ScalarsType
<1>12. PICK place \in {"find_source", "done"} :
         /\ Goes(p, place) /\ (CreateJob(p) \/ place = "done")
         /\ place = "find_source" => p \in Active'
  <2>1. CASE CreateJob(p)
    <3>1. p \in Active' BY <1>7, <1>8, <2>1 DEF CreateJob, Active
    <3> QED BY <2>1, <3>1 DEF CreateJob
  <2>2. CASE Finish(p) \/ Fail(p) BY <2>2 DEF Finish, Fail
  <2> QED BY <2>1, <2>2
<1>13. PICK a \in ActorType :
         /\ actor' = [actor EXCEPT ![p] = a]
         /\ a.at = place /\ a.source = b.source /\ a.doc = b.doc
  <2>1. place \in Places BY <1>12 DEF Places
  <2> QED BY <1>1, <1>12, <2>1, GoesTo
<1>14. PICK f : f = PlanOf(p) OBVIOUS
<1>15. Knows(p, a, f)'
  <2>1. a.source <= Len(sources') /\ a.doc <= Len(docs') BY <1>2, <1>4, <1>13
  <2> QED BY <1>1, <1>12, <1>13, <2>1 DEF Knows, Rebuilding, Marking, Working
<1>16. EvidenceOnce' BY <1>2, <1>10 DEF IntelligenceInv, EvidenceOnce, ListedFacts, LiveSources
<1>17. ASSUME ~overlapped'
       PROVE  /\ \A q, r \in Active' : q = r
              /\ p \in Ingesters => Fresh(a)'
              /\ DOMAIN docs' = DOMAIN docs \/ p \in Active
  <2>1. Fresh(a)' BY <1>12, <1>13, FreshElsewhere
  <2>2. \A q \in Active' : q \in Active \/ q = p BY <1>9 DEF Active, OtherJobs
  <2>3. CASE CreateJob(p)
    <3>1. Active = {} BY <1>8, <1>17, <2>3 DEF CreateJob
    <3> QED BY <1>2, <2>1, <2>2, <3>1
  <2>4. CASE ~CreateJob(p)
    <3>1. p \notin Active'
      <4>1. job' = [job EXCEPT ![p] = "completed"] \/ job' = [job EXCEPT ![p] = "failed"]
        BY <2>4 DEF Finish, Fail
      <4> QED BY <1>8, <4>1 DEF Active
    <3>2. \A q, r \in Active : q = r BY <1>10, <1>17 DEF IntelligenceInv, OneAtATime
    <3> QED BY <1>2, <2>1, <2>2, <3>1, <3>2
  <2> QED BY <2>3, <2>4
<1>18. UNCHANGED <<text, plan>> BY <1>2
<1> HIDE DEF IntelligenceInv
<1> QED BY <1>1, <1>5, <1>6, <1>9, <1>10, <1>11, <1>13, <1>14, <1>15, <1>16, <1>17, <1>18, RowStep

(* Which facts are listed stays when a live source is added.                 *)
LEMMA CreateSourceStep ==
    ASSUME IntelligenceInv, NEW p \in Ingesters, CreateSource(p)
    PROVE  IntelligenceInv'
<1> DEFINE b == actor[p]
<1>1. p \in Actors /\ p \notin Removers
  BY IntelligenceAssumption DEF Actors
<1>2. UNCHANGED <<text, job, crossed, overlapped, mishaps>> /\ UNCHANGED <<docs, recs, plan>>
  BY DEF CreateSource
<1>3. b \in ActorType /\ Knows(p, b, PlanOf(p)) BY <1>1, AtActor
<1>4. b.at = "create_source" /\ b.item \in Files /\ p \in Active
  BY <1>3 DEF CreateSource, At, Knows, Working
<1>5. StoreType BY DEF IntelligenceInv
<1>6. PICK v : v = [file |-> b.item, removed |-> FALSE] OBVIOUS
<1>7. v \in SourceType /\ ~v.removed BY <1>4, <1>6 DEF SourceType
<1>8. sources' = Append(sources, v) BY <1>6 DEF CreateSource
<1>9. /\ sources' \in Seq(SourceType) /\ Len(sources') = Len(sources) + 1
      /\ DOMAIN sources' = DOMAIN sources \cup {Len(sources) + 1}
      /\ sources'[Len(sources) + 1] = v /\ \A n \in DOMAIN sources : sources'[n] = sources[n]
  <2>1. PICK S : S = SourceType OBVIOUS
  <2>2. sources \in Seq(S) /\ v \in S BY <1>5, <1>7, <2>1 DEF StoreType
  <2> QED BY <1>8, <2>1, <2>2, OneMore
<1>10. Len(sources) \in Nat /\ DOMAIN sources = 1 .. Len(sources) /\ Len(docs) \in Nat
  BY <1>5, SourceNumbers, DocNumbers
<1>11. SourcesKept BY <1>9, <1>10 DEF SourcesKept
<1>12. DocsKept BY <1>2, <1>10 DEF DocsKept
<1>13. StoreType'
  <2>1. DocsOfSources' BY <1>2, <1>5, <1>9 DEF StoreType, DocsOfSources
  <2>2. recs' \in [Keys -> RecType'] BY <1>2, <1>5, <1>11, <1>12, RecsStay
  <2> QED BY <1>2, <1>5, <1>9, <2>1, <2>2 DEF StoreType
<1>14. PICK a : a = [b EXCEPT !.at = "find_exact", !.source = Len(sources) + 1] OBVIOUS
<1>15. Len(sources) + 1 \in Nat BY <1>10
<1>16. /\ a \in ActorType /\ a.at = "find_exact" /\ a.item = b.item /\ a.doc = b.doc
       /\ a.source = Len(sources) + 1
  BY <1>3, <1>14, <1>15 DEF ActorType, Places
<1>17. actor' = [actor EXCEPT ![p] = a] BY <1>14 DEF CreateSource
<1>18. /\ ScalarsType' /\ OtherJobs(p) /\ UNCHANGED text /\ (overlapped => overlapped')
       /\ Active' = Active /\ (~overlapped' => \A q, r \in Active' : q = r)
  BY <1>1, <1>2, SameJobs
<1>19. PICK f : f = PlanOf(p) OBVIOUS
<1>20. Knows(p, a, f)'
  <2>1. a.source <= Len(sources') /\ a.doc <= Len(docs') /\ a.source \in DOMAIN sources'
    BY <1>2, <1>3, <1>9, <1>10, <1>16 DEF Knows
  <2> QED BY <1>1, <1>4, <1>16, <1>18, <2>1 DEF Knows, Rebuilding, Marking, Working
<1>21. EvidenceOnce'
  <2>1. \A n \in DOMAIN docs : docs[n].source \in DOMAIN sources
    BY <1>5 DEF StoreType, DocsOfSources
  <2>2. ListedFacts' = ListedFacts BY <1>2, <1>9, <2>1 DEF ListedFacts, LiveSources
  <2> QED BY <1>2, <2>2, EvidenceStays DEF IntelligenceInv
<1>22. Fresh(a)' BY <1>16, FreshElsewhere
<1>23. UNCHANGED <<text, plan>> BY <1>2
<1> HIDE DEF IntelligenceInv
<1> QED BY <1>1, <1>2, <1>11, <1>12, <1>13, <1>16, <1>17, <1>18, <1>19, <1>20, <1>21, <1>22,
           <1>23, RowStep

(* A document is created without its evidence.                               *)
LEMMA CreateDocumentStep ==
    ASSUME IntelligenceInv, NEW p \in Ingesters, CreateDocument(p)
    PROVE  IntelligenceInv'
<1> DEFINE b == actor[p]
<1>1. p \in Actors /\ p \notin Removers
  BY IntelligenceAssumption DEF Actors
<1>2. UNCHANGED <<text, job, crossed, overlapped, mishaps>> /\ UNCHANGED <<sources, recs, plan>>
  BY DEF CreateDocument
<1>3. b \in ActorType /\ Knows(p, b, PlanOf(p)) BY <1>1, AtActor
<1>4. /\ b.at = "create_document" /\ b.item \in Files /\ b.source \in DOMAIN sources /\ p \in Active
  BY <1>3 DEF CreateDocument, At, Knows, Working
<1>5. StoreType BY DEF IntelligenceInv
<1>6. PICK v : v = [source |-> b.source, text |-> text[b.item], canonical |-> b.doc,
                    removed |-> FALSE, duplicate |-> FALSE, evidence |-> "none"] OBVIOUS
<1>7. /\ v \in DocType /\ ~v.removed /\ v.evidence = "none" /\ v.source = b.source
      /\ v.text = text[b.item] /\ v.canonical = b.doc
  <2>1. text[b.item] \in Texts BY <1>4 DEF IntelligenceInv, ScalarsType
  <2> QED BY <1>3, <1>6, <2>1 DEF DocType, ActorType
<1>8. docs' = Append(docs, v) BY <1>6 DEF CreateDocument, TextOf
<1>9. /\ docs' \in Seq(DocType) /\ Len(docs') = Len(docs) + 1
      /\ DOMAIN docs' = DOMAIN docs \cup {Len(docs) + 1}
      /\ docs'[Len(docs) + 1] = v /\ \A n \in DOMAIN docs : docs'[n] = docs[n]
  <2>1. PICK S : S = DocType OBVIOUS
  <2>2. docs \in Seq(S) /\ v \in S BY <1>5, <1>7, <2>1 DEF StoreType
  <2> QED BY <1>8, <2>1, <2>2, OneMore
<1>10. Len(sources) \in Nat /\ DOMAIN docs = 1 .. Len(docs) /\ Len(docs) \in Nat
  BY <1>5, SourceNumbers, DocNumbers
<1>11. SourcesKept BY <1>2, <1>10 DEF SourcesKept
<1>12. DocsKept BY <1>9, <1>10 DEF DocsKept
<1>13. StoreType'
  <2>1. b.doc \in Nat /\ b.doc <= Len(docs) BY <1>3 DEF Knows, ActorType
  <2>2. ASSUME NEW n \in DOMAIN docs'
        PROVE  /\ docs'[n].source \in DOMAIN sources' /\ docs'[n].canonical <= Len(docs')
               /\ docs'[n].removed => sources'[docs'[n].source].removed
    <3>1. CASE n \in DOMAIN docs
      <4>1. docs[n].canonical \in Nat /\ docs[n].canonical <= Len(docs)
        BY <1>5, <3>1, DocNumbers DEF StoreType, DocsOfSources, DocType
      <4>2. docs[n].canonical <= Len(docs') BY <1>9, <1>10, <4>1
      <4> QED BY <1>2, <1>5, <1>9, <3>1, <4>2 DEF StoreType, DocsOfSources
    <3>2. CASE n = Len(docs) + 1
      BY <1>2, <1>4, <1>7, <1>9, <1>10, <2>1, <3>2
    <3> QED BY <1>9, <3>1, <3>2
  <2>3. recs' \in [Keys -> RecType'] BY <1>2, <1>5, <1>11, <1>12, RecsStay
  <2> QED BY <1>2, <1>5, <1>9, <2>2, <2>3 DEF StoreType, DocsOfSources
<1>14. PICK place \in {"create_evidence", "create_duplicate"} :
         /\ actor' = [actor EXCEPT ![p] = [b EXCEPT !.at = place, !.doc = Len(docs) + 1]]
         /\ place = "create_evidence" => b.doc = 0
  BY DEF CreateDocument
<1>15. PICK a : a = [b EXCEPT !.at = place, !.doc = Len(docs) + 1] OBVIOUS
<1>16. Len(docs) + 1 \in Nat BY <1>10
<1>17. a \in ActorType /\ a.at = place /\ a.source = b.source /\ a.doc = Len(docs) + 1
  BY <1>3, <1>15, <1>16 DEF ActorType, Places
<1>18. actor' = [actor EXCEPT ![p] = a] BY <1>14, <1>15
<1>19. /\ ScalarsType' /\ OtherJobs(p) /\ UNCHANGED text /\ (overlapped => overlapped')
       /\ Active' = Active /\ (~overlapped' => \A q, r \in Active' : q = r)
  BY <1>1, <1>2, SameJobs
<1>20. PICK f : f = PlanOf(p) OBVIOUS
<1>21. Knows(p, a, f)'
  <2>1. a.source <= Len(sources') /\ a.doc <= Len(docs') /\ a.doc \in DOMAIN docs'
    BY <1>2, <1>3, <1>9, <1>10, <1>17 DEF Knows
  <2> QED BY <1>1, <1>4, <1>14, <1>17, <1>19, <2>1 DEF Knows, Rebuilding, Marking, Working
<1>22. EvidenceOnce'
  <2>1. ListedFacts' \subseteq ListedFacts
    BY <1>2, <1>7, <1>9 DEF ListedFacts, LiveSources
  <2>2. \A n \in ListedFacts : docs'[n].text = docs[n].text BY <1>9 DEF ListedFacts
  <2> QED BY <1>2, <2>1, <2>2, EvidenceStays DEF IntelligenceInv
<1>23. ~overlapped' => Fresh(a)'
  <2>1. SUFFICES ASSUME ~overlapped, place = "create_evidence" PROVE Fresh(a)'
    BY <1>2, <1>14, <1>17, FreshElsewhere
  <2>2. \A n \in DOMAIN docs : docs[n].text = text[b.item] => docs[n].removed
    BY <1>4, <1>14, <2>1 DEF IntelligenceInv, OneAtATime, Fresh
  <2>3. \A n \in DOMAIN docs' \ {a.doc} : docs'[n].text = docs'[a.doc].text => docs'[n].removed
    BY <1>7, <1>9, <1>17, <2>2
  <2> QED BY <1>17, <2>1, <2>3 DEF Fresh
<1>24. UNCHANGED <<text, plan>> BY <1>2
<1> HIDE DEF IntelligenceInv
<1> QED BY <1>1, <1>4, <1>11, <1>12, <1>13, <1>17, <1>18, <1>19, <1>20, <1>21, <1>22, <1>23,
           <1>24, RowStep
(* The steps that rewrite documents in place; the evidence of one may appear.*)
LEMMA DocsRewritten ==
    ASSUME IntelligenceInv, UNCHANGED <<text, job, crossed, overlapped, mishaps>>,
           UNCHANGED <<sources, recs, plan>>, docs' = [n \in DOMAIN docs |-> docs'[n]],
           \A n \in DOMAIN docs :
             /\ docs'[n] \in DocType
             /\ docs'[n].source = docs[n].source /\ docs'[n].text = docs[n].text
             /\ docs'[n].canonical = docs[n].canonical
             /\ docs[n].removed => docs'[n].removed
             /\ docs'[n].removed => docs[n].removed \/ sources[docs[n].source].removed
    PROVE  /\ StoreType' /\ SourcesKept /\ DocsKept /\ DOMAIN docs' = DOMAIN docs
           /\ Len(docs') = Len(docs) /\ LiveSources' = LiveSources
<1>1. StoreType BY DEF IntelligenceInv
<1>2. docs' \in Seq(DocType) /\ Len(docs') = Len(docs) /\ DOMAIN docs' = DOMAIN docs
  <2>1. PICK S : S = DocType OBVIOUS
  <2>2. docs \in Seq(S) /\ \A n \in DOMAIN docs : docs'[n] \in S BY <1>1, <2>1 DEF StoreType
  <2> QED BY <2>1, <2>2, EachChanged
<1>3. SourcesKept /\ DocsKept
  BY <1>1, <1>2, SourceNumbers, DocNumbers DEF SourcesKept, DocsKept
<1>4. DocsOfSources' BY <1>1, <1>2 DEF StoreType, DocsOfSources
<1>5. recs' \in [Keys -> RecType'] BY <1>1, <1>3, RecsStay
<1> QED BY <1>1, <1>2, <1>3, <1>4, <1>5 DEF StoreType, LiveSources

(* The last step of a file: its duplicate row or its evidence.               *)
LEMMA LastStep ==
    ASSUME IntelligenceInv, NEW p \in Ingesters, CreateDuplicate(p) \/ CreateEvidence(p)
    PROVE  IntelligenceInv'
<1> DEFINE b == actor[p]
<1>1. p \in Actors /\ p \notin Removers
  BY IntelligenceAssumption DEF Actors
<1>2. UNCHANGED <<text, job, crossed, overlapped, mishaps>> /\ UNCHANGED <<sources, recs, plan>>
  BY DEF CreateDuplicate, CreateEvidence
<1>3. b \in ActorType /\ Knows(p, b, PlanOf(p)) BY <1>1, AtActor
<1>4. b.at \in {"create_duplicate", "create_evidence"} /\ b.doc \in DOMAIN docs /\ p \in Active
  BY <1>3 DEF CreateDuplicate, CreateEvidence, At, Knows, Working
<1>5. docs[b.doc] \in DocType BY <1>4, DocNumbers DEF IntelligenceInv
<1>6. PICK d : d = b.doc OBVIOUS
<1>7. PICK v : /\ docs' = [docs EXCEPT ![d] = v]
               /\ v \in DocType /\ v.source = docs[d].source /\ v.text = docs[d].text
               /\ v.canonical = docs[d].canonical /\ v.removed = docs[d].removed
               /\ v.evidence = docs[d].evidence \/ CreateEvidence(p)
  <2>1. CASE CreateDuplicate(p)
    <3>1. PICK v : v = [docs[d] EXCEPT !.duplicate = TRUE] OBVIOUS
    <3>2. docs' = [docs EXCEPT ![d] = v] BY <1>6, <2>1, <3>1 DEF CreateDuplicate
    <3>3. /\ v \in DocType /\ v.source = docs[d].source /\ v.text = docs[d].text
          /\ v.canonical = docs[d].canonical /\ v.removed = docs[d].removed
          /\ v.evidence = docs[d].evidence
      BY <1>5, <1>6, <3>1 DEF DocType
    <3> QED BY <3>2, <3>3
  <2>2. CASE CreateEvidence(p)
    <3>1. PICK v : v = [docs[d] EXCEPT !.evidence = "live"] OBVIOUS
    <3>2. docs' = [docs EXCEPT ![d] = v] BY <1>6, <2>2, <3>1 DEF CreateEvidence
    <3>3. /\ v \in DocType /\ v.source = docs[d].source /\ v.text = docs[d].text
          /\ v.canonical = docs[d].canonical /\ v.removed = docs[d].removed
      BY <1>5, <1>6, <3>1 DEF DocType
    <3> QED BY <2>2, <3>2, <3>3
  <2> QED BY <2>1, <2>2
<1>8. d \in DOMAIN docs /\ \A n \in DOMAIN docs : docs[n] \in DocType
  BY <1>4, <1>6, DocNumbers DEF IntelligenceInv
<1>9. /\ docs' = [n \in DOMAIN docs |-> docs'[n]]
      /\ \A n \in DOMAIN docs : docs'[n] = IF n = d THEN v ELSE docs[n]
  <2>1. docs = [n \in DOMAIN docs |-> docs[n]]
    <3>1. PICK S : S = DocType OBVIOUS
    <3>2. docs \in Seq(S) BY <3>1 DEF IntelligenceInv, StoreType
    <3> QED BY <3>2
  <2> QED BY <1>7, <1>8, <2>1
<1>10. /\ StoreType' /\ SourcesKept /\ DocsKept /\ DOMAIN docs' = DOMAIN docs
       /\ Len(docs') = Len(docs) /\ LiveSources' = LiveSources
  <2>1. \A n \in DOMAIN docs :
          /\ docs'[n] \in DocType
          /\ docs'[n].source = docs[n].source /\ docs'[n].text = docs[n].text
          /\ docs'[n].canonical = docs[n].canonical
          /\ docs[n].removed => docs'[n].removed
          /\ docs'[n].removed => docs[n].removed \/ sources[docs[n].source].removed
    BY <1>7, <1>8, <1>9
  <2> HIDE DEF IntelligenceInv
  <2> QED BY <1>2, <1>9, <2>1, DocsRewritten
<1>11. PICK a : a = Rest(b.files) OBVIOUS
<1>12. /\ a \in ActorType /\ a.at \in {"read_sources", "find_source"} /\ a.source = 0 /\ a.doc = 0
  <2>1. b.files \in SUBSET Files BY <1>3 DEF ActorType
  <2> QED BY <1>11, <2>1, Records
<1>13. actor' = [actor EXCEPT ![p] = a] BY <1>11 DEF CreateDuplicate, CreateEvidence
<1>14. /\ ScalarsType' /\ OtherJobs(p) /\ UNCHANGED text /\ (overlapped => overlapped')
       /\ Active' = Active /\ (~overlapped' => \A q, r \in Active' : q = r)
  BY <1>1, <1>2, SameJobs
<1>15. PICK f : f = PlanOf(p) OBVIOUS
<1>16. Knows(p, a, f)'
  <2>1. 0 <= Len(sources') /\ 0 <= Len(docs')
    BY <1>2, <1>10, SourceNumbers, DocNumbers DEF IntelligenceInv
  <2> QED BY <1>1, <1>4, <1>12, <1>14, <2>1 DEF Knows, Rebuilding, Marking, Working
<1>17. EvidenceOnce'
  <2>1. CASE ~CreateEvidence(p)
    <3>1. ListedFacts' \subseteq ListedFacts
      BY <1>7, <1>8, <1>9, <1>10, <2>1 DEF ListedFacts
    <3>2. \A n \in ListedFacts : docs'[n].text = docs[n].text
      BY <1>7, <1>8, <1>9 DEF ListedFacts
    <3> QED BY <1>2, <3>1, <3>2, EvidenceStays DEF IntelligenceInv
  <2>2. CASE CreateEvidence(p)
    <3>1. SUFFICES ASSUME ~overlapped, NEW m \in ListedFacts', NEW n \in ListedFacts',
                          docs'[m].text = docs'[n].text
                   PROVE  m = n
      BY <1>2 DEF EvidenceOnce
    <3>2. b.at = "create_evidence" BY <2>2 DEF CreateEvidence, At
    <3>3. \A i \in DOMAIN docs \ {d} : docs[i].text = docs[d].text => docs[i].removed
      BY <1>6, <3>1, <3>2 DEF IntelligenceInv, OneAtATime, Fresh
    <3>4. \A i \in ListedFacts' : i = d \/ i \in ListedFacts
      BY <1>8, <1>9, <1>10 DEF ListedFacts
    <3>5. \A i \in ListedFacts : ~docs[i].removed
      BY DEF IntelligenceInv, StoreType, DocsOfSources, ListedFacts, LiveSources
    <3>6. \A i \in ListedFacts : i = d \/ docs[i].text # docs[d].text
      BY <3>3, <3>5 DEF ListedFacts
    <3>7. \A i \in DOMAIN docs : docs'[i].text = docs[i].text BY <1>7, <1>8, <1>9
    <3>8. \A i, j \in ListedFacts : docs[i].text = docs[j].text => i = j
      BY <3>1 DEF IntelligenceInv, EvidenceOnce
    <3>9. m \in DOMAIN docs /\ n \in DOMAIN docs BY <1>10 DEF ListedFacts
    <3>10. docs[m].text = docs[n].text BY <3>1, <3>7, <3>9
    <3> QED BY <3>4, <3>6, <3>8, <3>10
  <2> QED BY <2>1, <2>2
<1>18. Fresh(a)' BY <1>12, FreshElsewhere
<1>19. UNCHANGED <<text, plan>> BY <1>2
<1> HIDE DEF IntelligenceInv
<1> QED BY <1>1, <1>4, <1>10, <1>12, <1>13, <1>14, <1>15, <1>16, <1>17, <1>18, <1>19, RowStep

LEMMA MarkSourceStep ==
    ASSUME IntelligenceInv, NEW p \in Removers, MarkSource(p)
    PROVE  IntelligenceInv'
<1> DEFINE b == actor[p]
<1>1. p \in Actors /\ p \notin Ingesters
  BY IntelligenceAssumption DEF Actors
<1>2. UNCHANGED <<text, job, crossed, overlapped, mishaps>> /\ UNCHANGED <<docs, recs, plan>>
  BY DEF MarkSource
<1>3. b \in ActorType /\ Knows(p, b, PlanOf(p)) BY <1>1, AtActor
<1>4. StoreType BY DEF IntelligenceInv
<1>5. PICK n \in DOMAIN sources :
        /\ sources' = [sources EXCEPT ![n].removed = TRUE]
        /\ actor' = [actor EXCEPT ![p].at = "mark_documents", ![p].source = n]
  BY DEF MarkSource
<1>6. PICK v : v = [sources[n] EXCEPT !.removed = TRUE] OBVIOUS
<1>7. v \in SourceType /\ v.removed BY <1>4, <1>6, SourceNumbers DEF SourceType
<1>8. /\ sources' \in Seq(SourceType) /\ Len(sources') = Len(sources)
      /\ DOMAIN sources' = DOMAIN sources
      /\ \A k \in DOMAIN sources : sources'[k] = IF k = n THEN v ELSE sources[k]
  <2>1. PICK S : S = SourceType OBVIOUS
  <2>2. sources \in Seq(S) /\ v \in S BY <1>4, <1>7, <2>1 DEF StoreType
  <2>3. sources' = [sources EXCEPT ![n] = v] BY <1>5, <1>6
  <2> QED BY <2>1, <2>2, <2>3, OneChanged
<1>9. Len(sources) \in Nat /\ DOMAIN sources = 1 .. Len(sources) /\ Len(docs) \in Nat
  BY <1>4, SourceNumbers, DocNumbers
<1>10. SourcesKept /\ DocsKept BY <1>2, <1>7, <1>8, <1>9 DEF SourcesKept, DocsKept
<1>11. StoreType'
  <2>1. DocsOfSources' BY <1>2, <1>4, <1>7, <1>8 DEF StoreType, DocsOfSources
  <2>2. recs' \in [Keys -> RecType'] BY <1>2, <1>4, <1>10, RecsStay
  <2> QED BY <1>2, <1>4, <1>8, <2>1, <2>2 DEF StoreType
<1>12. PICK a : a = [b EXCEPT !.at = "mark_documents", !.source = n] OBVIOUS
<1>13. n \in Nat /\ n <= Len(sources) BY <1>9
<1>14. /\ a \in ActorType /\ a.at = "mark_documents" /\ a.doc = b.doc /\ a.source = n
  BY <1>3, <1>12, <1>13 DEF ActorType, Places
<1>15. actor' = [actor EXCEPT ![p] = a] BY <1>5, <1>12
<1>16. /\ ScalarsType' /\ OtherJobs(p) /\ UNCHANGED text /\ (overlapped => overlapped')
       /\ Active' = Active /\ (~overlapped' => \A q, r \in Active' : q = r)
  BY <1>1, <1>2, SameJobs
<1>17. PICK f : f = PlanOf(p) OBVIOUS
<1>18. Knows(p, a, f)'
  <2>1. /\ a.source <= Len(sources') /\ a.doc <= Len(docs') /\ a.source \in DOMAIN sources'
        /\ sources'[a.source].removed
    BY <1>2, <1>3, <1>7, <1>8, <1>13, <1>14 DEF Knows
  <2> QED BY <1>1, <1>14, <2>1 DEF Knows, Rebuilding, Marking, Working
<1>19. EvidenceOnce'
  <2>1. LiveSources' \subseteq LiveSources BY <1>7, <1>8 DEF LiveSources
  <2>2. ListedFacts' \subseteq ListedFacts BY <1>2, <2>1 DEF ListedFacts
  <2> QED BY <1>2, <2>2, EvidenceStays DEF IntelligenceInv
<1>20. UNCHANGED <<text, plan>> /\ DOMAIN docs' = DOMAIN docs BY <1>2
<1> HIDE DEF IntelligenceInv
<1> QED BY <1>1, <1>10, <1>11, <1>14, <1>15, <1>16, <1>17, <1>18, <1>19, <1>20, RowStep

LEMMA MarkDocsStep ==
    ASSUME IntelligenceInv, NEW p \in Removers, MarkDocuments(p) \/ MarkEvidence(p)
    PROVE  IntelligenceInv'
<1> DEFINE b == actor[p]
<1>1. p \in Actors /\ p \notin Ingesters
  BY IntelligenceAssumption DEF Actors
<1>2. UNCHANGED <<text, job, crossed, overlapped, mishaps>> /\ UNCHANGED <<sources, recs, plan>>
  BY DEF MarkDocuments, MarkEvidence
<1>3. b \in ActorType /\ Knows(p, b, PlanOf(p)) BY <1>1, AtActor
<1>4. b.at \in Marking BY DEF MarkDocuments, MarkEvidence, At, Marking
<1>5. b.source \in DOMAIN sources /\ sources[b.source].removed BY <1>3, <1>4 DEF Knows
<1>6. \A n \in DOMAIN docs : docs[n] \in DocType BY DocNumbers DEF IntelligenceInv
<1>7. /\ docs' = [n \in DOMAIN docs |-> docs'[n]]
      /\ \A n \in DOMAIN docs :
           /\ docs'[n] \in DocType
           /\ docs'[n].source = docs[n].source /\ docs'[n].text = docs[n].text
           /\ docs'[n].canonical = docs[n].canonical
           /\ docs[n].removed => docs'[n].removed
           /\ docs'[n].removed => docs[n].removed \/ sources[docs[n].source].removed
           /\ docs'[n].evidence = "live" => docs[n].evidence = "live"
  <2>1. CASE MarkDocuments(p)
    <3>1. ASSUME NEW n \in DOMAIN docs
          PROVE  \E x \in BOOLEAN :
                   /\ docs'[n] = [docs[n] EXCEPT !.removed = x]
                   /\ docs[n].removed => x
                   /\ x => docs[n].removed \/ docs[n].source = b.source
      <4>1. docs'[n] = [docs[n] EXCEPT !.removed = docs[n].removed \/ docs[n].source = b.source]
        BY <2>1 DEF MarkDocuments
      <4> QED BY <4>1
    <3>2. docs' = [n \in DOMAIN docs |-> docs'[n]] BY <2>1 DEF MarkDocuments
    <3> QED BY <1>5, <1>6, <3>1, <3>2 DEF DocType
  <2>2. CASE MarkEvidence(p)
    <3>1. ASSUME NEW n \in DOMAIN docs
          PROVE  \E x \in {"removed", docs[n].evidence} : docs'[n] = [docs[n] EXCEPT !.evidence = x]
      <4>1. docs'[n] = [docs[n] EXCEPT !.evidence =
                          IF docs[n].evidence = "live" /\ docs[n].source = b.source
                          THEN "removed" ELSE docs[n].evidence]
        BY <2>2 DEF MarkEvidence
      <4> QED BY <4>1
    <3>2. docs' = [n \in DOMAIN docs |-> docs'[n]] BY <2>2 DEF MarkEvidence
    <3>3. ASSUME NEW n \in DOMAIN docs
          PROVE  /\ docs'[n] \in DocType
                 /\ docs'[n].source = docs[n].source /\ docs'[n].text = docs[n].text
                 /\ docs'[n].canonical = docs[n].canonical
                 /\ docs'[n].removed = docs[n].removed
                 /\ docs'[n].evidence = "live" => docs[n].evidence = "live"
      <4>1. PICK x \in {"removed", docs[n].evidence} : docs'[n] = [docs[n] EXCEPT !.evidence = x]
        BY <3>1
      <4> QED BY <1>6, <4>1 DEF DocType
    <3> QED BY <3>2, <3>3
  <2> QED BY <2>1, <2>2
<1>8. /\ StoreType' /\ SourcesKept /\ DocsKept /\ DOMAIN docs' = DOMAIN docs
      /\ Len(docs') = Len(docs) /\ LiveSources' = LiveSources
  <2> HIDE DEF IntelligenceInv
  <2> QED BY <1>2, <1>7, DocsRewritten
<1>9. PICK a \in ActorType :
        /\ actor' = [actor EXCEPT ![p] = a]
        /\ a.at \in Marking /\ a.source = b.source /\ a.doc = b.doc
  <2>1. PICK place \in Marking : Goes(p, place) BY DEF MarkDocuments, MarkEvidence, Marking
  <2>2. place \in Places BY <2>1 DEF Marking, Places
  <2> QED BY <1>1, <2>1, <2>2, GoesTo
<1>10. /\ ScalarsType' /\ OtherJobs(p) /\ UNCHANGED text /\ (overlapped => overlapped')
       /\ Active' = Active /\ (~overlapped' => \A q, r \in Active' : q = r)
  BY <1>1, <1>2, SameJobs
<1>11. PICK f : f = PlanOf(p) OBVIOUS
<1>12. Knows(p, a, f)'
  <2>1. /\ a.source <= Len(sources') /\ a.doc <= Len(docs') /\ a.source \in DOMAIN sources'
        /\ sources'[a.source].removed
    BY <1>2, <1>3, <1>5, <1>8, <1>9 DEF Knows
  <2> QED BY <1>1, <1>9, <2>1 DEF Knows, Rebuilding, Marking, Working
<1>13. EvidenceOnce'
  <2>1. ListedFacts' \subseteq ListedFacts BY <1>7, <1>8 DEF ListedFacts
  <2>2. \A n \in ListedFacts : docs'[n].text = docs[n].text BY <1>7 DEF ListedFacts
  <2> QED BY <1>2, <2>1, <2>2, EvidenceStays DEF IntelligenceInv
<1>14. UNCHANGED <<text, plan>> BY <1>2
<1> HIDE DEF IntelligenceInv
<1> QED BY <1>1, <1>8, <1>9, <1>10, <1>11, <1>12, <1>13, <1>14, RowStep

-------------------------------------------------------------------------------
(* What names a removed source is taken back                                 *)

RemovedSources == {n \in DOMAIN sources : sources[n].removed}

Named(n, f) == \E k \in DOMAIN f : Source(n) \in f[k]

(* A removal that has its listing of sources before it.                      *)
Marks(q, n) ==
    /\ q \in Removers
    /\ (actor[q].at \in Marking /\ actor[q].source = n) \/ actor[q].at = "read_sources"

(* A removal whose listing was right, and that is about to clear.            *)
Listed(q, n) ==
    /\ q \in Removers /\ actor[q].at \in {"read_facts", "read_duplicates", "clear"}
    /\ ~Named(n, plan[q])

(* A plan that names the source n was made before a removal that will list   *)
(* the sources again, and so was a recommendation, or that has listed them.  *)
TakenBack(n) ==
    /\ \A p \in Actors : UnderWay(p) /\ Named(n, plan[p]) => \E q \in Actors : Marks(q, n)
    /\ \A k \in Keys : recs[k].live /\ Source(n) \in recs[k].evidence =>
         \E q \in Actors : Marks(q, n) \/ Listed(q, n)

GoneInv == ~crossed =>
    /\ \A p, q \in Actors : UnderWay(p) /\ UnderWay(q) => p = q
    /\ \A n \in RemovedSources : TakenBack(n)

(* A step of p that begins no rebuild.                                       *)
LEMMA GoneStays ==
    ASSUME GoneInv, NEW p \in Actors, crossed => crossed',
           \A q \in Actors : q # p => actor'[q] = actor[q] /\ plan'[q] = plan[q],
           \A n \in RemovedSources' : n \in RemovedSources \/ Marks(p, n)',
           UnderWay(p)' => UnderWay(p) /\ \A n : Named(n, plan'[p]) => Named(n, plan[p]),
           ~crossed' => \A n : Marks(p, n) => Marks(p, n)',
           ~crossed' => \A n : Listed(p, n) => Listed(p, n)' \/ \A k \in Keys : ~recs'[k].live,
           \A k \in Keys, n \in RemovedSources : recs'[k].live /\ Source(n) \in recs'[k].evidence =>
             \/ recs[k].live /\ Source(n) \in recs[k].evidence
             \/ UnderWay(p) /\ Named(n, plan[p])
    PROVE  GoneInv'
<1>1. SUFFICES ASSUME ~crossed'
               PROVE  /\ \A q, r \in Actors : UnderWay(q)' /\ UnderWay(r)' => q = r
                      /\ \A n \in RemovedSources' : TakenBack(n)'
  BY DEF GoneInv
<1>2. /\ \A q, r \in Actors : UnderWay(q) /\ UnderWay(r) => q = r
      /\ \A n \in RemovedSources : TakenBack(n)
  BY <1>1 DEF GoneInv
<1>3. \A q \in Actors : UnderWay(q)' => UnderWay(q) BY DEF UnderWay
<1>4. ASSUME NEW n \in RemovedSources' PROVE TakenBack(n)'
  <2>1. CASE Marks(p, n)' BY <2>1 DEF TakenBack
  <2>2. CASE ~Marks(p, n)'
    <3>1. n \in RemovedSources /\ TakenBack(n) BY <1>2, <2>2
    <3>2. \A q \in Actors : Marks(q, n) => Marks(q, n)' BY <1>1 DEF Marks
    <3>3. \A q \in Actors : Listed(q, n) => Listed(q, n)' \/ \A k \in Keys : ~recs'[k].live
      BY <1>1 DEF Listed, Named
    <3>4. ASSUME NEW q \in Actors, UnderWay(q)', Named(n, plan'[q])
          PROVE  \E r \in Actors : Marks(r, n)'
      <4>1. UnderWay(q) /\ Named(n, plan[q]) BY <1>3, <3>4
      <4>2. PICK r \in Actors : Marks(r, n) BY <3>1, <4>1 DEF TakenBack
      <4> QED BY <3>2, <4>2
    <3>5. ASSUME NEW k \in Keys, recs'[k].live, Source(n) \in recs'[k].evidence
          PROVE  \E r \in Actors : Marks(r, n)' \/ Listed(r, n)'
      <4>1. \E r \in Actors : Marks(r, n) \/ Listed(r, n) BY <3>1, <3>5 DEF TakenBack
      <4> QED BY <3>2, <3>3, <3>5, <4>1
    <3> QED BY <3>4, <3>5 DEF TakenBack, Named, Source
  <2> QED BY <2>1, <2>2
<1> QED BY <1>2, <1>3, <1>4

LEMMA Elsewhere ==
    ASSUME IntelligenceInv, NEW p \in Actors, NEW a, actor' = [actor EXCEPT ![p] = a]
    PROVE  actor'[p] = a /\ \A q \in Actors : q # p => actor'[q] = actor[q]
BY DEF IntelligenceInv

LEMMA GoneWhere ==
    ASSUME IntelligenceInv, NEW p \in Actors, NEW place, Goes(p, place)
    PROVE  /\ actor'[p].at = place /\ actor'[p].source = actor[p].source
           /\ \A q \in Actors : q # p => actor'[q] = actor[q]
<1>1. PICK a : a = [actor[p] EXCEPT !.at = place] OBVIOUS
<1>2. actor' = [actor EXCEPT ![p] = a] BY <1>1 DEF Goes
<1>3. actor[p] \in ActorType BY DEF IntelligenceInv
<1>4. a.at = place /\ a.source = actor[p].source BY <1>1, <1>3 DEF ActorType
<1> QED BY <1>2, <1>4, Elsewhere

(* An ingestion, but for its rebuild.                                        *)
LEMMA GoneIngest ==
    ASSUME IntelligenceInv, GoneInv, NEW p \in Ingesters,
           \/ Begin(p) \/ CreateJob(p) \/ FindSource(p) \/ CreateSource(p) \/ FindExact(p)
           \/ FindNear(p) \/ CreateDocument(p) \/ CreateDuplicate(p) \/ CreateEvidence(p)
           \/ Finish(p) \/ Fail(p)
    PROVE  GoneInv'
<1>1. p \in Actors /\ p \notin Removers BY IntelligenceAssumption DEF Actors
<1>2. UNCHANGED <<recs, plan, crossed>>
  BY DEF Begin, CreateJob, FindSource, CreateSource, FindExact, FindNear, CreateDocument,
         CreateDuplicate, CreateEvidence, Finish, Fail, rows
<1>3. \E a : /\ actor' = [actor EXCEPT ![p] = a]
             /\ a.at \notin {"read_facts", "read_duplicates", "clear", "find_rec", "write_rec"}
  <2> DEFINE Far(a) == a.at \notin {"read_facts", "read_duplicates", "clear", "find_rec", "write_rec"}
  <2>0. \E b : b = actor[p] OBVIOUS
  <2>1. PICK b : b = actor[p] BY <2>0
  <2>2. b \in ActorType BY <1>1, <2>1, AtActor
  <2>3. CASE Begin(p) \/ CreateJob(p) \/ Finish(p) \/ Fail(p)
    <3>1. CASE \E place \in {"done", "find_source"} : Goes(p, place)
      <4>1. PICK place \in {"done", "find_source"} : actor' = [actor EXCEPT ![p] = [b EXCEPT !.at = place]]
        BY <2>1, <3>1 DEF Goes
      <4>2. Far([b EXCEPT !.at = place]) BY <2>2 DEF ActorType
      <4> QED BY <4>1, <4>2
    <3>2. CASE Begin(p) /\ ~Goes(p, "done")
      <4>1. PICK F : actor' = [actor EXCEPT ![p] = [b EXCEPT !.at = "create_job", !.files = F]]
        BY <2>1, <3>2 DEF Begin
      <4>2. Far([b EXCEPT !.at = "create_job", !.files = F]) BY <2>2 DEF ActorType
      <4> QED BY <4>1, <4>2
    <3> QED BY <2>3, <3>1, <3>2 DEF CreateJob, Finish, Fail
  <2>4. CASE FindSource(p)
    <3>1. PICK x \in b.files :
            \/ actor' = [actor EXCEPT ![p] = Rest(b.files \ {x})]
            \/ actor' = [actor EXCEPT ![p] =
                 [b EXCEPT !.at = "create_source", !.files = b.files \ {x}, !.item = x]]
      BY <2>1, <2>4 DEF FindSource
    <3>2. Far(Rest(b.files \ {x})) BY <2>2, Records DEF ActorType
    <3>3. Far([b EXCEPT !.at = "create_source", !.files = b.files \ {x}, !.item = x])
      BY <2>2 DEF ActorType
    <3> QED BY <3>1, <3>2, <3>3
  <2>5. CASE CreateSource(p)
    <3>1. actor' = [actor EXCEPT ![p] = [b EXCEPT !.at = "find_exact", !.source = Len(sources) + 1]]
      BY <2>1, <2>5 DEF CreateSource
    <3>2. Far([b EXCEPT !.at = "find_exact", !.source = Len(sources) + 1]) BY <2>2 DEF ActorType
    <3> QED BY <3>1, <3>2
  <2>6. CASE FindExact(p) \/ FindNear(p) \/ CreateDocument(p)
    <3>1. CASE FindExact(p)
      <4>1. PICK place, d : /\ place = IF Exact(p) = {} THEN "find_near" ELSE "create_document"
                            /\ d = IF Exact(p) = {} THEN 0 ELSE Oldest(Exact(p))
        OBVIOUS
      <4>2. actor' = [actor EXCEPT ![p] = [b EXCEPT !.at = place, !.doc = d]]
        BY <2>1, <3>1, <4>1 DEF FindExact
      <4>3. Far([b EXCEPT !.at = place, !.doc = d]) BY <2>2, <4>1 DEF ActorType
      <4> QED BY <4>2, <4>3
    <3>2. CASE FindNear(p)
      <4>1. PICK d : actor' = [actor EXCEPT ![p] = [b EXCEPT !.at = "create_document", !.doc = d]]
        BY <2>1, <3>2 DEF FindNear
      <4>2. Far([b EXCEPT !.at = "create_document", !.doc = d]) BY <2>2 DEF ActorType
      <4> QED BY <4>1, <4>2
    <3>3. CASE CreateDocument(p)
      <4>1. PICK place, d : /\ place = IF b.doc = 0 THEN "create_evidence" ELSE "create_duplicate"
                            /\ d = Len(docs) + 1
        OBVIOUS
      <4>2. actor' = [actor EXCEPT ![p] = [b EXCEPT !.at = place, !.doc = d]]
        BY <2>1, <3>3, <4>1 DEF CreateDocument
      <4>3. Far([b EXCEPT !.at = place, !.doc = d]) BY <2>2, <4>1 DEF ActorType
      <4> QED BY <4>2, <4>3
    <3> QED BY <2>6, <3>1, <3>2, <3>3
  <2>7. CASE CreateDuplicate(p) \/ CreateEvidence(p)
    <3>1. actor' = [actor EXCEPT ![p] = Rest(b.files)]
      BY <2>1, <2>7 DEF CreateDuplicate, CreateEvidence
    <3>2. Far(Rest(b.files)) BY <2>2, Records DEF ActorType
    <3> QED BY <3>1, <3>2
  <2> QED BY <2>3, <2>4, <2>5, <2>6, <2>7
<1>4. ~UnderWay(p)' /\ \A q \in Actors : q # p => actor'[q] = actor[q]
  BY <1>1, <1>3, Elsewhere DEF UnderWay
<1>5. \A n \in RemovedSources' : n \in RemovedSources
  <2>1. CASE CreateSource(p)
    <3>1. PICK v : /\ v = [file |-> actor[p].item, removed |-> FALSE]
                   /\ sources' = Append(sources, v)
      BY <2>1 DEF CreateSource
    <3>2. /\ DOMAIN sources' = DOMAIN sources \cup {Len(sources) + 1}
          /\ sources'[Len(sources) + 1] = v /\ \A n \in DOMAIN sources : sources'[n] = sources[n]
      <4>1. PICK S : S = SourceType \cup {v} OBVIOUS
      <4>2. sources \in Seq(SourceType) BY DEF IntelligenceInv, StoreType
      <4>3. sources \in Seq(S) /\ v \in S
        <5>1. PICK T : T = SourceType OBVIOUS
        <5>2. sources \in Seq(T) /\ T \subseteq S BY <4>1, <4>2, <5>1
        <5> QED BY <4>1, <5>2
      <4> QED BY <3>1, <4>3, OneMore
    <3>3. ~v.removed BY <3>1
    <3> QED BY <3>2, <3>3 DEF RemovedSources
  <2>2. CASE ~CreateSource(p)
    <3>1. sources' = sources
      BY <2>2 DEF Begin, CreateJob, FindSource, FindExact, FindNear, CreateDocument,
             CreateDuplicate, CreateEvidence, Finish, Fail, rows
    <3> QED BY <3>1 DEF RemovedSources
  <2> QED BY <2>1, <2>2
<1>6. \A n : ~Marks(p, n) /\ ~Listed(p, n) BY <1>1 DEF Marks, Listed
<1> QED BY <1>1, <1>2, <1>4, <1>5, <1>6, GoneStays

-------------------------------------------------------------------------------
(* The theorems                                                              *)

LEMMA StutterStep ==
    ASSUME IntelligenceInv, UNCHANGED vars
    PROVE  IntelligenceInv'
<1>1. UNCHANGED vars OBVIOUS
<1> USE <1>1 DEF vars
<1>2. ScalarsType' BY DEF IntelligenceInv, ScalarsType
<1>3. StoreType' BY DEF IntelligenceInv, StoreType, DocsOfSources, RecType, Ids
<1>4. actor' \in [Actors -> ActorType] /\ PlansType'
  BY DEF IntelligenceInv, PlansType, PlanType, Ids
<1>5. AllKnow' BY DEF IntelligenceInv, AllKnow, Knows, Active, PlanOf
<1>6. ~overlapped' => OneAtATime'
  BY DEF IntelligenceInv, OneAtATime, Fresh, Active
<1>7. EvidenceOnce' BY DEF IntelligenceInv, EvidenceOnce, ListedFacts, LiveSources
<1> QED BY <1>2, <1>3, <1>4, <1>5, <1>6, <1>7 DEF IntelligenceInv

LEMMA InvStep == IntelligenceInv /\ [Next]_vars => IntelligenceInv'
<1> SUFFICES ASSUME IntelligenceInv, [Next]_vars PROVE IntelligenceInv'
  OBVIOUS
<1> HIDE DEF IntelligenceInv
<1>1. ASSUME NEW p \in Actors, Rebuild(p) PROVE IntelligenceInv'
  BY <1>1, ListingStep, WritingStep DEF Rebuild
<1>2. ASSUME NEW p \in Ingesters, Ingest(p) PROVE IntelligenceInv'
  <2>1. p \in Actors BY DEF Actors
  <2> QED
    BY <1>1, <1>2, <2>1, LookingStep, JobStep, CreateSourceStep, CreateDocumentStep, LastStep
       DEF Ingest
<1>3. ASSUME NEW p \in Removers, Remove(p) PROVE IntelligenceInv'
  <2>1. p \in Actors BY DEF Actors
  <2> QED BY <1>1, <1>3, <2>1, MarkSourceStep, MarkDocsStep, EndingStep DEF Remove
<1> QED BY <1>2, <1>3, ErrorStep, StutterStep DEF Next

(* A rebuild begins: with the sources as they are, and alone or crossed.     *)
LEMMA GoneListing ==
    ASSUME IntelligenceInv, GoneInv, NEW p \in Actors, ReadSources(p)
    PROVE  GoneInv'
<1>1. UNCHANGED <<sources, recs>> /\ crossed' = (crossed \/ \E q \in Actors : UnderWay(q))
  BY DEF ReadSources
<1>2. SUFFICES ASSUME ~crossed'
               PROVE  /\ \A q, r \in Actors : UnderWay(q)' /\ UnderWay(r)' => q = r
                      /\ \A n \in RemovedSources' : TakenBack(n)'
  BY DEF GoneInv
<1>3. ~crossed /\ \A q \in Actors : ~UnderWay(q)
  BY <1>1, <1>2 DEF IntelligenceInv, ScalarsType
<1>4. /\ actor'[p].at = "read_facts"
      /\ \A q \in Actors : q # p => actor'[q] = actor[q]
  BY GoneWhere DEF ReadSources
<1>5. PICK K \in SUBSET Keys :
        plan' = [plan EXCEPT ![p] =
          [k \in K |-> {Source(n) : n \in Newest(LiveSources, IF k = KeyOrder[1] THEN 2 ELSE 3)}]]
  BY KeysOfOrder DEF ReadSources
<1>6. PICK g : g = [k \in K |-> {Source(n) : n \in Newest(LiveSources, IF k = KeyOrder[1] THEN 2 ELSE 3)}]
  OBVIOUS
<1>7. plan'[p] = g /\ \A q \in Actors : q # p => plan'[q] = plan[q]
  BY <1>5, <1>6, NewPlan DEF PlanStep, PlanOf
<1>8. \A n \in RemovedSources : ~Named(n, g)
  BY <1>6 DEF Named, RemovedSources, Newest, LiveSources, Source
<1>9. \A q \in Actors : UnderWay(q)' => q = p BY <1>3, <1>4 DEF UnderWay
<1>10. ASSUME NEW n \in RemovedSources PROVE TakenBack(n)'
  <2>1. TakenBack(n) BY <1>3 DEF GoneInv
  <2>2. ~Named(n, plan'[p]) BY <1>7, <1>8
  <2>3. \A q \in Actors : UnderWay(q)' => ~Named(n, plan'[q]) BY <1>9, <2>2
  <2>4. ASSUME NEW k \in Keys, recs'[k].live, Source(n) \in recs'[k].evidence
        PROVE  \E q \in Actors : Marks(q, n)' \/ Listed(q, n)'
    <3>1. PICK q \in Actors : Marks(q, n) \/ Listed(q, n) BY <1>1, <2>1, <2>4 DEF TakenBack
    <3>2. Marks(q, n) BY <1>3, <3>1 DEF Listed, UnderWay
    <3>3. CASE q = p
      <4>1. Listed(p, n)' BY <1>4, <2>2, <3>2, <3>3 DEF Marks, Listed, Named, Source
      <4> QED BY <4>1
    <3>4. CASE q # p
      <4>1. Marks(q, n)' BY <1>4, <3>2, <3>4 DEF Marks
      <4> QED BY <4>1
    <3> QED BY <3>3, <3>4
  <2> QED BY <2>3, <2>4 DEF TakenBack, Named, Source
<1>11. RemovedSources' = RemovedSources BY <1>1 DEF RemovedSources
<1> QED BY <1>9, <1>10, <1>11

(* A rebuild goes on.                                                        *)
LEMMA GonePlanning ==
    ASSUME IntelligenceInv, GoneInv, NEW p \in Actors,
           ReadFacts(p) \/ ReadDuplicates(p) \/ Clear(p) \/ FindRec(p)
    PROVE  GoneInv'
<1>1. UNCHANGED <<sources, crossed>>
  BY DEF ReadFacts, ReadDuplicates, Clear, FindRec, rows
<1>2. actor[p].at \in {"read_facts", "read_duplicates", "clear", "find_rec"}
  BY DEF ReadFacts, ReadDuplicates, Clear, FindRec, At
<1>3. UnderWay(p) /\ \A n : ~Marks(p, n) BY <1>2 DEF UnderWay, Marks, Marking
<1>4. /\ \A q \in Actors : q # p => actor'[q] = actor[q]
      /\ (ReadFacts(p) \/ ReadDuplicates(p)) => actor'[p].at \in {"read_duplicates", "clear"}
  <2>1. CASE ReadFacts(p) \/ ReadDuplicates(p) \/ Clear(p)
    BY <2>1, GoneWhere DEF ReadFacts, ReadDuplicates, Clear
  <2>2. CASE FindRec(p)
    <3>1. PICK b, k, x : b = actor[p] /\ k = NextKey(p) /\ x = recs[NextKey(p)].row OBVIOUS
    <3>2. PICK a : a = [b EXCEPT !.at = "write_rec", !.item = k, !.found = x] OBVIOUS
    <3>3. actor' = [actor EXCEPT ![p] = a] BY <2>2, <3>1, <3>2 DEF FindRec
    <3>4. ~ReadFacts(p) /\ ~ReadDuplicates(p) BY <2>2 DEF FindRec, ReadFacts, ReadDuplicates, At
    <3> QED BY <3>3, <3>4, Elsewhere
  <2> QED BY <2>1, <2>2
<1>5. /\ \A q \in Actors : q # p => plan'[q] = plan[q]
      /\ \A n : Named(n, plan'[p]) => Named(n, plan[p])
  <2>1. CASE UNCHANGED plan BY <2>1
  <2>2. CASE ReadFacts(p) /\ plan' # plan
    <3>1. PICK h : h = plan[p] OBVIOUS
    <3>2. PICK g : g = [k \in DOMAIN h \ {KeyOrder[1]} |-> h[k]] OBVIOUS
    <3>3. plan' = [plan EXCEPT ![p] = g] BY <2>2, <3>1, <3>2 DEF ReadFacts
    <3>4. plan'[p] = g /\ \A q \in Actors : q # p => plan'[q] = plan[q]
      BY <3>3, NewPlan DEF PlanStep, PlanOf
    <3>5. \A n : Named(n, g) => Named(n, h) BY <3>2 DEF Named
    <3> QED BY <3>1, <3>4, <3>5
  <2>3. CASE ReadDuplicates(p) /\ plan' # plan
    <3>1. PICK D : D = Newest({m \in DOMAIN docs : docs[m].duplicate}, 4) OBVIOUS
    <3>2. PICK E : E = {Document(n) : n \in D} OBVIOUS
    <3>3. Plans(p, KeyOrder[3], E) BY <2>3, <3>1, <3>2 DEF ReadDuplicates
    <3>4. PICK h : h = plan[p] OBVIOUS
    <3>5. PICK g : g = [l \in DOMAIN h \cup {KeyOrder[3]} |-> IF l = KeyOrder[3] THEN E ELSE h[l]]
      OBVIOUS
    <3>6. plan' = [plan EXCEPT ![p] = g] BY <3>3, <3>4, <3>5 DEF Plans
    <3>7. plan'[p] = g /\ \A q \in Actors : q # p => plan'[q] = plan[q]
      BY <3>6, NewPlan DEF PlanStep, PlanOf
    <3>8. \A n : Source(n) \notin E BY <3>2 DEF Source, Document
    <3>9. \A n : Named(n, g) => Named(n, h)
      <4>1. ASSUME NEW n, NEW k \in DOMAIN g, Source(n) \in g[k] PROVE k \in DOMAIN h /\ Source(n) \in h[k]
        BY <3>5, <3>8, <4>1
      <4> QED BY <4>1 DEF Named
    <3> QED BY <3>4, <3>7, <3>9
  <2> QED BY <2>1, <2>2, <2>3 DEF ReadFacts, ReadDuplicates, Clear, FindRec
<1>6. \A n : Listed(p, n) => Listed(p, n)' \/ \A k \in Keys : ~recs'[k].live
  <2>1. CASE ReadFacts(p) \/ ReadDuplicates(p)
    BY <1>4, <1>5, <2>1 DEF Listed, Named, Source
  <2>2. CASE Clear(p)
    <3>1. recs' = [k \in Keys |-> [recs[k] EXCEPT !.live = FALSE]] BY <2>2 DEF Clear
    <3>2. recs \in [Keys -> RecType] BY DEF IntelligenceInv, StoreType
    <3>3. \A k \in Keys : ~recs'[k].live BY <3>1, <3>2 DEF RecType
    <3> QED BY <3>3
  <2>3. CASE FindRec(p) BY <2>3 DEF FindRec, At, Listed
  <2> QED BY <2>1, <2>2, <2>3
<1>7. \A k \in Keys, n \in RemovedSources :
        recs'[k].live /\ Source(n) \in recs'[k].evidence =>
          recs[k].live /\ Source(n) \in recs[k].evidence
  <2>1. CASE Clear(p)
    <3>1. recs' = [k \in Keys |-> [recs[k] EXCEPT !.live = FALSE]] BY <2>1 DEF Clear
    <3>2. recs \in [Keys -> RecType] BY DEF IntelligenceInv, StoreType
    <3> QED BY <3>1, <3>2 DEF RecType
  <2>2. CASE ~Clear(p)
    <3>1. recs' = recs BY <2>2 DEF ReadFacts, ReadDuplicates, FindRec, rows
    <3> QED BY <3>1
  <2> QED BY <2>1, <2>2
<1>8. \A n \in RemovedSources' : n \in RemovedSources BY <1>1 DEF RemovedSources
<1> HIDE DEF IntelligenceInv
<1> QED BY <1>1, <1>3, <1>4, <1>5, <1>6, <1>7, <1>8, GoneStays

(* A recommendation is written from a plan.                                  *)
LEMMA GoneWriting ==
    ASSUME IntelligenceInv, GoneInv, NEW p \in Actors, WriteRec(p)
    PROVE  GoneInv'
<1>1. UNCHANGED <<sources, crossed>> BY DEF WriteRec
<1>2. PICK k, h, left : k = actor[p].item /\ h = plan[p] /\ left = DOMAIN h \ {k} OBVIOUS
<1>3. actor[p].at = "write_rec" BY DEF WriteRec, At
<1>4. /\ UnderWay(p) /\ \A n : ~Marks(p, n) /\ ~Listed(p, n)
  BY <1>3 DEF UnderWay, Marks, Marking, Listed
<1>5. k \in DOMAIN h /\ k \in Keys
  <2>1. Knows(p, actor[p], PlanOf(p)) /\ PlanType(plan[p]) BY AtActor, Planned
  <2> QED BY <1>2, <1>3, <2>1 DEF Knows, PlanType, PlanOf
<1>6. PICK a : actor' = [actor EXCEPT ![p] = a] BY DEF WriteRec
<1>7. \A q \in Actors : q # p => actor'[q] = actor[q] BY <1>6, Elsewhere
<1>8. PICK g : g = [l \in left |-> h[l]] OBVIOUS
<1>9. plan' = [plan EXCEPT ![p] = g] BY <1>2, <1>8 DEF WriteRec
<1>10. plan'[p] = g /\ \A q \in Actors : q # p => plan'[q] = plan[q]
  BY <1>9, NewPlan DEF PlanStep, PlanOf
<1>11. \A n : Named(n, g) => Named(n, h) BY <1>2, <1>8 DEF Named
<1>12. recs' = [recs EXCEPT ![k] = [row |-> TRUE, live |-> TRUE, evidence |-> h[k]]]
  BY <1>2 DEF WriteRec
<1>13. recs \in [Keys -> RecType] BY DEF IntelligenceInv, StoreType
<1>14. \A l \in Keys, n \in RemovedSources : recs'[l].live /\ Source(n) \in recs'[l].evidence =>
         \/ recs[l].live /\ Source(n) \in recs[l].evidence
         \/ UnderWay(p) /\ Named(n, plan[p])
  BY <1>2, <1>4, <1>5, <1>12, <1>13 DEF Named
<1>15. \A n \in RemovedSources' : n \in RemovedSources BY <1>1 DEF RemovedSources
<1> HIDE DEF IntelligenceInv
<1> QED BY <1>1, <1>2, <1>4, <1>7, <1>10, <1>11, <1>14, <1>15, GoneStays

(* A call raises: of an ingestion, or the removal is broken off.             *)
LEMMA GoneRaising ==
    ASSUME IntelligenceInv, GoneInv, NEW p \in Actors, Raises(p), UNCHANGED <<sources, recs>>
    PROVE  GoneInv'
<1>1. PICK place \in {"fail", "done"} : actor' = [actor EXCEPT ![p] = [Idle EXCEPT !.at = place]]
  BY DEF Raises
<1>2. PICK a : a = [Idle EXCEPT !.at = place] OBVIOUS
<1>3. a.at = place BY <1>2, Records DEF Places
<1>4. ~UnderWay(p)' /\ \A q \in Actors : q # p => actor'[q] = actor[q]
  BY <1>1, <1>2, <1>3, Elsewhere DEF UnderWay
<1>5. \A q \in Actors : q # p => plan'[q] = plan[q] BY DEF Raises, IntelligenceInv, PlansType
<1>6. (crossed => crossed') /\ (~crossed' => p \notin Removers)
  BY DEF Raises
<1>7. ~crossed' => \A n : ~Marks(p, n) /\ ~Listed(p, n) BY <1>6 DEF Marks, Listed
<1>8. \A n \in RemovedSources' : n \in RemovedSources BY DEF RemovedSources
<1>9. recs' = recs OBVIOUS
<1> HIDE DEF IntelligenceInv
<1> QED BY <1>4, <1>5, <1>6, <1>7, <1>8, <1>9, GoneStays

(* A removal marks what it removes.                                          *)
LEMMA GoneMarking ==
    ASSUME IntelligenceInv, GoneInv, NEW p \in Removers,
           MarkSource(p) \/ MarkDocuments(p) \/ MarkEvidence(p) \/ MarkRecs(p)
    PROVE  GoneInv'
<1>1. p \in Actors BY DEF Actors
<1>2. UNCHANGED <<plan, crossed>> BY DEF MarkSource, MarkDocuments, MarkEvidence, MarkRecs
<1>3. actor[p].at \in {"start"} \cup Marking
  BY DEF MarkSource, MarkDocuments, MarkEvidence, MarkRecs, At, Marking
<1>4. \A n : ~Listed(p, n) BY <1>3 DEF Listed, Marking
<1>5. /\ ~UnderWay(p)' /\ \A q \in Actors : q # p => actor'[q] = actor[q]
      /\ \A n : Marks(p, n) => Marks(p, n)'
      /\ \A n \in RemovedSources' : n \in RemovedSources \/ Marks(p, n)'
  <2>1. CASE MarkSource(p)
    <3>1. PICK n \in DOMAIN sources :
            /\ sources' = [sources EXCEPT ![n].removed = TRUE]
            /\ actor' = [actor EXCEPT ![p].at = "mark_documents", ![p].source = n]
      BY <2>1 DEF MarkSource
    <3>2. PICK b : b = actor[p] OBVIOUS
    <3>3. b \in ActorType BY <1>1, <3>2, AtActor
    <3>4. PICK a : a = [b EXCEPT !.at = "mark_documents", !.source = n] OBVIOUS
    <3>5. a.at = "mark_documents" /\ a.source = n BY <3>3, <3>4 DEF ActorType
    <3>6. actor' = [actor EXCEPT ![p] = a] BY <3>1, <3>2, <3>4
    <3>7. actor'[p] = a /\ \A q \in Actors : q # p => actor'[q] = actor[q]
      BY <1>1, <3>6, Elsewhere
    <3>8. ~UnderWay(p)' /\ Marks(p, n)' BY <3>5, <3>7 DEF UnderWay, Marks, Marking
    <3>9. \A m : ~Marks(p, m) BY <2>1 DEF MarkSource, At, Marks, Marking
    <3>10. \A m \in RemovedSources' : m \in RemovedSources \/ m = n
      BY <3>1 DEF RemovedSources
    <3> QED BY <3>7, <3>8, <3>9, <3>10
  <2>2. CASE MarkDocuments(p) \/ MarkEvidence(p)
    <3>1. sources' = sources BY <2>2 DEF MarkDocuments, MarkEvidence
    <3>2. PICK place \in {"mark_evidence", "mark_recs"} : Goes(p, place)
      BY <2>2 DEF MarkDocuments, MarkEvidence
    <3>3. /\ actor'[p].at = place /\ actor'[p].source = actor[p].source
          /\ \A q \in Actors : q # p => actor'[q] = actor[q]
      BY <1>1, <3>2, GoneWhere
    <3>4. actor[p].at \in Marking BY <2>2 DEF MarkDocuments, MarkEvidence, At, Marking
    <3>5. \A n : Marks(p, n) => Marks(p, n)' BY <3>3, <3>4 DEF Marks, Marking
    <3> QED BY <3>1, <3>3, <3>5 DEF UnderWay, RemovedSources
  <2>3. CASE MarkRecs(p)
    <3>1. sources' = sources BY <2>3 DEF MarkRecs
    <3>2. PICK a : a = [Idle EXCEPT !.at = "read_sources"] OBVIOUS
    <3>3. a.at = "read_sources" BY <3>2, Records DEF Places
    <3>4. actor' = [actor EXCEPT ![p] = a] BY <2>3, <3>2 DEF MarkRecs
    <3>5. actor'[p] = a /\ \A q \in Actors : q # p => actor'[q] = actor[q]
      BY <1>1, <3>4, Elsewhere
    <3> QED BY <3>1, <3>3, <3>5 DEF UnderWay, Marks, RemovedSources
  <2> QED BY <2>1, <2>2, <2>3
<1>6. \A k \in Keys : recs'[k] = recs[k] \/ ~recs'[k].live
  <2>1. CASE MarkRecs(p)
    <3>1. \A k \in Keys : recs'[k] = recs[k] \/ recs'[k] = [recs[k] EXCEPT !.live = FALSE]
      BY <2>1 DEF MarkRecs
    <3>2. recs \in [Keys -> RecType] BY DEF IntelligenceInv, StoreType
    <3> QED BY <3>1, <3>2 DEF RecType
  <2>2. CASE ~MarkRecs(p)
    <3>1. recs' = recs BY <2>2 DEF MarkSource, MarkDocuments, MarkEvidence
    <3> QED BY <3>1
  <2> QED BY <2>1, <2>2
<1> HIDE DEF IntelligenceInv
<1> QED BY <1>1, <1>2, <1>4, <1>5, <1>6, GoneStays

LEMMA GoneStart == Init => GoneInv
<1> SUFFICES ASSUME Init PROVE GoneInv
  OBVIOUS
<1>1. DOMAIN sources = {} BY DEF Init
<1>2. \A p \in Actors : ~UnderWay(p) BY DEF Init, Idle, UnderWay
<1> QED BY <1>1, <1>2 DEF GoneInv, RemovedSources

LEMMA GoneStep == IntelligenceInv /\ GoneInv /\ [Next]_vars => GoneInv'
<1> SUFFICES ASSUME IntelligenceInv, GoneInv, [Next]_vars PROVE GoneInv'
  OBVIOUS
<1> HIDE DEF IntelligenceInv, GoneInv
<1>1. ASSUME NEW p \in Actors, Rebuild(p) PROVE GoneInv'
  <2>1. ASSUME Conflict(p) PROVE GoneInv'
    BY <2>1, GoneRaising DEF Conflict
  <2> QED BY <1>1, <2>1, GoneListing, GonePlanning, GoneWriting DEF Rebuild
<1>2. ASSUME NEW p \in Ingesters, Ingest(p) PROVE GoneInv'
  <2>1. p \in Actors BY DEF Actors
  <2> QED BY <1>1, <1>2, <2>1, GoneIngest DEF Ingest
<1>3. ASSUME NEW p \in Removers, Remove(p) PROVE GoneInv'
  <2>1. p \in Actors BY DEF Actors
  <2> QED BY <1>1, <1>3, <2>1, GoneMarking DEF Remove
<1>4. ASSUME NEW p \in Actors, Error(p) PROVE GoneInv'
  BY <1>4, GoneRaising DEF Error
<1>5. CASE UNCHANGED vars
  BY <1>5 DEF vars, GoneInv, RemovedSources, TakenBack, UnderWay, Marks, Listed, Named, Source
<1> QED BY <1>2, <1>3, <1>4, <1>5 DEF Next

LEMMA InvHolds == Spec => []IntelligenceInv
BY Start, InvStep, PTL DEF Spec

(* The type of every variable: whatever the requests, the rows only refer to *)
(* rows that exist, and a recommendation only rests on existing evidence.    *)
THEOREM TypeCorrect == Spec => []TypeOK
BY InvHolds, TypeOfInv, PTL

(* As long as no rebuild begins while another is under way and no removal is *)
(* broken off, once every request has been answered no recommendation names  *)
(* a removed source. Between two statements it may: GoneInv is that some     *)
(* removal has then the listing of the sources, or the clearing that follows *)
(* it, before it.                                                            *)
THEOREM SourceIsGoneHolds == Spec => []SourceIsGone
<1>1. IntelligenceInv /\ GoneInv => SourceIsGone
  <2> SUFFICES ASSUME IntelligenceInv, GoneInv, Answered, ~crossed, NEW k \in Keys,
                      NEW n \in DOMAIN sources, recs[k].live, Source(n) \in recs[k].evidence,
                      sources[n].removed
               PROVE  FALSE
    BY DEF SourceIsGone
  <2>1. TakenBack(n) BY DEF GoneInv, RemovedSources
  <2>2. PICK q \in Actors : Marks(q, n) \/ Listed(q, n) BY <2>1 DEF TakenBack
  <2>3. actor[q].at \in {"start", "done"} BY DEF Answered, At
  <2> QED BY <2>2, <2>3 DEF Marks, Listed, Marking
<1> QED BY <1>1, GoneStart, GoneStep, InvHolds, PTL DEF Spec

(* While no two jobs have been active at once, a text is stated by the facts *)
(* of one live source at most, whatever is removed, uploaded again or left   *)
(* half done by a call that raised.                                          *)
THEOREM EvidenceOnceHolds == Spec => []EvidenceOnce
<1>1. IntelligenceInv => EvidenceOnce
  BY DEF IntelligenceInv
<1> QED BY <1>1, InvHolds, PTL
===============================================================================
