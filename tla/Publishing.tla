------------------------------ MODULE Publishing ------------------------------
(***************************************************************************)
(* Publication of one content record to the social provider                *)
(* (routers/publish.py), beside the requests and the scheduler that move   *)
(* the same record (routers/status.py, routers/content.py,                 *)
(* scheduler_service.py). Records share nothing, so one stands for all.    *)
(*                                                                         *)
(* A request reads the record, waits for the account and project lookups,  *)
(* writes the provider request id from what it read, waits for the         *)
(* provider, and writes the result to the record as it is by then: a step  *)
(* here is what runs between two awaits.                                   *)
(***************************************************************************)
EXTENDS ContentLifecycle, Naturals, FiniteSets

CONSTANTS
    Publishers,     \* clients that publish, one request after another
    Completers,     \* clients that mark the record complete
    Moves,          \* the statuses users move the record to
    PostStates,     \* the states of the provider's posts
    MaxRequests     \* bound: provider request ids

ASSUME PublishingAssumption ==
    /\ Moves \subseteq Statuses
    /\ {"scheduled", "published", "failed"} \subseteq PostStates
    /\ PostStates \subseteq {"scheduled", "publishing", "published", "partial", "failed"}
    /\ MaxRequests \in Nat \ {0}

VARIABLES
    status,     \* content_records.status
    meta,       \* metadata.publish of the record
    posts,      \* the provider's posts, by the request id that made them
    late,       \* request ids still on their way after the caller gave up
    pub,        \* the publish requests
    done,       \* the complete requests: the metadata they have read
    ids,        \* request ids made so far
    disowned,   \* history: ids whose post the record may lose (see PostAccountedFor)
    unread      \* history: those of them whose answer did not say what became of it

history == <<disowned, unread>>

vars == <<status, meta, posts, late, pub, done, ids, history>>

RequestIds == 1 .. MaxRequests

Pending == {"prepared", "reconciliation_pending"}

(* A record that was never published. post is providerPostId: a post is    *)
(* known by the request id that made it, 0 is none.                        *)
NoMeta == [state |-> "none", request |-> 0, post |-> 0]

Metas == [state : {"none"} \cup Pending \cup PostStates,
          request : RequestIds \cup {0}, post : RequestIds \cup {0}]

(* An answer as the caller takes it: a state and a post; read is FALSE when *)
(* the state is not the provider's word.                                    *)
NoReply == [state |-> "none", post |-> 0, read |-> FALSE]

Replies == [state : {"none"} \cup PostStates, post : RequestIds \cup {0}, read : BOOLEAN]

(* A publish request: where it is, the metadata it read, its id and the    *)
(* answer.                                                                 *)
Idle == [at |-> "idle", seen |-> NoMeta, request |-> 0, reply |-> NoReply]

NotReading == [reading |-> FALSE, seen |-> NoMeta]

Live(r) == r \in DOMAIN posts /\ posts[r] # "failed"

TypeOK ==
    /\ status \in Statuses
    /\ meta \in Metas
    /\ meta.post # 0 => meta.post \in DOMAIN posts
    /\ DOMAIN posts \subseteq 1 .. ids
    /\ \A r \in DOMAIN posts : posts[r] \in PostStates
    /\ late \subseteq 1 .. ids
    /\ pub \in [Publishers -> [at : {"idle", "checked", "posting", "answered", "refused"},
                               seen : Metas, request : 0 .. ids, reply : Replies]]
    /\ done \in [Completers -> [reading : BOOLEAN, seen : Metas]]
    /\ ids \in 0 .. MaxRequests
    /\ unread \subseteq disowned /\ disowned \subseteq 1 .. ids

Init ==
    /\ status \in {"todo", "approved"} /\ meta = NoMeta
    /\ posts = <<>> /\ late = {}
    /\ pub = [p \in Publishers |-> Idle] /\ done = [c \in Completers |-> NotReading]
    /\ ids = 0 /\ disowned = {} /\ unread = {}

(* Another handler than p has read the record and may still write it.      *)
OthersInHand(p) == \/ \E q \in Publishers \ {p} : pub[q].at # "idle"
                   \/ \E c \in Completers : done[c].reading

(* ------------------------------------------------------- publish_content *)

(* _assert_publish_not_duplicate, on the record as it was read *)
OutcomeUnknown == meta.post = 0 /\ meta.state \in Pending

(* MUTANT: a record that is being published is always refused.             *)
MayPublishSettled ==
    /\ status \notin {"published", "publishing"}
    /\ meta.post # 0 => meta.state \notin {"scheduled", "publishing", "published", "partial",
                                           "reconciliation_pending"}

MayPublish ==
    /\ status # "published"
    /\ status = "publishing" => OutcomeUnknown
    /\ meta.post # 0 => meta.state \notin {"scheduled", "publishing", "published", "partial",
                                           "reconciliation_pending"}

(* MaxRequests bounds the ids: a request that would want one more is not   *)
(* begun.                                                                  *)
Check(p) ==
    /\ pub[p].at = "idle" /\ MayPublish
    /\ ids < MaxRequests \/ (meta.request # 0 /\ meta.state \in Pending)
    /\ pub' = [pub EXCEPT ![p] = [Idle EXCEPT !.at = "checked", !.seen = meta]]
    /\ UNCHANGED <<status, meta, posts, late, done, ids, history>>

(* The account is not active, or the preflight finds a blocker.            *)
Refuse(p) ==
    /\ pub[p].at = "checked"
    /\ pub' = [pub EXCEPT ![p] = Idle]
    /\ UNCHANGED <<status, meta, posts, late, done, ids, history>>

(* MUTANT: only a prepared id is used again.                               *)
ReusesPrepared(p) == pub[p].seen.request # 0 /\ pub[p].seen.state = "prepared"

(* _prepare_provider_request_id, and the call: an id whose outcome is open *)
(* is used again; a new one is written over the metadata that was read.    *)
Reuses(p) == pub[p].seen.request # 0 /\ pub[p].seen.state \in Pending

Posting(r) == [Idle EXCEPT !.at = "posting", !.request = r]

Prepare(p) ==
    /\ pub[p].at = "checked"
    /\ \/ /\ Reuses(p)
          /\ pub' = [pub EXCEPT ![p] = Posting(pub[p].seen.request)]
          /\ UNCHANGED <<meta, ids, disowned>>
       \/ /\ ~Reuses(p) /\ ids < MaxRequests
          /\ ids' = ids + 1
          /\ meta' = [pub[p].seen EXCEPT !.state = "prepared", !.request = ids + 1]
          /\ pub' = [pub EXCEPT ![p] = Posting(ids + 1)]
          /\ disowned' = IF OthersInHand(p) THEN disowned \cup {ids + 1} ELSE disowned
    /\ UNCHANGED <<status, posts, late, done, unread>>

(* ---------------------------------------------------------- the provider *)

(* What the caller has sent, and gives up: it may still arrive. (A call for *)
(* an id that has its post changes nothing, and is left out.)              *)
Sent(p) == IF pub[p].at = "posting" THEN {pub[p].request} \ DOMAIN posts ELSE {}

(* POST /posts: one post for each x-request-id; a known id is answered     *)
(* with the post it made (existingPost).                                   *)
CreatePost(r) == \E s \in PostStates :
    posts' = [x \in DOMAIN posts \cup {r} |-> IF x = r THEN s ELSE posts[x]]

Receive(r) == IF r \in DOMAIN posts THEN UNCHANGED posts ELSE CreatePost(r)

Answer(p, reply) == pub' = [pub EXCEPT ![p].at = "answered", ![p].reply = reply]

Serve(p) ==
    LET r == pub[p].request
    IN  /\ pub[p].at = "posting"
        /\ Receive(r)
        /\ Answer(p, [state |-> posts'[r], post |-> r, read |-> TRUE])
        /\ UNCHANGED <<status, meta, late, done, ids, history>>

(* An answer below 400 without a state (a page that is not JSON, no post in *)
(* it): the caller takes the state from what it asked for (publishNow).     *)
ServeUnread(p) ==
    LET r == pub[p].request
    IN  /\ pub[p].at = "posting"
        /\ UNCHANGED posts \/ Receive(r)
        /\ \E s \in {"scheduled", "published"}, post \in {0} \cup ({r} \cap DOMAIN posts') :
              Answer(p, [state |-> s, post |-> post, read |-> FALSE])
        /\ UNCHANGED <<status, meta, late, done, ids, history>>

(* An answer of 400 or more, to a first attempt or to a retry: the limit of *)
(* calls, the key, or a failure on the way, when the call may have been     *)
(* served or may still be.                                                  *)
Reject(p) ==
    /\ pub[p].at = "posting"
    /\ \/ (UNCHANGED posts \/ Receive(pub[p].request)) /\ UNCHANGED late
       \/ UNCHANGED posts /\ late' = late \cup Sent(p)
    /\ pub' = [pub EXCEPT ![p].at = "refused"]
    /\ UNCHANGED <<status, meta, done, ids, history>>

ServeLate(r) ==
    /\ r \in late /\ late' = late \ {r}
    /\ Receive(r)
    /\ UNCHANGED <<status, meta, pub, done, ids, history>>

(* The provider works on its posts; nothing tells the backend.             *)
Progress(r) ==
    /\ r \in DOMAIN posts
    /\ \E s \in PostStates :
         /\ <<posts[r], s>> \in {"scheduled"} \X {"publishing"}
                              \cup {"publishing"} \X {"published", "partial", "failed"}
         /\ posts' = [posts EXCEPT ![r] = s]
    /\ UNCHANGED <<status, meta, late, pub, done, ids, history>>

(* -------------------------------------------------------- the result *)

Persist(p, result, post) ==
    /\ meta' = [state |-> result, request |-> pub[p].request, post |-> post]
    /\ status' = Advance(status, result)
    /\ pub' = [pub EXCEPT ![p] = Idle]
    /\ UNCHANGED <<posts, done, ids>>

Disown(r) == disowned' = disowned \cup {r}

Accept(p) == /\ pub[p].at = "answered"
             /\ Persist(p, pub[p].reply.state, pub[p].reply.post)
             /\ \/ pub[p].reply.read /\ UNCHANGED history
                \/ /\ ~pub[p].reply.read
                   /\ Disown(pub[p].request) /\ unread' = unread \cup {pub[p].request}
             /\ UNCHANGED late

Fail(p) == /\ pub[p].at = "refused"
           /\ Persist(p, "failed", 0)
           /\ Disown(pub[p].request)
           /\ UNCHANGED <<late, unread>>

(* The caller gives up, and the record is left as it is or as it says.     *)
Abandoned(p) == late' = late \cup Sent(p)

Waiting(p) == pub[p].at \in {"posting", "answered", "refused"}

(* MUTANT: the timeout takes the request id for the id of a post.          *)
TimeoutKnown(p) == /\ Waiting(p)
                   /\ Persist(p, "reconciliation_pending", pub[p].request)
                   /\ Abandoned(p)
                   /\ UNCHANGED history

(* httpx.TimeoutException: the outcome is unknown.                         *)
Timeout(p) == /\ Waiting(p)
              /\ Persist(p, "reconciliation_pending", 0)
              /\ Abandoned(p)
              /\ UNCHANGED history

(* Any other transport error leaves the handler: nothing is written.       *)
NetworkError(p) ==
    /\ Waiting(p)
    /\ pub' = [pub EXCEPT ![p] = Idle]
    /\ Abandoned(p)
    /\ UNCHANGED <<status, meta, posts, done, ids, history>>

Publish(p) == \/ Check(p) \/ Refuse(p) \/ Prepare(p) \/ Serve(p) \/ ServeUnread(p)
              \/ Reject(p) \/ Accept(p) \/ Fail(p) \/ Timeout(p) \/ NetworkError(p)

(* ----------------------------------------- the others that write the record *)

(* transition_content, schedule_content, approve_content, reject_content,  *)
(* regenerate_content                                                      *)
Move(to) ==
    /\ to \in Moves /\ CanMove(status, to)
    /\ status' = to
    /\ UNCHANGED <<meta, posts, late, pub, done, ids, history>>

(* SchedulerService._auto_transition_scheduled. schedule_content writes the *)
(* date even when the matrix refuses the move, so that a scheduled record   *)
(* may turn out to be due at any time.                                      *)
AutoTransition == /\ status = "scheduled"
                  /\ status' = "publishing"
                  /\ UNCHANGED <<meta, posts, late, pub, done, ids, history>>

(* complete_content writes the whole metadata it read before it waited for *)
(* the owner's project.                                                    *)
CompleteRead(c) ==
    /\ ~done[c].reading
    /\ done' = [done EXCEPT ![c] = [reading |-> TRUE, seen |-> meta]]
    /\ UNCHANGED <<status, meta, posts, late, pub, ids, history>>

CompleteWrite(c) ==
    /\ done[c].reading
    /\ meta' = done[c].seen
    /\ done' = [done EXCEPT ![c] = NotReading]
    /\ UNCHANGED <<status, posts, late, pub, ids, history>>

(* The server stops and starts: every request is cut where it is.          *)
Stop ==
    /\ pub' = [p \in Publishers |-> Idle] /\ done' = [c \in Completers |-> NotReading]
    /\ late' = late \cup UNION {Sent(p) : p \in Publishers}
    /\ UNCHANGED <<status, meta, posts, ids, history>>

Next == \/ \E p \in Publishers : Publish(p)
        \/ \E r \in RequestIds : ServeLate(r) \/ Progress(r)
        \/ \E to \in Moves : Move(to)
        \/ AutoTransition
        \/ \E c \in Completers : CompleteRead(c) \/ CompleteWrite(c)
        \/ Stop

Spec == Init /\ [][Next]_vars

(* A client whose outcome is unknown asks again, the lookups do not refuse *)
(* it for ever, the provider answers what it is asked, and not every       *)
(* answer is lost.                                                         *)
FairSpec ==
    /\ Spec
    /\ \A p \in Publishers : /\ SF_vars(OutcomeUnknown /\ Check(p)) /\ SF_vars(Prepare(p))
                             /\ SF_vars(Serve(p)) /\ SF_vars(Accept(p) \/ Fail(p))

(* ------------------------------------------------------------- properties *)

(* A live post is never out of the record's hold on account of a timeout,  *)
(* a broken or late call, a stop of the server or what other handlers write *)
(* back: the record names it, or its outcome is open under the id that made *)
(* it, so that a retry finds that post instead of making another. The posts *)
(* it may lose are those of the ids in disowned, and no others: an id that  *)
(* was made while another publication or complete_content had the record in *)
(* hand; an id given up because a call with it, a retry included, was       *)
(* answered 400 or more; an id whose answer did not say what became of it.  *)
Holds(m, r) == m.request = r /\ (m.post = r \/ m.state \in Pending)

PostAccountedFor == \A r \in RequestIds \ disowned : Live(r) => Holds(meta, r)

(* The lifecycle says published only of a record whose post is out, or     *)
(* after an answer that did not say so and was taken for it: not on a      *)
(* timeout, not on a refusal, not on the answer to another attempt, not    *)
(* because its date has passed. (Users do not move it there by hand: Moves.) *)
PublishedIsOut == status = "published" => \E r \in RequestIds :
    r \in unread \/ (r \in DOMAIN posts /\ posts[r] = "published")

(* An open outcome is settled: the retries are let through until the       *)
(* answer to one of them is on the record. (A handler that overlaps may    *)
(* write an open outcome back over a published record, which is refused.)  *)
OutcomeSettles == OutcomeUnknown ~> (~OutcomeUnknown \/ status = "published")
===============================================================================
