--------------------------- MODULE Publishing_proofs ---------------------------
(* Theorems of Publishing and their proofs, for any numbers of clients and   *)
(* of request ids.                                                           *)
EXTENDS Publishing, TLAPS

-------------------------------------------------------------------------------
(* Types                                                                     *)

Ats == {"idle", "checked", "posting", "answered", "refused"}

(* The metadata m of a record, on the record or in a handler's hands, names  *)
(* ids that were given out and posts that were made.                         *)
Sound(m) == m.request \in 0 .. ids /\ (m.post # 0 => m.post \in DOMAIN posts)

(* An answer names the post of the id it answers; one that was read says of  *)
(* it what does not change any more.                                         *)
ReplySound(request, reply) ==
    /\ reply.state \in PostStates
    /\ reply.post \in {0} \cup ({request} \cap DOMAIN posts)
    /\ reply.read => reply.post = request
    /\ ~reply.read => reply.state # "failed"
    /\ reply.read /\ reply.state \in {"failed", "published"} => posts[request] = reply.state

RequestSound(q) ==
    /\ Sound(q.seen)
    /\ q.at \in {"posting", "answered", "refused"} => q.request # 0
    /\ q.at = "answered" => ReplySound(q.request, q.reply)

PostsType == /\ DOMAIN posts \subseteq 1 .. ids
             /\ \A r \in DOMAIN posts : posts[r] \in PostStates
             /\ late \subseteq 1 .. ids
             /\ ids \in 0 .. MaxRequests
             /\ unread \subseteq disowned /\ disowned \subseteq 1 .. ids

RecordType == status \in Statuses /\ meta \in Metas /\ Sound(meta)

RequestType == [at : Ats, seen : Metas, request : 0 .. ids, reply : Replies]

ReaderType == [reading : BOOLEAN, seen : Metas]

TypeInv ==
    /\ PostsType /\ RecordType
    /\ pub \in [Publishers -> RequestType]
    /\ \A p \in Publishers : RequestSound(pub[p])
    /\ done \in [Completers -> ReaderType]
    /\ \A c \in Completers : Sound(done[c].seen)

(* What there is of ids and posts only grows, and the end of a post is final. *)
Grow == /\ ids' >= ids /\ DOMAIN posts \subseteq DOMAIN posts'
        /\ \A r \in DOMAIN posts : posts[r] \in {"failed", "published"} => posts'[r] = posts[r]

LEMMA IdsType == TypeInv => /\ ids \in Nat /\ 1 .. ids \subseteq RequestIds
                            /\ DOMAIN posts \subseteq RequestIds
BY PublishingAssumption DEF TypeInv, PostsType, RequestIds

LEMMA NoMetaType == NoMeta \in Metas
BY DEF NoMeta, Metas

LEMMA IdleType ==
    ASSUME ids \in Nat
    PROVE  Idle \in RequestType /\ RequestSound(Idle)
<1>1. NoReply \in Replies BY DEF NoReply, Replies
<1>2. Idle \in RequestType BY <1>1, NoMetaType DEF Idle, RequestType, Ats
<1>3. Sound(NoMeta) BY DEF Sound, NoMeta
<1> QED BY <1>2, <1>3 DEF Idle, RequestSound

LEMMA SoundGrows ==
    ASSUME NEW m, Sound(m), Grow, ids \in Nat, ids' \in Nat
    PROVE  Sound(m)'
BY DEF Sound, Grow

LEMMA ReplyGrows ==
    ASSUME NEW r, NEW reply, r # 0, ReplySound(r, reply), Grow
    PROVE  ReplySound(r, reply)'
BY DEF ReplySound, Grow

LEMMA RequestGrows ==
    ASSUME NEW q \in RequestType, RequestSound(q), Grow, ids \in Nat, ids' \in Nat
    PROVE  q \in RequestType' /\ RequestSound(q)'
<1>1. q \in RequestType' BY DEF RequestType, Grow
<1>2. Sound(q.seen)' BY SoundGrows DEF RequestSound
<1>3. q.at = "answered" => ReplySound(q.request, q.reply)' BY ReplyGrows DEF RequestSound
<1> QED BY <1>1, <1>2, <1>3 DEF RequestSound

(* A request that the step leaves alone. *)
LEMMA RequestStays ==
    ASSUME TypeInv, Grow, PostsType', NEW p \in Publishers, pub'[p] = pub[p]
    PROVE  pub'[p] \in RequestType' /\ RequestSound(pub[p])'
<1>1. ids \in Nat /\ ids' \in Nat BY PublishingAssumption DEF TypeInv, PostsType
<1>2. PICK q : q = pub[p] OBVIOUS
<1>3. q \in RequestType /\ RequestSound(q) BY <1>2 DEF TypeInv
<1>4. q \in RequestType' /\ RequestSound(q)' BY <1>1, <1>3, RequestGrows
<1>5. pub'[p] = q BY <1>2
<1> QED BY <1>4, <1>5 DEF RequestSound, Sound, ReplySound

LEMMA ReadersStay ==
    ASSUME TypeInv, Grow, PostsType', UNCHANGED done
    PROVE  /\ done' \in [Completers -> ReaderType]
           /\ \A c \in Completers : Sound(done[c].seen)'
<1>1. ids \in Nat /\ ids' \in Nat BY PublishingAssumption DEF TypeInv, PostsType
<1> QED BY <1>1, SoundGrows DEF TypeInv, Sound, Grow

(* A step of one publish request. *)
LEMMA RequestStep ==
    ASSUME TypeInv, Grow, PostsType', RecordType', UNCHANGED done,
           NEW p \in Publishers, NEW v \in RequestType', RequestSound(v)',
           pub' = [pub EXCEPT ![p] = v]
    PROVE  TypeInv'
<1>1. \A q \in Publishers : pub'[q] \in RequestType' /\ RequestSound(pub[q])'
  <2>1. ASSUME NEW q \in Publishers, q # p PROVE pub'[q] \in RequestType' /\ RequestSound(pub[q])'
    <3>1. pub'[q] = pub[q] BY <2>1 DEF TypeInv
    <3> QED BY <3>1, RequestStays
  <2>2. pub'[p] = v BY DEF TypeInv
  <2>3. RequestSound(pub[p])' BY <2>2 DEF RequestSound, Sound, ReplySound
  <2> QED BY <2>1, <2>2, <2>3
<1>2. pub' \in [Publishers -> RequestType'] BY <1>1 DEF TypeInv
<1> QED BY <1>1, <1>2, ReadersStay DEF TypeInv

(* A step that leaves the publish requests alone. *)
LEMMA OtherStep ==
    ASSUME TypeInv, Grow, PostsType', RecordType', UNCHANGED pub,
           done' \in [Completers -> ReaderType],
           \A c \in Completers : Sound(done[c].seen)'
    PROVE  TypeInv'
<1>1. \A q \in Publishers : pub'[q] \in RequestType' /\ RequestSound(pub[q])'
  BY RequestStays
<1>2. pub' \in [Publishers -> RequestType'] BY <1>1 DEF TypeInv
<1> QED BY <1>1, <1>2 DEF TypeInv

LEMMA AdvanceType ==
    ASSUME NEW from \in Statuses, NEW result
    PROVE  Advance(from, result) \in Statuses
BY DEF Advance, Statuses

LEMMA InitType == Init => TypeInv
<1> SUFFICES ASSUME Init PROVE TypeInv
  OBVIOUS
<1>1. DOMAIN posts = {} /\ ids = 0 BY DEF Init
<1>2. PostsType BY <1>1, PublishingAssumption DEF Init, PostsType
<1>3. Sound(NoMeta) BY <1>1 DEF Sound, NoMeta
<1>4. RecordType BY <1>3, NoMetaType DEF Init, RecordType, Statuses, Sound
<1>5. pub \in [Publishers -> RequestType] /\ \A p \in Publishers : RequestSound(pub[p])
  BY <1>1, IdleType DEF Init
<1>6. done \in [Completers -> ReaderType] /\ \A c \in Completers : Sound(done[c].seen)
  BY <1>3, NoMetaType DEF Init, NotReading, ReaderType
<1> QED BY <1>2, <1>4, <1>5, <1>6 DEF TypeInv

(* What reaches the provider. *)
LEMMA ReceiveType ==
    ASSUME TypeInv, NEW r \in 1 .. ids, UNCHANGED posts \/ Receive(r), UNCHANGED ids
    PROVE  /\ Grow /\ DOMAIN posts' \subseteq 1 .. ids
           /\ \A x \in DOMAIN posts' : posts'[x] \in PostStates
           /\ Receive(r) => r \in DOMAIN posts'
<1>1. ids \in Nat BY IdsType
<1>2. CASE UNCHANGED posts
  BY <1>1, <1>2 DEF TypeInv, PostsType, Grow, Receive, CreatePost
<1>3. CASE r \notin DOMAIN posts /\ CreatePost(r)
  BY <1>1, <1>3 DEF TypeInv, PostsType, Grow, CreatePost
<1> QED BY <1>2, <1>3 DEF Receive

LEMMA SentType ==
    ASSUME TypeInv, NEW p \in Publishers
    PROVE  Sent(p) \subseteq 1 .. ids
<1>1. ids \in Nat BY IdsType
<1>2. pub[p] \in RequestType /\ RequestSound(pub[p]) BY DEF TypeInv
<1> QED BY <1>1, <1>2 DEF Sent, RequestType, RequestSound

(* What the steps of a request write. *)
LEMMA PersistType ==
    ASSUME TypeInv, NEW p \in Publishers,
           NEW result \in PostStates \cup {"reconciliation_pending"},
           NEW post \in {0} \cup DOMAIN posts, Waiting(p), Persist(p, result, post),
           late' \subseteq 1 .. ids, unread' \subseteq disowned', disowned' \subseteq 1 .. ids
    PROVE  TypeInv'
<1>1. ids \in Nat /\ 1 .. ids \subseteq RequestIds /\ DOMAIN posts \subseteq RequestIds
  BY IdsType
<1>2. pub[p].request \in 1 .. ids
  BY <1>1 DEF TypeInv, RequestType, RequestSound, Waiting
<1>3. meta' \in Metas /\ Sound(meta)'
  BY <1>1, <1>2 DEF Persist, Metas, Sound, Pending
<1>4. RecordType'
  BY <1>3, AdvanceType DEF Persist, TypeInv, RecordType
<1>5. PostsType' /\ Grow
  BY <1>1 DEF Persist, TypeInv, PostsType, Grow
<1>6. PICK v : v = Idle OBVIOUS
<1>7. v \in RequestType' /\ RequestSound(v)'
  BY <1>1, <1>5, <1>6, IdleType, RequestGrows, PublishingAssumption DEF PostsType
<1> QED BY <1>4, <1>5, <1>6, <1>7, RequestStep DEF Persist

LEMMA PrepareType ==
    ASSUME TypeInv, NEW p \in Publishers, Prepare(p)
    PROVE  TypeInv'
<1>1. ids \in Nat /\ 1 .. ids \subseteq RequestIds BY IdsType
<1>2. pub[p] \in RequestType /\ RequestSound(pub[p]) /\ pub[p].seen \in Metas
  BY DEF TypeInv, RequestType
<1>3. PICK r \in 1 .. ids' :
        /\ pub' = [pub EXCEPT ![p] = Posting(r)]
        /\ \/ UNCHANGED <<meta, ids, disowned>>
           \/ /\ r = ids + 1 /\ ids' = ids + 1 /\ ids' \in 0 .. MaxRequests
              /\ meta' = [pub[p].seen EXCEPT !.state = "prepared", !.request = r]
              /\ disowned' \subseteq disowned \cup {r}
              /\ disowned \subseteq disowned'
  <2>1. CASE Reuses(p) /\ UNCHANGED <<meta, ids, disowned>>
             /\ pub' = [pub EXCEPT ![p] = Posting(pub[p].seen.request)]
    <3>1. pub[p].seen.request \in 1 .. ids' BY <1>1, <1>2, <2>1 DEF Reuses, RequestSound, Sound
    <3> QED BY <2>1, <3>1
  <2>2. CASE /\ ids < MaxRequests /\ ids' = ids + 1
             /\ meta' = [pub[p].seen EXCEPT !.state = "prepared", !.request = ids + 1]
             /\ pub' = [pub EXCEPT ![p] = Posting(ids + 1)]
             /\ disowned' = IF OthersInHand(p) THEN disowned \cup {ids + 1} ELSE disowned
    <3>1. ids + 1 \in 1 .. ids' /\ ids' \in 0 .. MaxRequests BY <1>1, <2>2, PublishingAssumption
    <3> QED BY <2>2, <3>1
  <2> QED BY <2>1, <2>2 DEF Prepare
<1>4. UNCHANGED <<status, posts, late, done, unread>> BY DEF Prepare
<1>5. PostsType' /\ Grow /\ ids' \in Nat
  BY <1>1, <1>3, <1>4 DEF TypeInv, PostsType, Grow
<1>6. meta' \in Metas /\ Sound(meta)'
  <2>1. CASE UNCHANGED meta BY <1>1, <1>5, <2>1, SoundGrows DEF TypeInv, RecordType, Sound, Grow
  <2>2. CASE r \in RequestIds /\ meta' = [pub[p].seen EXCEPT !.state = "prepared", !.request = r]
    <3>1. PICK m \in Metas : m = pub[p].seen BY <1>2
    <3>2. meta' = [m EXCEPT !.state = "prepared", !.request = r] BY <2>2, <3>1
    <3>3. meta' \in Metas BY <2>2, <3>2 DEF Metas, Pending
    <3>4. meta'.request = r /\ meta'.post = m.post BY <3>2 DEF Metas
    <3> QED BY <1>2, <1>3, <1>4, <1>5, <3>1, <3>3, <3>4 DEF Sound, RequestSound
  <2> QED BY <1>1, <1>3, <1>5, <2>1, <2>2 DEF RequestIds
<1>7. PICK v : v = Posting(r) OBVIOUS
<1>8. v \in RequestType' /\ RequestSound(v)'
  <2>1. NoMeta.post = 0 /\ NoMeta.request = 0 /\ NoMeta \in Metas BY NoMetaType DEF NoMeta
  <2>2. NoReply \in Replies BY DEF NoReply, Replies
  <2>3. v = [at |-> "posting", seen |-> NoMeta, request |-> r, reply |-> NoReply]
    BY <1>7 DEF Posting, Idle
  <2> QED BY <1>3, <1>5, <2>1, <2>2, <2>3 DEF RequestType, RequestSound, Sound, Ats
<1>9. RecordType' BY <1>4, <1>6 DEF TypeInv, RecordType
<1> QED BY <1>3, <1>4, <1>5, <1>7, <1>8, <1>9, RequestStep

(* What arrives at the provider, and what it answers. *)
LEMMA AnswerType ==
    ASSUME TypeInv, NEW p \in Publishers,
           Serve(p) \/ ServeUnread(p) \/ Reject(p)
    PROVE  TypeInv'
<1>1. ids \in Nat /\ 1 .. ids \subseteq RequestIds BY IdsType
<1>2. pub[p] \in RequestType /\ RequestSound(pub[p]) BY DEF TypeInv
<1>3. pub[p].request \in 1 .. ids /\ pub[p].at = "posting"
  BY <1>1, <1>2 DEF Serve, ServeUnread, Reject, RequestType, RequestSound
<1>4. PICK r \in 1 .. ids : r = pub[p].request BY <1>3
<1>5. /\ UNCHANGED posts \/ Receive(r)
      /\ UNCHANGED <<status, meta, done, ids, history>>
      /\ late' \subseteq 1 .. ids
  BY <1>4, SentType DEF Serve, ServeUnread, Reject, TypeInv, PostsType
<1>6. /\ Grow /\ DOMAIN posts' \subseteq 1 .. ids
      /\ \A x \in DOMAIN posts' : posts'[x] \in PostStates
      /\ Receive(r) => r \in DOMAIN posts'
  BY <1>5, ReceiveType
<1>7. PostsType' BY <1>5, <1>6 DEF history, TypeInv, PostsType
<1>8. Sound(meta)' /\ RecordType'
  BY <1>1, <1>5, <1>6, SoundGrows DEF TypeInv, RecordType, Sound, Grow
<1>9. PICK v :
        /\ \/ \E reply \in Replies : /\ v = [pub[p] EXCEPT !.at = "answered", !.reply = reply]
                                    /\ ReplySound(r, reply)'
           \/ v = [pub[p] EXCEPT !.at = "refused"]
        /\ pub' = [pub EXCEPT ![p] = v]
  <2>1. CASE Serve(p)
    <3>1. PICK reply : reply = [state |-> posts'[r], post |-> r, read |-> TRUE] OBVIOUS
    <3>2. r \in DOMAIN posts' BY <1>4, <1>6, <2>1 DEF Serve
    <3>3. reply \in Replies /\ ReplySound(r, reply)'
      BY <1>1, <1>6, <3>1, <3>2 DEF Replies, ReplySound
    <3>4. pub' = [pub EXCEPT ![p].at = "answered", ![p].reply = reply]
      BY <1>4, <2>1, <3>1 DEF Serve, Answer
    <3> QED BY <3>3, <3>4
  <2>2. CASE ServeUnread(p)
    <3>1. PICK s \in {"scheduled", "published"}, post \in {0} \cup ({r} \cap DOMAIN posts') :
            Answer(p, [state |-> s, post |-> post, read |-> FALSE])
      BY <1>4, <2>2 DEF ServeUnread
    <3>2. PICK reply : reply = [state |-> s, post |-> post, read |-> FALSE] OBVIOUS
    <3>3. reply \in Replies /\ ReplySound(r, reply)'
      BY <1>1, <3>2, PublishingAssumption DEF Replies, ReplySound
    <3>4. pub' = [pub EXCEPT ![p].at = "answered", ![p].reply = reply]
      BY <3>1, <3>2 DEF Answer
    <3> QED BY <3>3, <3>4
  <2>3. CASE Reject(p)
    <3>1. pub' = [pub EXCEPT ![p].at = "refused"] BY <2>3 DEF Reject
    <3> QED BY <3>1
  <2> QED BY <2>1, <2>2, <2>3
<1>10. v \in RequestType' /\ RequestSound(v)'
  <2>1. PICK q : q = pub[p] OBVIOUS
  <2>2. q \in RequestType' /\ RequestSound(q)' /\ q.request = r
    BY <1>1, <1>2, <1>4, <1>5, <1>6, <2>1, RequestGrows
  <2>3. ASSUME NEW reply \in Replies, ReplySound(r, reply)',
               v = [q EXCEPT !.at = "answered", !.reply = reply]
        PROVE  v \in RequestType' /\ RequestSound(v)'
    <3>1. v \in RequestType' BY <2>2, <2>3 DEF RequestType, Ats
    <3>2. v.at = "answered" /\ v.seen = q.seen /\ v.request = r /\ v.reply = reply
      BY <2>2, <2>3 DEF RequestType
    <3> QED BY <1>3, <1>4, <2>2, <2>3, <3>1, <3>2 DEF RequestSound
  <2>4. CASE v = [q EXCEPT !.at = "refused"]
    <3>1. v \in RequestType' BY <2>2, <2>4 DEF RequestType, Ats
    <3>2. v.at = "refused" /\ v.seen = q.seen /\ v.request = r BY <2>2, <2>4 DEF RequestType
    <3> QED BY <1>3, <1>4, <2>2, <3>1, <3>2 DEF RequestSound
  <2> QED BY <1>9, <2>1, <2>3, <2>4
<1> QED BY <1>5, <1>6, <1>7, <1>8, <1>9, <1>10, RequestStep

LEMMA PublishType ==
    ASSUME TypeInv, NEW p \in Publishers, Publish(p)
    PROVE  TypeInv'
<1>1. ids \in Nat /\ Sent(p) \subseteq 1 .. ids BY IdsType, SentType
<1>2. pub[p] \in RequestType /\ RequestSound(pub[p]) BY DEF TypeInv
<1>3. PostsType /\ RecordType BY DEF TypeInv
<1>4. CASE Check(p)
  <2>1. PICK v : v = [Idle EXCEPT !.at = "checked", !.seen = meta] OBVIOUS
  <2>2. Idle \in RequestType /\ RequestSound(Idle) BY <1>1, IdleType
  <2>3. v \in RequestType /\ RequestSound(v)
    BY <1>3, <2>1, <2>2 DEF RecordType, RequestType, RequestSound, Ats, Idle
  <2>4. UNCHANGED <<status, meta, posts, late, done, ids, history>>
        /\ pub' = [pub EXCEPT ![p] = v]
    BY <1>4, <2>1 DEF Check
  <2>5. PostsType' /\ Grow /\ RecordType'
    BY <1>1, <1>3, <2>4 DEF PostsType, Grow, RecordType, Sound, history
  <2>6. v \in RequestType' /\ RequestSound(v)' BY <1>1, <2>3, <2>4, <2>5, RequestGrows
  <2> QED BY <2>4, <2>5, <2>6, RequestStep
<1>5. CASE Refuse(p) \/ NetworkError(p)
  <2>1. /\ UNCHANGED <<status, meta, posts, done, ids, history>> /\ pub' = [pub EXCEPT ![p] = Idle]
        /\ late' \subseteq 1 .. ids
    BY <1>1, <1>3, <1>5 DEF Refuse, NetworkError, Abandoned, PostsType
  <2>2. PostsType' /\ Grow /\ RecordType'
    BY <1>1, <1>3, <2>1 DEF PostsType, Grow, RecordType, Sound, history
  <2>3. PICK v : v = Idle OBVIOUS
  <2>4. v \in RequestType' /\ RequestSound(v)'
    BY <1>1, <2>1, <2>2, <2>3, IdleType, RequestGrows
  <2> QED BY <2>1, <2>2, <2>3, <2>4, RequestStep
<1>6. CASE Prepare(p) BY <1>6, PrepareType
<1>7. CASE Serve(p) \/ ServeUnread(p) \/ Reject(p) BY <1>7, AnswerType
<1>8. Waiting(p) => pub[p].request \in 1 .. ids
  BY <1>1, <1>2 DEF Waiting, RequestType, RequestSound
<1>9. CASE Accept(p)
  <2>1. ReplySound(pub[p].request, pub[p].reply) /\ Waiting(p)
    BY <1>2, <1>9 DEF Accept, RequestSound, Waiting
  <2>2. pub[p].reply.state \in PostStates /\ pub[p].reply.post \in {0} \cup DOMAIN posts
    BY <2>1 DEF ReplySound
  <2>3. late' \subseteq 1 .. ids /\ unread' \subseteq disowned' /\ disowned' \subseteq 1 .. ids
    BY <1>3, <1>8, <1>9, <2>1 DEF Accept, Disown, history, PostsType
  <2> QED BY <1>9, <2>1, <2>2, <2>3, PersistType DEF Accept
<1>10. CASE Fail(p)
  <2>1. Waiting(p) /\ "failed" \in PostStates
    BY <1>10, PublishingAssumption DEF Fail, Waiting
  <2>2. late' \subseteq 1 .. ids /\ unread' \subseteq disowned' /\ disowned' \subseteq 1 .. ids
    BY <1>3, <1>8, <1>10, <2>1 DEF Fail, Disown, PostsType
  <2> QED BY <1>10, <2>1, <2>2, PersistType DEF Fail
<1>11. CASE Timeout(p)
  <2>1. late' \subseteq 1 .. ids /\ unread' \subseteq disowned' /\ disowned' \subseteq 1 .. ids
    BY <1>1, <1>3, <1>11 DEF Timeout, Abandoned, history, PostsType
  <2> QED BY <1>11, <2>1, PersistType DEF Timeout
<1> QED BY <1>4, <1>5, <1>6, <1>7, <1>9, <1>10, <1>11 DEF Publish

LEMMA OthersType ==
    ASSUME TypeInv,
           \/ \E r \in RequestIds : ServeLate(r) \/ Progress(r)
           \/ \E to \in Moves : Move(to)
           \/ AutoTransition
           \/ \E c \in Completers : CompleteRead(c) \/ CompleteWrite(c)
    PROVE  TypeInv'
<1>1. ids \in Nat BY IdsType
<1>2. /\ PostsType /\ RecordType /\ Sound(meta)
      /\ done \in [Completers -> ReaderType] /\ \A c \in Completers : Sound(done[c].seen)
  BY DEF TypeInv, RecordType
<1>3. ASSUME UNCHANGED <<meta, pub, done, ids>>, status' \in Statuses, PostsType', Grow
      PROVE  TypeInv'
  <2>1. RecordType' BY <1>2, <1>3 DEF RecordType, Sound, Grow
  <2> QED BY <1>3, <2>1, ReadersStay, OtherStep
<1>4. ASSUME NEW r \in RequestIds, ServeLate(r) PROVE TypeInv'
  <2>1. r \in 1 .. ids /\ Receive(r) /\ UNCHANGED <<status, meta, pub, done, ids, history>>
        /\ late' \subseteq late
    BY <1>2, <1>4 DEF ServeLate, PostsType
  <2>2. Grow /\ DOMAIN posts' \subseteq 1 .. ids
        /\ \A x \in DOMAIN posts' : posts'[x] \in PostStates
    BY <2>1, ReceiveType
  <2>3. PostsType' BY <1>2, <2>1, <2>2 DEF PostsType, history
  <2> QED BY <1>2, <1>3, <2>1, <2>2, <2>3 DEF RecordType
<1>5. ASSUME NEW r \in RequestIds, Progress(r) PROVE TypeInv'
  <2>1. PICK s \in PostStates : posts' = [posts EXCEPT ![r] = s]
    BY <1>5 DEF Progress
  <2>2. posts[r] \notin {"failed", "published"}
    BY <1>5 DEF Progress
  <2>3. UNCHANGED <<status, meta, late, pub, done, ids, history>> BY <1>5 DEF Progress
  <2>4. PostsType' /\ Grow
    BY <1>1, <1>2, <2>1, <2>2, <2>3 DEF PostsType, Grow, history
  <2> QED BY <1>2, <1>3, <2>3, <2>4 DEF RecordType
<1>6. CASE (\E to \in Moves : Move(to)) \/ AutoTransition
  <2>1. UNCHANGED <<meta, posts, late, pub, done, ids, history>> BY <1>6 DEF Move, AutoTransition
  <2>2. status' \in Statuses
    BY <1>6, PublishingAssumption DEF Move, AutoTransition, Statuses
  <2>3. PostsType' /\ Grow BY <1>1, <1>2, <2>1 DEF PostsType, Grow, history
  <2> QED BY <1>3, <2>1, <2>2, <2>3
<1>7. ASSUME NEW c \in Completers, CompleteRead(c) \/ CompleteWrite(c) PROVE TypeInv'
  <2>1. UNCHANGED <<status, posts, late, pub, ids, history>>
    BY <1>7 DEF CompleteRead, CompleteWrite
  <2>2. meta' \in Metas /\ Sound(meta)'
    BY <1>2, <1>7, <2>1 DEF CompleteRead, CompleteWrite, RecordType, ReaderType, Sound
  <2>3. PICK v \in ReaderType : done' = [done EXCEPT ![c] = v] /\ (v.seen = meta \/ v.seen = NoMeta)
    <3>1. CASE CompleteRead(c)
      <4>1. [reading |-> TRUE, seen |-> meta] \in ReaderType
        BY <1>2 DEF RecordType, ReaderType
      <4> QED BY <3>1, <4>1 DEF CompleteRead
    <3>2. CASE CompleteWrite(c)
      <4>1. NotReading \in ReaderType /\ NotReading.seen = NoMeta
        BY NoMetaType DEF NotReading, ReaderType
      <4> QED BY <3>2, <4>1 DEF CompleteWrite
    <3> QED BY <1>7, <3>1, <3>2
  <2>4. Sound(v.seen)' BY <1>1, <1>2, <2>1, <2>3 DEF Sound, NoMeta
  <2>5. \A d \in Completers : Sound(done[d].seen)'
    BY <1>2, <2>1, <2>3, <2>4 DEF Sound
  <2>6. PostsType' /\ Grow /\ RecordType'
    BY <1>1, <1>2, <2>1, <2>2 DEF PostsType, Grow, RecordType, history
  <2>7. done' \in [Completers -> ReaderType] BY <1>2, <2>3
  <2> QED BY <2>1, <2>5, <2>6, <2>7, OtherStep
<1> QED BY <1>4, <1>5, <1>6, <1>7

LEMMA StopType ==
    ASSUME TypeInv, Stop
    PROVE  TypeInv'
<1>1. ids \in Nat /\ ids' = ids BY IdsType DEF Stop
<1>2. UNCHANGED <<status, meta, posts, history>> BY DEF Stop
<1>3. late' \subseteq 1 .. ids BY SentType DEF Stop, TypeInv, PostsType
<1>4. PostsType' /\ Grow /\ RecordType'
  BY <1>1, <1>2, <1>3 DEF TypeInv, PostsType, Grow, RecordType, Sound, history
<1>5. pub' \in [Publishers -> RequestType'] /\ \A p \in Publishers : RequestSound(pub[p])'
  <2>1. PICK v : v = Idle OBVIOUS
  <2>2. v \in RequestType' /\ RequestSound(v)'
    BY <1>1, <1>4, <2>1, IdleType, RequestGrows
  <2>3. \A p \in Publishers : pub'[p] = v BY <2>1 DEF Stop
  <2>4. pub' = [p \in Publishers |-> v] BY <2>1 DEF Stop
  <2> QED BY <2>2, <2>3, <2>4 DEF RequestSound, Sound, ReplySound
<1>6. done' \in [Completers -> ReaderType] /\ \A c \in Completers : Sound(done[c].seen)'
  BY <1>1, NoMetaType DEF Stop, NotReading, NoMeta, ReaderType, Sound
<1> QED BY <1>4, <1>5, <1>6 DEF TypeInv

LEMMA NextType == TypeInv /\ [Next]_vars => TypeInv'
<1> SUFFICES ASSUME TypeInv, [Next]_vars PROVE TypeInv'
  OBVIOUS
<1>1. CASE UNCHANGED vars
  <2>1. PostsType' /\ RecordType' BY <1>1 DEF vars, history, TypeInv, PostsType, RecordType, Sound
  <2>2. Grow BY <1>1, IdsType DEF vars, Grow
  <2> QED BY <1>1, <2>1, <2>2, ReadersStay, OtherStep DEF vars
<1>2. CASE Next
  BY <1>2, PublishType, OthersType, StopType DEF Next
<1> QED BY <1>1, <1>2

LEMMA TypeInvHolds == Spec => []TypeInv
<1>1. Init => TypeInv BY InitType
<1>2. TypeInv /\ [Next]_vars => TypeInv' BY NextType
<1> QED BY <1>1, <1>2, PTL DEF Spec

(* TypeOK holds in every reachable state.                                    *)
THEOREM TypeCorrect == Spec => []TypeOK
<1>1. TypeInv => TypeOK
  BY DEF TypeInv, TypeOK, PostsType, RecordType, RequestType, ReaderType, Sound, Ats
<1> QED BY <1>1, TypeInvHolds, PTL

-------------------------------------------------------------------------------
(* Published means out                                                       *)

LEMMA AdvancePublished ==
    ASSUME NEW from \in Statuses, NEW result, Advance(from, result) = "published"
    PROVE  from = "published" \/ result = "published"
BY DEF Advance, Statuses

(* The provider never takes a publication back, and an answer that was not   *)
(* understood stays so.                                                      *)
Out == \E r \in RequestIds : r \in unread \/ (r \in DOMAIN posts /\ posts[r] = "published")

LEMMA PostsKept ==
    ASSUME NEW r, NEW x \in DOMAIN posts, UNCHANGED posts \/ Receive(r)
    PROVE  x \in DOMAIN posts' /\ posts'[x] = posts[x]
BY DEF Receive, CreatePost

LEMMA OutStays ==
    ASSUME TypeInv, Next, Out
    PROVE  Out'
<1>1. unread \subseteq unread'
  BY DEF Next, Publish, Check, Refuse, Prepare, Serve, ServeUnread, Reject, Accept, Fail, Timeout,
         NetworkError, ServeLate, Progress, Move, AutoTransition, CompleteRead, CompleteWrite, Stop,
         history
<1>2. ASSUME NEW r \in RequestIds, r \in DOMAIN posts, posts[r] = "published"
      PROVE  r \in DOMAIN posts' /\ posts'[r] = "published"
  <2>1. ASSUME NEW p \in Publishers, Serve(p) \/ ServeUnread(p) \/ Reject(p)
        PROVE  r \in DOMAIN posts' /\ posts'[r] = "published"
    <3>1. UNCHANGED posts \/ Receive(pub[p].request) BY <2>1 DEF Serve, ServeUnread, Reject
    <3> QED BY <1>2, <3>1, PostsKept
  <2>2. ASSUME NEW x \in RequestIds, ServeLate(x) PROVE r \in DOMAIN posts' /\ posts'[r] = posts[r]
    BY <1>2, <2>2, PostsKept DEF ServeLate
  <2>3. ASSUME NEW x \in RequestIds, Progress(x) PROVE r \in DOMAIN posts' /\ posts'[r] = posts[r]
    BY <1>2, <2>3 DEF Progress
  <2>4. ASSUME UNCHANGED posts PROVE r \in DOMAIN posts' /\ posts'[r] = posts[r]
    BY <1>2, <2>4
  <2> QED
    BY <1>2, <2>1, <2>2, <2>3, <2>4
       DEF Next, Publish, Check, Refuse, Prepare, Accept, Fail, Timeout, NetworkError, Persist,
           Move, AutoTransition, CompleteRead, CompleteWrite, Stop
<1> QED BY <1>1, <1>2 DEF Out

LEMMA StatusBecomesPublished ==
    ASSUME "published" \notin Moves, TypeInv, Next, status' = "published", status # "published"
    PROVE  Out'
<1>1. PICK p \in Publishers : Accept(p) \/ Fail(p) \/ Timeout(p)
  BY DEF Next, Publish, Check, Refuse, Prepare, Serve, ServeUnread, Reject, NetworkError, ServeLate,
         Progress, Move, AutoTransition, CompleteRead, CompleteWrite, Stop
<1>2. status \in Statuses BY DEF TypeInv, RecordType
<1>3. Accept(p) /\ pub[p].reply.state = "published"
  BY <1>1, <1>2, AdvancePublished DEF Accept, Fail, Timeout, Persist
<1>4. /\ ReplySound(pub[p].request, pub[p].reply) /\ pub[p].request # 0
      /\ pub[p].request \in 0 .. ids
  BY <1>3 DEF Accept, TypeInv, RequestSound, RequestType
<1>5. pub[p].request \in RequestIds BY <1>4, IdsType
<1>6. CASE pub[p].reply.read
  BY <1>3, <1>4, <1>5, <1>6 DEF ReplySound, Accept, Persist, Out
<1>7. CASE ~pub[p].reply.read
  BY <1>3, <1>5, <1>7 DEF Accept, Out
<1> QED BY <1>6, <1>7

(* The lifecycle says published only of a record whose post is out, or after *)
(* an answer that _persist_publish_result took for a publication though it   *)
(* did not say so; unless a user moves the record there by hand.             *)
THEOREM PublishedIsOutHolds ==
    ASSUME "published" \notin Moves
    PROVE  Spec => []PublishedIsOut
<1>1. Init => PublishedIsOut BY DEF Init, PublishedIsOut
<1>2. TypeInv /\ PublishedIsOut /\ [Next]_vars => PublishedIsOut'
  <2> SUFFICES ASSUME TypeInv, PublishedIsOut, [Next]_vars, status' = "published" PROVE Out'
    BY DEF PublishedIsOut, Out
  <2>1. CASE UNCHANGED vars BY <2>1 DEF vars, history, PublishedIsOut, Out
  <2>2. CASE Next
    BY <2>2, OutStays, StatusBecomesPublished DEF PublishedIsOut, Out
  <2> QED BY <2>1, <2>2
<1> QED BY <1>1, <1>2, TypeInvHolds, PTL DEF Spec

-------------------------------------------------------------------------------
(* Every post is accounted for                                               *)

(* The ids the record must not lose: those that were given out, not disowned, *)
(* whose post did not fail. The post need not be there yet.                   *)
Alive(r) == r \in (1 .. ids) \ disowned /\ ~(r \in DOMAIN posts /\ posts[r] = "failed")

Kept(m) == \A r \in RequestIds : Alive(r) => Holds(m, r)

(* The metadata calls no post failed that is not. *)
Honest(m) == /\ m.state = "none" => m.post = 0
             /\ m.state = "failed" /\ m.post # 0 => /\ m.post \in DOMAIN posts
                                                    /\ posts[m.post] = "failed"

Retryable(m) == m.post # 0 => m.state \notin {"scheduled", "publishing", "published", "partial",
                                              "reconciliation_pending"}

Good(m) == Kept(m) /\ Honest(m)

Calling(q) == q.at \in {"posting", "answered", "refused"}

RequestGood(q) == /\ q.at = "checked" => Good(q.seen) /\ Retryable(q.seen)
                  /\ Calling(q) => \A r \in RequestIds : Alive(r) => r = q.request

(* The inductive invariant: whatever a handler may still write keeps hold of *)
(* the same ids as the record. Were it stated of the record alone, a stale   *)
(* write of complete_content or of a second publication could break it.      *)
AccountInv == /\ Good(meta)
              /\ \A p \in Publishers : RequestGood(pub[p])
              /\ \A c \in Completers : done[c].reading => Good(done[c].seen)

(* A step that gives out no id makes none alive. *)
NoneNew == (\A r \in RequestIds : Alive(r)' => Alive(r)) /\ Grow

LEMMA NoneNewByHistory ==
    ASSUME Grow, ids' = ids, disowned \subseteq disowned'
    PROVE  NoneNew
BY DEF NoneNew, Alive, Grow

LEMMA GoodStays ==
    ASSUME NEW m, Good(m), NoneNew
    PROVE  Good(m)'
BY DEF Good, Kept, Honest, NoneNew, Grow, Holds

LEMMA RequestGoodStays ==
    ASSUME NEW q, RequestGood(q), NoneNew
    PROVE  RequestGood(q)'
<1>1. q.at = "checked" => Good(q.seen)' /\ Retryable(q.seen)'
  BY GoodStays DEF RequestGood, Retryable
<1> QED BY <1>1 DEF RequestGood, NoneNew, Calling

(* A step of one publish request. *)
LEMMA RequestAccounts ==
    ASSUME TypeInv, AccountInv, NoneNew, UNCHANGED done, Good(meta)',
           NEW p \in Publishers, NEW v, RequestGood(v)', pub' = [pub EXCEPT ![p] = v]
    PROVE  AccountInv'
<1>1. ASSUME NEW q \in Publishers PROVE RequestGood(pub[q])'
  <2>1. CASE q = p
    <3>1. pub'[q] = v BY <2>1 DEF TypeInv
    <3> QED BY <3>1 DEF RequestGood, Good, Kept, Honest, Calling, Retryable
  <2>2. CASE q # p
    <3>1. PICK u : u = pub[q] OBVIOUS
    <3>2. RequestGood(u)' BY <3>1, RequestGoodStays DEF AccountInv
    <3>3. pub'[q] = u BY <2>2, <3>1 DEF TypeInv
    <3> QED BY <3>2, <3>3 DEF RequestGood, Good, Kept, Honest, Calling, Retryable
  <2> QED BY <2>1, <2>2
<1>2. \A c \in Completers : done'[c].reading => Good(done[c].seen)'
  BY GoodStays DEF AccountInv, Good, Kept, Honest
<1> QED BY <1>1, <1>2 DEF AccountInv

(* A step that is not a publish request's. *)
LEMMA OthersAccount ==
    ASSUME TypeInv, AccountInv, NoneNew, UNCHANGED pub, Good(meta)',
           \A c \in Completers : done'[c].reading => Good(done[c].seen)'
    PROVE  AccountInv'
<1>1. ASSUME NEW q \in Publishers PROVE RequestGood(pub[q])'
  <2>1. PICK u : u = pub[q] OBVIOUS
  <2>2. RequestGood(u)' BY <2>1, RequestGoodStays DEF AccountInv
  <2>3. pub'[q] = u BY <2>1
  <2> QED BY <2>2, <2>3 DEF RequestGood, Good, Kept, Honest, Calling, Retryable
<1> QED BY <1>1 DEF AccountInv

LEMMA NextGrows ==
    ASSUME TypeInv, Next
    PROVE  Grow /\ disowned \subseteq disowned'
<1>1. ids \in Nat BY IdsType
<1>2. ids' >= ids /\ disowned \subseteq disowned'
  <2>1. ASSUME NEW p \in Publishers, Prepare(p) PROVE ids' >= ids /\ disowned \subseteq disowned'
    BY <1>1, <2>1 DEF Prepare
  <2>2. ASSUME NEW p \in Publishers, Accept(p) \/ Fail(p)
        PROVE  ids' = ids /\ disowned \subseteq disowned'
    BY <2>2 DEF Accept, Fail, Persist, Disown, history
  <2>3. ASSUME NEW p \in Publishers, Publish(p) PROVE ids' >= ids /\ disowned \subseteq disowned'
    <3>1. CASE ~(Prepare(p) \/ Accept(p) \/ Fail(p))
      <4>1. ids' = ids /\ disowned' = disowned
        BY <2>3, <3>1 DEF Publish, Check, Refuse, Serve, ServeUnread, Reject, Timeout, NetworkError,
                         Persist, history
      <4> QED BY <1>1, <4>1
    <3> QED BY <1>1, <2>1, <2>2, <3>1
  <2>4. CASE ~\E p \in Publishers : Publish(p)
    <3>1. ids' = ids /\ disowned' = disowned
      BY <2>4 DEF Next, ServeLate, Progress, Move, AutoTransition, CompleteRead,
                       CompleteWrite, Stop, history
    <3> QED BY <1>1, <3>1
  <2> QED
    BY <2>3, <2>4
<1>3. ASSUME NEW r \in DOMAIN posts
      PROVE  /\ r \in DOMAIN posts'
             /\ posts[r] \in {"failed", "published"} => posts'[r] = posts[r]
  <2>1. ASSUME NEW p \in Publishers, Serve(p) \/ ServeUnread(p) \/ Reject(p)
        PROVE  r \in DOMAIN posts' /\ posts'[r] = posts[r]
    <3>1. UNCHANGED posts \/ Receive(pub[p].request) BY <2>1 DEF Serve, ServeUnread, Reject
    <3> QED BY <1>3, <3>1, PostsKept
  <2>2. ASSUME NEW x \in RequestIds, ServeLate(x) PROVE r \in DOMAIN posts' /\ posts'[r] = posts[r]
    BY <1>3, <2>2, PostsKept DEF ServeLate
  <2>3. ASSUME NEW x \in RequestIds, Progress(x)
        PROVE  /\ r \in DOMAIN posts'
               /\ posts[r] \in {"failed", "published"} => posts'[r] = posts[r]
    BY <1>3, <2>3 DEF Progress
  <2>4. CASE UNCHANGED posts BY <1>3, <2>4
  <2> QED
    BY <1>3, <2>1, <2>2, <2>3, <2>4
       DEF Next, Publish, Check, Refuse, Prepare, Accept, Fail, Timeout, NetworkError, Persist,
           Move, AutoTransition, CompleteRead, CompleteWrite, Stop
<1> QED BY <1>2, <1>3 DEF Grow

LEMMA PersistAccounts ==
    ASSUME TypeInv, AccountInv, NEW p \in Publishers, Waiting(p), NoneNew,
           NEW result, NEW post, Persist(p, result, post), result # "none",
           result = "failed" /\ post # 0 => post \in DOMAIN posts /\ posts[post] = "failed",
           \/ result \in Pending
           \/ post = pub[p].request
           \/ pub[p].request \in disowned'
    PROVE  AccountInv'
<1>1. meta' = [state |-> result, request |-> pub[p].request, post |-> post] /\ posts' = posts
      /\ pub' = [pub EXCEPT ![p] = Idle] /\ done' = done
  BY DEF Persist
<1>2. ASSUME NEW r \in RequestIds, Alive(r)' PROVE Holds(meta, r)'
  <2>1. Alive(r) /\ r \notin disowned' BY <1>2 DEF NoneNew, Alive
  <2>2. r = pub[p].request BY <2>1 DEF AccountInv, RequestGood, Calling, Waiting
  <2> QED BY <1>1, <2>1, <2>2 DEF Holds
<1>3. Good(meta)' BY <1>1, <1>2 DEF Good, Kept, Honest, Holds
<1>4. PICK v : v = Idle OBVIOUS
<1>5. RequestGood(v)' BY <1>4 DEF RequestGood, Idle, Calling
<1> QED BY <1>1, <1>3, <1>4, <1>5, RequestAccounts

LEMMA PrepareAccounts ==
    ASSUME TypeInv, AccountInv, NEW p \in Publishers, Prepare(p), Grow
    PROVE  AccountInv'
<1>1. /\ pub[p].at = "checked" /\ Good(pub[p].seen) /\ Retryable(pub[p].seen)
      /\ UNCHANGED <<posts, done>> /\ pub[p].seen \in Metas
  BY DEF Prepare, AccountInv, RequestGood, TypeInv, RequestType
<1>2. CASE Reuses(p) /\ UNCHANGED <<meta, ids, disowned>>
           /\ pub' = [pub EXCEPT ![p] = Posting(pub[p].seen.request)]
  <2>1. NoneNew BY <1>2, NoneNewByHistory
  <2>2. PICK v : v = Posting(pub[p].seen.request) OBVIOUS
  <2>3. v.at = "posting" /\ v.request = pub[p].seen.request BY <2>2 DEF Posting, Idle
  <2>4. RequestGood(v)'
    BY <1>1, <1>2, <2>1, <2>3 DEF RequestGood, Good, Kept, Holds, NoneNew, Calling
  <2>5. Good(meta)'
    BY <1>1, <1>2 DEF AccountInv, Good, Kept, Honest, Alive, Holds
  <2> QED BY <1>1, <1>2, <2>1, <2>2, <2>4, <2>5, RequestAccounts
<1>3. CASE /\ ~Reuses(p) /\ ids' = ids + 1
           /\ meta' = [pub[p].seen EXCEPT !.state = "prepared", !.request = ids + 1]
           /\ pub' = [pub EXCEPT ![p] = Posting(ids + 1)]
           /\ disowned' = IF OthersInHand(p) THEN disowned \cup {ids + 1} ELSE disowned
  <2>0. ids \in Nat BY IdsType
  <2>1. ASSUME NEW r \in RequestIds, Alive(r) PROVE FALSE
    <3>1. Holds(pub[p].seen, r) /\ r # 0 BY <1>1, <2>1 DEF Good, Kept, RequestIds
    <3>2. pub[p].seen.post = r /\ pub[p].seen.state \notin Pending
      BY <1>3, <3>1 DEF Holds, Reuses
    <3>3. pub[p].seen.state \in {"none", "failed"}
      BY <1>1, <3>1, <3>2, PublishingAssumption DEF Metas, Retryable, Pending
    <3>4. r \in DOMAIN posts /\ posts[r] = "failed"
      BY <1>1, <3>1, <3>2, <3>3 DEF Good, Honest
    <3> QED BY <2>1, <3>4 DEF Alive
  <2>2. ASSUME NEW r \in RequestIds, Alive(r)' PROVE r = ids + 1 /\ ~OthersInHand(p)
    <3>1. r \in 1 .. ids + 1 /\ r \notin disowned' BY <1>3, <2>2 DEF Alive
    <3>2. r \in 1 .. ids => Alive(r) BY <1>1, <1>3, <2>2, <3>1 DEF Alive
    <3>3. r = ids + 1 BY <2>0, <2>1, <3>1, <3>2
    <3> QED BY <1>3, <3>1, <3>3
  <2>3. meta'.state = "prepared" /\ meta'.request = ids + 1
    <3>1. PICK m \in Metas : m = pub[p].seen BY <1>1
    <3>2. meta' = [m EXCEPT !.state = "prepared", !.request = ids + 1] BY <1>3, <3>1
    <3> QED BY <3>2 DEF Metas
  <2>4. Good(meta)'
    BY <2>2, <2>3 DEF Good, Kept, Honest, Holds, Pending
  <2>5. RequestGood(pub[p])'
    <3>1. pub'[p].at = "posting" /\ pub'[p].request = ids + 1
      BY <1>3 DEF TypeInv, Posting, Idle
    <3> QED BY <2>2, <3>1 DEF RequestGood, Calling
  <2>6. ASSUME NEW q \in Publishers, q # p PROVE RequestGood(pub[q])'
    <3>1. pub'[q] = pub[q] BY <1>3, <2>6 DEF TypeInv
    <3>2. CASE pub[q].at = "idle" BY <3>1, <3>2 DEF RequestGood, Calling
    <3>3. CASE pub[q].at # "idle"
      <4>1. OthersInHand(p) BY <2>6, <3>3 DEF OthersInHand
      <4>2. Kept(pub[q].seen)' /\ \A r \in RequestIds : ~Alive(r)' BY <2>2, <4>1 DEF Kept
      <4>3. pub[q].at = "checked" => Honest(pub[q].seen)' /\ Retryable(pub[q].seen)'
        BY <1>1, <3>1 DEF AccountInv, RequestGood, Good, Honest, Retryable
      <4> QED BY <3>1, <4>2, <4>3 DEF RequestGood, Good
    <3> QED BY <3>2, <3>3
  <2>7. ASSUME NEW c \in Completers, done'[c].reading PROVE Good(done[c].seen)'
    <3>1. OthersInHand(p) BY <1>1, <2>7 DEF OthersInHand
    <3>2. Kept(done[c].seen)' BY <2>2, <3>1 DEF Kept
    <3>3. Honest(done[c].seen)' BY <1>1, <2>7 DEF AccountInv, Good, Honest
    <3> QED BY <3>2, <3>3 DEF Good
  <2> QED BY <2>4, <2>5, <2>6, <2>7 DEF AccountInv
<1> QED BY <1>2, <1>3 DEF Prepare

LEMMA PublishAccounts ==
    ASSUME TypeInv, AccountInv, NEW p \in Publishers, Publish(p), Grow,
           disowned \subseteq disowned'
    PROVE  AccountInv'
<1>1. RequestGood(pub[p]) /\ Good(meta) BY DEF AccountInv
<1>2. ~Prepare(p) => ids' = ids
  BY DEF Publish, Check, Refuse, Serve, ServeUnread, Reject, Accept, Fail, Timeout, NetworkError,
         Persist
<1>3. ~Prepare(p) => NoneNew BY <1>2, NoneNewByHistory
<1>4. ASSUME NoneNew, UNCHANGED meta PROVE Good(meta)'
  <2>1. PICK m : m = meta OBVIOUS
  <2>2. Good(m)' BY <1>1, <1>4, <2>1, GoodStays
  <2> QED BY <1>4, <2>1, <2>2 DEF Good, Kept, Honest
<1>5. CASE Check(p)
  <2>1. UNCHANGED <<meta, done>> /\ pub' = [pub EXCEPT ![p] = [Idle EXCEPT !.at = "checked", !.seen = meta]]
        /\ Retryable(meta) /\ ~Prepare(p)
    BY <1>5 DEF Check, MayPublish, Retryable, Prepare
  <2>2. PICK v : v = [Idle EXCEPT !.at = "checked", !.seen = meta] OBVIOUS
  <2>3. v.at = "checked" /\ v.seen = meta BY <2>2 DEF Idle
  <2>4. RequestGood(v)
    BY <1>1, <2>1, <2>3 DEF RequestGood, Calling
  <2>5. RequestGood(v)' BY <1>3, <2>1, <2>4, RequestGoodStays
  <2> QED BY <1>3, <1>4, <2>1, <2>2, <2>5, RequestAccounts
<1>6. CASE Refuse(p) \/ NetworkError(p)
  <2>1. UNCHANGED <<meta, done>> /\ pub' = [pub EXCEPT ![p] = Idle] /\ NoneNew
    <3>1. CASE Refuse(p) BY <3>1, NoneNewByHistory DEF Refuse
    <3>2. CASE NetworkError(p) BY <3>2, NoneNewByHistory DEF NetworkError
    <3> QED BY <1>6, <3>1, <3>2
  <2>2. PICK v : v = Idle OBVIOUS
  <2>3. RequestGood(v)' BY <2>2 DEF RequestGood, Idle, Calling
  <2> QED BY <1>4, <2>1, <2>2, <2>3, RequestAccounts
<1>7. CASE Prepare(p) BY <1>7, PrepareAccounts
<1>8. CASE Serve(p) \/ ServeUnread(p) \/ Reject(p)
  <2>1. UNCHANGED <<meta, done>> /\ pub[p].at = "posting" /\ ~Prepare(p)
    BY <1>8 DEF Serve, ServeUnread, Reject, Prepare
  <2>2. PICK v : pub' = [pub EXCEPT ![p] = v] /\ v.at \in {"answered", "refused"}
                 /\ v.request = pub[p].request
    <3>1. PICK q \in RequestType : q = pub[p] BY DEF TypeInv
    <3>2. CASE Serve(p) \/ ServeUnread(p)
      <4>1. PICK reply : pub' = [pub EXCEPT ![p].at = "answered", ![p].reply = reply]
        BY <3>2 DEF Serve, ServeUnread, Answer
      <4>2. PICK v : v = [q EXCEPT !.at = "answered", !.reply = reply] OBVIOUS
      <4>3. v.at = "answered" /\ v.request = q.request BY <4>2 DEF RequestType
      <4> QED BY <3>1, <4>1, <4>2, <4>3
    <3>3. CASE Reject(p)
      <4>1. PICK v : v = [q EXCEPT !.at = "refused"] OBVIOUS
      <4>2. v.at = "refused" /\ v.request = q.request BY <4>1 DEF RequestType
      <4> QED BY <3>1, <3>3, <4>1, <4>2 DEF Reject
    <3> QED BY <1>8, <3>2, <3>3
  <2>3. RequestGood(v)
    BY <1>1, <2>1, <2>2 DEF RequestGood, Calling
  <2>4. RequestGood(v)' BY <1>3, <2>1, <2>3, RequestGoodStays
  <2> QED BY <1>3, <1>4, <2>1, <2>2, <2>4, RequestAccounts
<1>9. Waiting(p) => ~Prepare(p) BY DEF Waiting, Prepare
<1>10. CASE Accept(p)
  <2>1. /\ ReplySound(pub[p].request, pub[p].reply) /\ pub[p].request # 0 /\ Waiting(p)
    BY <1>10 DEF Accept, TypeInv, RequestSound, Waiting
  <2>2. /\ pub[p].reply.state # "none"
        /\ pub[p].reply.read => /\ pub[p].reply.post = pub[p].request
                                /\ pub[p].reply.state = "failed" => posts[pub[p].request] = "failed"
        /\ pub[p].reply.post # 0 => pub[p].reply.post \in DOMAIN posts
    BY <2>1, PublishingAssumption DEF ReplySound
  <2>3. CASE pub[p].reply.read
    BY <1>3, <1>9, <1>10, <2>1, <2>2, <2>3, PersistAccounts DEF Accept
  <2>4. CASE ~pub[p].reply.read
    <3>1. pub[p].request \in disowned' BY <1>10, <2>4 DEF Accept, Disown
    <3>2. pub[p].reply.state # "failed"
      BY <2>1, <2>4 DEF ReplySound
    <3> QED BY <1>3, <1>9, <1>10, <2>1, <2>2, <3>1, <3>2, PersistAccounts DEF Accept
  <2> QED BY <2>3, <2>4
<1>11. CASE Fail(p)
  <2>1. Waiting(p) /\ pub[p].request \in disowned' BY <1>11 DEF Fail, Waiting, Disown
  <2> QED BY <1>3, <1>9, <1>11, <2>1, PersistAccounts DEF Fail
<1>12. CASE Timeout(p)
  <2>1. Waiting(p) BY <1>12 DEF Timeout
  <2> QED BY <1>3, <1>9, <1>12, <2>1, PersistAccounts DEF Timeout, Pending
<1> QED BY <1>5, <1>6, <1>7, <1>8, <1>10, <1>11, <1>12 DEF Publish

LEMMA NextAccounts == TypeInv /\ AccountInv /\ [Next]_vars => AccountInv'
<1> SUFFICES ASSUME TypeInv, AccountInv, [Next]_vars PROVE AccountInv'
  OBVIOUS
<1>1. CASE UNCHANGED vars
  BY <1>1 DEF vars, history, AccountInv, RequestGood, Good, Kept, Honest, Alive, Holds, Calling,
              Retryable
<1>2. CASE Next
  <2>1. Grow /\ disowned \subseteq disowned' BY <1>2, NextGrows
  <2>2. ASSUME NEW p \in Publishers, Publish(p) PROVE AccountInv'
    BY <2>1, <2>2, PublishAccounts
  <2>3. ASSUME ids' = ids, UNCHANGED <<meta, pub, done>> PROVE AccountInv'
    <3>1. NoneNew BY <2>1, <2>3, NoneNewByHistory
    <3>2. Good(meta)' /\ \A c \in Completers : done'[c].reading => Good(done[c].seen)'
      BY <2>3, <3>1, GoodStays DEF AccountInv, Good, Kept, Honest
    <3> QED BY <2>3, <3>1, <3>2, OthersAccount
  <2>4. ASSUME NEW c \in Completers, CompleteRead(c) \/ CompleteWrite(c) PROVE AccountInv'
    <3>1. UNCHANGED <<ids, pub, posts, history>> BY <2>4 DEF CompleteRead, CompleteWrite
    <3>2. NoneNew BY <2>1, <3>1, NoneNewByHistory
    <3>3. Good(meta') BY <2>4 DEF CompleteRead, CompleteWrite, AccountInv
    <3>4. \A d \in Completers : done'[d].reading => Good(done'[d].seen)
      BY <2>4 DEF CompleteRead, CompleteWrite, AccountInv, NotReading, TypeInv, ReaderType
    <3>5. Good(meta)' /\ \A d \in Completers : done'[d].reading => Good(done[d].seen)'
      BY <3>1, <3>3, <3>4 DEF Good, Kept, Honest, Alive, Holds, history
    <3> QED BY <3>1, <3>2, <3>5, OthersAccount
  <2>5. CASE Stop
    <3>1. /\ UNCHANGED <<ids, meta, posts, history>>
          /\ \A p \in Publishers : pub'[p] = Idle
          /\ \A c \in Completers : ~done'[c].reading
      BY <2>5 DEF Stop, NotReading
    <3>2. Good(meta)'
      BY <3>1 DEF AccountInv, Good, Kept, Honest, Alive, Holds, history
    <3>3. \A p \in Publishers : RequestGood(pub[p])'
      BY <3>1 DEF RequestGood, Idle, Calling
    <3> QED BY <3>1, <3>2, <3>3 DEF AccountInv
  <2> QED
    BY <1>2, <2>2, <2>3, <2>4, <2>5 DEF Next, ServeLate, Progress, Move, AutoTransition
<1> QED BY <1>1, <1>2

(* Whatever times out, breaks off, comes late or is written back, the record *)
(* keeps hold of every live post (publish_content,                           *)
(* _prepare_provider_request_id, complete_content) but those PostAccountedFor *)
(* names: of an id made while another handler had the record in hand, or     *)
(* given up on a refusal or on an answer that says nothing of the post.      *)
THEOREM PostAccountedForHolds == Spec => []PostAccountedFor
<1>1. Init => AccountInv
  <2> SUFFICES ASSUME Init PROVE AccountInv
    OBVIOUS
  <2>1. ids = 0 /\ meta.state = "none" /\ meta.post = 0 BY DEF Init, NoMeta
  <2>2. \A r \in RequestIds : ~Alive(r) BY <2>1 DEF Alive
  <2>3. Good(meta) BY <2>1, <2>2 DEF Good, Kept, Honest
  <2>4. \A p \in Publishers : RequestGood(pub[p]) BY DEF Init, RequestGood, Idle, Calling
  <2>5. \A c \in Completers : ~done[c].reading BY DEF Init, NotReading
  <2> QED BY <2>3, <2>4, <2>5 DEF AccountInv
<1>2. TypeInv /\ AccountInv /\ [Next]_vars => AccountInv' BY NextAccounts
<1>3. TypeInv /\ AccountInv => PostAccountedFor
  BY DEF AccountInv, Good, Kept, Alive, PostAccountedFor, Live, TypeInv, PostsType
<1> QED BY <1>1, <1>2, <1>3, TypeInvHolds, PTL DEF Spec
===============================================================================
