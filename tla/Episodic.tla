------------------------------ MODULE Episodic ------------------------------
(***************************************************************************)
(* Episodic memory of one user: the points that write_conversation,        *)
(* forget_conversation (memory/episodic.py) and the maintenance jobs       *)
(* (jobs/dedup.py, jobs/resummarize.py) put into one vector store and take *)
(* out of it.  Each of them reads, awaits a model or an embedder, and then *)
(* writes with store_write, whose failed attempts may have been done; a    *)
(* delete reads the owners first (stores/qdrant_vectors.py; the in-memory  *)
(* store is the case in which nothing comes between).  Summaries, written  *)
(* by a model, are taken to keep what they summarize.                      *)
(***************************************************************************)
EXTENDS Components, Sequences, SequencesExt

CONSTANTS
  EConvs,      \* conversations
  Writers,     \* who finalizes: WebSocket handlers, the idle sweep
  MaxMoments,  \* EpisodicMemoryConfig.max_flagged_moments
  MaxPoints,   \* DeduplicationConfig.max_points_per_user
  MaxEvents    \* bound: turns and maintenance jobs, which run one at a time

\* max_flagged_moments is a count of threads.
ASSUME EpisodicAssumption == MaxMoments \in Nat

VARIABLES
  points,    \* the collection: from the ids that are there to the turns in each
  sess,      \* the turns in each conversation's session
  talked,    \* turns so far
  writer,    \* the write_conversation calls under way
  forget,    \* the forget_conversation call under way
  job,       \* the maintenance job under way
  jobs,      \* jobs started
  crossed,   \* conversations written while something was deleting their points
  forgotten  \* conversations forgotten while nothing else was under way on them

episodicVars ==
  <<points, sess, talked, writer, forget, job, jobs, crossed, forgotten>>

ConvPoint(c) == <<"conv", c>>
Moment(c, i) == <<"moment", c, i>>
MomentsOf(c) == {Moment(c, i) : i \in 0..(MaxMoments - 1)}
IsMoment(id) == id[1] = "moment"
Stored == DOMAIN points
Conversations == {id \in Stored : ~IsMoment(id)}  \* list_points(kind="conversation")

NoWriter == [stage |-> "idle", conv |-> "none", text |-> {}]
NoForget == [stage |-> "idle", conv |-> "none", owned |-> {}, alone |-> TRUE]
NoJob == [stage |-> "idle", read |-> <<>>, moments |-> {}, todo |-> {}, group |-> {},
          owned |-> {}]

Events == jobs + MapThenSumSet(LAMBDA c : talked[c], EConvs)
Writing(c) == \E w \in Writers : writer[w].stage # "idle" /\ writer[w].conv = c

\* VectorStore.add replaces points of the same id, delete removes those it saw.
Add(new) ==
  points' = [id \in Stored \cup DOMAIN new |-> IF id \in DOMAIN new THEN new[id] ELSE points[id]]
Delete(ids) == points' = [id \in Stored \ ids |-> points[id]]

\* store_write after a failed attempt: the next one, or the call gives up.  The
\* attempts are not counted, so that any RetryPolicy.max_retries is covered.
Retried(call, none) == {call, none}

-----------------------------------------------------------------------------
(* Sessions.                                                               *)

\* A turn, of the session there is or, after the TTL, of a new one.
Talk(c, session) ==
  /\ Events < MaxEvents
  /\ talked' = [talked EXCEPT ![c] = @ + 1]
  /\ sess' = [sess EXCEPT ![c] = session \cup {<<c, talked'[c]>>}]
  /\ UNCHANGED <<points, writer, forget, job, jobs, crossed, forgotten>>

-----------------------------------------------------------------------------
(* write_conversation.                                                     *)

\* The text of the session as it is now; an empty one is not written.
WriteBegins(w, c) ==
  /\ writer[w] = NoWriter
  /\ sess[c] # {}
  /\ writer' = [writer EXCEPT ![w] =
                  [stage |-> "add", conv |-> c, text |-> sess[c]]]
  /\ forgotten' = forgotten \ {c}
  /\ crossed' = IF job # NoJob \/ forget.conv = c THEN crossed \cup {c} ELSE crossed
  /\ forget' = [forget EXCEPT !.alone = @ /\ forget.conv # c]
  /\ UNCHANGED <<points, sess, talked, job, jobs>>

AddConversation(w) == Add([id \in {ConvPoint(writer[w].conv)} |-> writer[w].text])

WriteConversation(w) ==
  /\ writer[w].stage = "add"
  /\ AddConversation(w)
  /\ writer' = [writer EXCEPT ![w].stage = "moments"]
  /\ UNCHANGED <<sess, talked, forget, job, jobs, crossed, forgotten>>

\* The model finds n threads worth a point, none if it fails or is switched off.
AddMoments(w, n) == Add([id \in {Moment(writer[w].conv, i) : i \in 0..(n - 1)} |-> {}])

WriteMoments(w, n) ==
  /\ writer[w].stage = "moments"
  /\ AddMoments(w, n)
  /\ writer' = [writer EXCEPT ![w] = NoWriter]
  /\ UNCHANGED <<sess, talked, forget, job, jobs, crossed, forgotten>>

\* The embedder raises, or an attempt of store_write, done or not.
WriteFails(w) ==
  /\ \/ writer[w].stage = "add" /\ (AddConversation(w) \/ UNCHANGED points)
     \/ writer[w].stage = "moments"
          /\ ((\E n \in 1..MaxMoments : AddMoments(w, n)) \/ UNCHANGED points)
  /\ \E next \in Retried(writer[w], NoWriter) : writer' = [writer EXCEPT ![w] = next]
  /\ UNCHANGED <<sess, talked, forget, job, jobs, crossed, forgotten>>

-----------------------------------------------------------------------------
(* forget_conversation, which leaves the session alone.                    *)

\* A bug to catch: only the conversation's own point.
ForgetsPointOnly(c) == {ConvPoint(c)}

ForgetIds(c) == {ConvPoint(c)} \cup MomentsOf(c)

\* The delete's read of the points and their owner.
ForgetLooks(c) ==
  /\ forget.stage \in {"idle", "look"}
  /\ forget.stage = "look" => forget.conv = c
  /\ forget' = [stage |-> "delete", conv |-> c, owned |-> ForgetIds(c) \cap Stored,
                alone |-> forget.alone /\ job = NoJob /\ ~Writing(c)]
  /\ crossed' = IF Writing(c) THEN crossed \cup {c} ELSE crossed
  /\ UNCHANGED <<points, sess, talked, writer, job, jobs, forgotten>>

Forgets ==
  /\ forget.stage = "delete"
  /\ Delete(forget.owned)
  /\ forget' = NoForget
  /\ forgotten' = IF forget.alone THEN forgotten \cup {forget.conv} ELSE forgotten
  /\ UNCHANGED <<sess, talked, writer, job, jobs, crossed>>

ForgetFails ==
  /\ forget.stage = "delete"
  /\ Delete(forget.owned) \/ UNCHANGED points
  /\ forget' \in Retried([forget EXCEPT !.stage = "look"], NoForget)
  /\ UNCHANGED <<sess, talked, writer, job, jobs, crossed, forgotten>>

-----------------------------------------------------------------------------
(* The maintenance jobs.                                                   *)

\* load_all_user_points(kind="conversation"): of these dedup takes the newest
\* MaxPoints, any that many, as times are left out; resummarize those that are old
\* enough and that the model and the embedder manage.  It is taken as one step; the
\* code awaits a page of 256 points at a time (jobs/_base.py:18-23).
JobScans(kind, taken) ==
  /\ job = NoJob /\ Events < MaxEvents
  /\ taken \subseteq Conversations
  /\ Cardinality(taken) <= MaxPoints
  /\ kind = "dedup" => taken = Conversations \/ Cardinality(taken) = MaxPoints
  /\ job' = [NoJob EXCEPT !.stage = kind, !.read = [id \in taken |-> points[id]]]
  /\ jobs' = jobs + 1
  /\ crossed' = crossed \cup {c \in EConvs : Writing(c)}
  /\ forget' = [forget EXCEPT !.alone = @ /\ forget = NoForget]
  /\ UNCHANGED <<points, sess, talked, writer, forgotten>>

\* The second scan, of the moments; then the groups of similar points, for any
\* similarities, less those whose merge or embedding fails.
DedupMerges ==
  /\ job.stage = "dedup"
  /\ LET read == DOMAIN job.read
     IN  \E edges \in SUBSET (read \X read) : \E done \in SUBSET MergeGroups(read, edges) :
           job' = [job EXCEPT !.stage = "next", !.todo = done,
                              !.moments = {id \in Stored : IsMoment(id)}]
  /\ UNCHANGED <<points, sess, talked, writer, forget, jobs, crossed, forgotten>>

\* What a source is called in the merged point: its conversation, or, for a point
\* that was itself merged and has none, its id.  The id of the merged point is made
\* of the sources' names, in any order: of the sources, as names tell them apart, if
\* no name has the ":" in it that joins them (dedup.py:235).
Name(id) == IF id[1] = "conv" THEN id[2] ELSE id
Merged(group) == <<"dedup", group>>
MergedText(group) == UNION {job.read[id] : id \in group}

\* A bug to catch: the moments of the merged conversations stay.
DeleteSources(group) == group

\* The sources and the moments that were found of them.
DeleteIds(group) ==
  group \cup {id \in job.moments : \E source \in group : Name(source) = id[2]}

DedupNext ==
  /\ job.stage = "next"
  /\ IF job.todo = {} THEN job' = NoJob
     ELSE \E group \in job.todo :
            job' = [job EXCEPT !.stage = "add", !.group = group, !.todo = @ \ {group}]
  /\ UNCHANGED <<points, sess, talked, writer, forget, jobs, crossed, forgotten>>

\* The stages in which the job writes, and what an attempt does there: the merged
\* point is added, its sources are deleted, or the refreshed points written back.
JobWrites ==
  \/ job.stage = "add" /\ Add([id \in {Merged(job.group)} |-> MergedText(job.group)])
  \/ job.stage = "delete" /\ Delete(job.owned)
  \/ job.stage = "resummarize" /\ Add(job.read)

JobDone ==
  /\ JobWrites
  /\ job' = CASE job.stage = "add"         -> [job EXCEPT !.stage = "look"]
              [] job.stage = "delete"      -> [job EXCEPT !.stage = "next"]
              [] job.stage = "resummarize" -> NoJob
  /\ UNCHANGED <<sess, talked, writer, forget, jobs, crossed, forgotten>>

DedupLooks ==
  /\ job.stage = "look"
  /\ job' = [job EXCEPT !.stage = "delete", !.owned = DeleteIds(job.group) \cap Stored]
  /\ UNCHANGED <<points, sess, talked, writer, forget, jobs, crossed, forgotten>>

\* A bug to catch: a write that fails is logged, and the job goes on.
JobGoesOn ==
  /\ job.stage \in {"add", "delete", "resummarize"}
  /\ JobWrites \/ UNCHANGED points
  /\ job' = IF job.stage = "add" THEN [job EXCEPT !.stage = "look"] ELSE NoJob
  /\ UNCHANGED <<sess, talked, writer, forget, jobs, crossed, forgotten>>

\* An attempt fails, done or not; the last one ends the job for this user.
JobFails ==
  /\ job.stage \in {"add", "delete", "resummarize"}
  /\ JobWrites \/ UNCHANGED points
  /\ job' \in Retried(IF job.stage = "delete" THEN [job EXCEPT !.stage = "look"] ELSE job, NoJob)
  /\ UNCHANGED <<sess, talked, writer, forget, jobs, crossed, forgotten>>

\* The process is killed, or anything outside store_write raises.
JobDies ==
  /\ job # NoJob
  /\ job' = NoJob
  /\ UNCHANGED <<points, sess, talked, writer, forget, jobs, crossed, forgotten>>

-----------------------------------------------------------------------------
EpisodicInit ==
  /\ points = <<>>
  /\ sess = [c \in EConvs |-> {}]
  /\ talked = [c \in EConvs |-> 0]
  /\ writer = [w \in Writers |-> NoWriter]
  /\ forget = NoForget
  /\ job = NoJob
  /\ jobs = 0
  /\ crossed = {}
  /\ forgotten = {}

EpisodicNext ==
  \/ \E c \in EConvs : Talk(c, sess[c]) \/ Talk(c, {}) \/ ForgetLooks(c)
  \/ \E w \in Writers :
       \/ \E c \in EConvs : WriteBegins(w, c)
       \/ WriteConversation(w)
       \/ \E n \in 0..MaxMoments : WriteMoments(w, n)
       \/ WriteFails(w)
  \/ Forgets \/ ForgetFails
  \/ \E kind \in {"dedup", "resummarize"}, taken \in SUBSET Conversations :
       JobScans(kind, taken)
  \/ DedupMerges \/ DedupNext \/ DedupLooks
  \/ JobDone \/ JobFails \/ JobDies

EpisodicSpec == EpisodicInit /\ [][EpisodicNext]_episodicVars

-----------------------------------------------------------------------------
(* Properties.                                                             *)

ETurnIds == EConvs \X (Nat \ {0})

\* The collection holds texts under the ids of conversations, of merges and of
\* moments; the calls under way keep their shape.
EpisodicTypeOK ==
  /\ \A id \in Stored :
       /\ points[id] \subseteq ETurnIds
       /\ id[1] = "dedup" \/ \E c \in EConvs : id \in {ConvPoint(c)} \cup MomentsOf(c)
  /\ sess \in [EConvs -> SUBSET ETurnIds] /\ talked \in [EConvs -> Nat]
  /\ writer \in [Writers -> [stage : {"idle", "add", "moments"}, conv : EConvs \cup {"none"},
                             text : SUBSET ETurnIds]]
  /\ forget.stage \in {"idle", "look", "delete"}
  /\ job.stage \in {"idle", "dedup", "next", "add", "look", "delete", "resummarize"}
  /\ \A id \in DOMAIN job.read : ~IsMoment(id) /\ job.read[id] \subseteq ETurnIds
  /\ job.group \subseteq DOMAIN job.read
  /\ crossed \subseteq EConvs /\ forgotten \subseteq EConvs

\* What a search can still bring back.
Recalled == UNION {points[id] : id \in Conversations}

\* The ways a turn t may stop being recallable.  A newer session of its own
\* conversation replaces the point;
Rewritten(t) ==
  /\ \E w \in Writers : writer[w].stage = "add" /\ writer[w].conv = t[1]
  /\ ConvPoint(t[1]) \in Stored /\ t \in points[ConvPoint(t[1])]

\* the conversation is forgotten;
Forgotten(t) == forget.stage = "delete" /\ t[1] = forget.conv

\* a job overwrites or deletes a point it has read, with something in it that was
\* not there then;
GoneStale(t) ==
  IF job.stage = "resummarize"
    THEN \E id \in DOMAIN job.read \cap Stored : t \in points[id] \ job.read[id]
    ELSE /\ job.stage \in {"add", "delete"}
         /\ t \notin MergedText(job.group)
         /\ \E id \in job.group \cap Stored : t \in points[id]

\* or the merge takes the id, and so the place, of an earlier merge of the same
\* conversations, which is not among its sources (dedup.py:233-236).
Replaced(t) ==
  /\ job.stage = "add"
  /\ Merged(job.group) \in Stored \ job.group
  /\ t \in points[Merged(job.group)]

\* "All operations are idempotent or append-only so re-running a job is safe"
\* (jobs-offline.md:72): whatever fails, is retried or killed, and whatever runs
\* beside it, a job never costs the user a turn it has read, nor any of a point
\* it does not work on (dedup.py:184-213).
RecallKept ==
  [][\A t \in Recalled \ Recalled' :
       Rewritten(t) \/ Forgotten(t) \/ GoneStale(t) \/ Replaced(t)]_episodicVars

\* A moment is stored beside the conversation it is taken from
\* (episodic.py:163-190), and goes with it when that is merged or forgotten, unless
\* the two overlap.
MomentsHaveParent ==
  \A c \in EConvs \ crossed : MomentsOf(c) \cap Stored # {} => ConvPoint(c) \in Stored

\* Once a conversation is forgotten, with nothing else under way on it, neither a
\* job nor an old finalization brings a point of its own back (episodic.py:102-124):
\* only a new finalization of the session, which is not deleted, does.  What a
\* merge has taken over stays: a merged point has no conversation to forget it by.
ForgottenStays ==
  \A c \in forgotten, id \in Stored :
    id[2] = c \/ (\E t \in points[id] : t[1] = c) => id[1] = "dedup"
=============================================================================
