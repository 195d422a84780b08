--------------------------- MODULE EpisodicProofs ---------------------------
(***************************************************************************)
(* What Episodic promises of the points of one user, for any               *)
(* conversations, finalizers, counts of moments, sizes and failures.       *)
(***************************************************************************)
EXTENDS MCStores, StoresProofs, FiniteSetTheorems, WellFoundedInduction, TLAPS

-----------------------------------------------------------------------------
(* The shape of the state.                                                 *)

TurnsOf(c) == {c} \X (Nat \ {0})

\* The three kinds of points, and what a turn in each can be of.
Shaped(id, text) ==
  \/ id[1] = "dedup" /\ text \subseteq ETurnIds
  \/ \E c \in EConvs : id = ConvPoint(c) /\ text \subseteq TurnsOf(c)
  \/ \E c \in EConvs : id \in MomentsOf(c) /\ text = {}

PointsShaped == IsFiniteSet(Stored) /\ \A id \in Stored : Shaped(id, points[id])

SessionsShaped ==
  /\ talked \in [EConvs -> Nat]
  /\ sess \in [EConvs -> SUBSET ETurnIds]
  /\ \A c \in EConvs : sess[c] \subseteq TurnsOf(c)

WritersShaped ==
  /\ writer \in [Writers -> [stage : {"idle", "add", "moments"}, conv : EConvs \cup {"none"},
                            text : SUBSET ETurnIds]]
  /\ \A w \in Writers :
       \/ writer[w] = NoWriter
       \/ /\ writer[w].stage # "idle"
          /\ writer[w].conv \in EConvs
          /\ writer[w].text \subseteq TurnsOf(writer[w].conv)

ForgetShaped ==
  /\ forget = [stage |-> forget.stage, conv |-> forget.conv, owned |-> forget.owned,
               alone |-> forget.alone]
  /\ forget.stage \in {"idle", "look", "delete"}
  /\ forget.alone \in BOOLEAN
  /\ forget.stage # "idle" => forget.conv \in EConvs
  /\ forget.stage = "delete" => forget.owned \subseteq ForgetIds(forget.conv)

JobRecord(stage, read, moments, left, group, owned) ==
  [stage |-> stage, read |-> read, moments |-> moments, todo |-> left, group |-> group,
   owned |-> owned]

JobShaped ==
  /\ job = JobRecord(job.stage, job.read, job.moments, job.todo, job.group, job.owned)
  /\ job.stage \in {"idle", "dedup", "next", "add", "look", "delete", "resummarize"}
  /\ job.stage = "idle" => job = NoJob
  /\ IsFiniteSet(DOMAIN job.read)
  /\ \A id \in DOMAIN job.read : ~IsMoment(id) /\ Shaped(id, job.read[id])
  /\ \A id \in job.moments : IsMoment(id)
  /\ job.todo \subseteq SUBSET DOMAIN job.read
  /\ job.group \subseteq DOMAIN job.read
  /\ job.stage = "delete" => job.owned \subseteq DeleteIds(job.group)

MarksShaped == crossed \subseteq EConvs /\ forgotten \subseteq EConvs

ShapeInv ==
  /\ PointsShaped /\ SessionsShaped /\ WritersShaped /\ ForgetShaped /\ JobShaped
  /\ MarksShaped

\* The ids of the three kinds are told apart by what they begin with.
LEMMA IdsDiffer ==
  /\ \A c : ~IsMoment(ConvPoint(c)) /\ ConvPoint(c)[1] = "conv" /\ ConvPoint(c)[2] = c
  /\ \A c, i : IsMoment(Moment(c, i)) /\ Moment(c, i)[2] = c
  /\ \A g : ~IsMoment(Merged(g)) /\ Merged(g)[1] = "dedup"
BY DEF ConvPoint, Moment, Merged, IsMoment

\* A moment is of one conversation.
LEMMA MomentIds ==
  \A c : \A id \in MomentsOf(c) : IsMoment(id) /\ id[2] = c /\ id[1] = "moment"
BY DEF MomentsOf, Moment, IsMoment

\* Adding points with a finite set of ids, each of its shape, keeps the shape.
LEMMA AddKeepsShape ==
  ASSUME PointsShaped, NEW new, Add(new), IsFiniteSet(DOMAIN new),
         \A id \in DOMAIN new : Shaped(id, new[id])
  PROVE  PointsShaped'
<1>1. points' = [id \in Stored \cup DOMAIN new |-> IF id \in DOMAIN new THEN new[id] ELSE points[id]]
  BY DEF Add
<1>2. DOMAIN points' = Stored \cup DOMAIN new
  BY <1>1
<1>3. IsFiniteSet(Stored \cup DOMAIN new)
  BY FS_Union DEF PointsShaped
<1>4. \A id \in Stored \cup DOMAIN new : Shaped(id, points'[id])
  BY <1>1 DEF PointsShaped
<1> QED BY <1>2, <1>3, <1>4 DEF PointsShaped, Stored, Shaped, ETurnIds, ConvPoint, MomentsOf, Moment, TurnsOf

\* So does a delete.
LEMMA DeleteKeepsShape ==
  ASSUME PointsShaped, NEW ids, Delete(ids)
  PROVE  PointsShaped'
<1>1. DOMAIN points' = Stored \ ids /\ \A id \in Stored \ ids : points'[id] = points[id]
  BY DEF Delete
<1>2. IsFiniteSet(Stored \ ids)
  BY FS_Subset DEF PointsShaped
<1> QED BY <1>1, <1>2 DEF PointsShaped, Stored, Shaped, ETurnIds, ConvPoint, MomentsOf, Moment, TurnsOf

\* The point of a conversation that is being written has its shape;
LEMMA ConversationShaped ==
  ASSUME ShapeInv, NEW w \in Writers, writer[w].stage = "add", AddConversation(w)
  PROVE  PointsShaped'
<1> DEFINE new == [id \in {ConvPoint(writer[w].conv)} |-> writer[w].text]
<1>1. writer[w].conv \in EConvs /\ writer[w].text \subseteq TurnsOf(writer[w].conv)
  BY DEF ShapeInv, WritersShaped, NoWriter
<1>2. \A id \in DOMAIN new : Shaped(id, new[id])
  BY <1>1 DEF Shaped
<1>3. IsFiniteSet(DOMAIN new)
  BY FS_Singleton
<1>4. Add(new)
  BY DEF AddConversation
<1> HIDE DEF new
<1> QED BY <1>2, <1>3, <1>4, AddKeepsShape DEF ShapeInv

\* so have its moments.
LEMMA MomentsShaped ==
  ASSUME ShapeInv, EpisodicAssumption, NEW w \in Writers, writer[w].stage = "moments",
         NEW n \in 0..MaxMoments, AddMoments(w, n)
  PROVE  PointsShaped'
<1> DEFINE ids == {Moment(writer[w].conv, i) : i \in 0..(n - 1)}
           new == [id \in ids |-> {}]
<1>1. writer[w].conv \in EConvs
  BY DEF ShapeInv, WritersShaped, NoWriter
<1>2. ids \subseteq MomentsOf(writer[w].conv)
  BY DEF MomentsOf, EpisodicAssumption
<1>3. \A id \in DOMAIN new : Shaped(id, new[id])
  BY <1>1, <1>2 DEF Shaped
<1>4. IsFiniteSet(0..(n - 1))
  <2>1. n - 1 \in Int /\ 0 \in Int
    BY DEF EpisodicAssumption
  <2> QED BY <2>1, FS_Interval
<1>5. IsFiniteSet(ids)
  <2>1. [i \in 0..(n - 1) |-> Moment(writer[w].conv, i)] \in Surjection(0..(n - 1), ids)
    BY DEF Surjection
  <2> QED BY <1>4, <2>1, FS_Surjection
<1>6. Add(new)
  BY DEF AddMoments
<1>7. DOMAIN new = ids
  OBVIOUS
<1> HIDE DEF new, ids
<1> QED BY <1>3, <1>5, <1>6, <1>7, AddKeepsShape DEF ShapeInv

\* And so have the points a job writes.
LEMMA JobWritesShaped ==
  ASSUME ShapeInv, JobWrites
  PROVE  PointsShaped'
<1>1. CASE job.stage = "add" /\ Add([id \in {Merged(job.group)} |-> MergedText(job.group)])
  <2> DEFINE new == [id \in {Merged(job.group)} |-> MergedText(job.group)]
  <2>1. \A id \in job.group : job.read[id] \subseteq ETurnIds
    BY DEF ShapeInv, JobShaped, Shaped, ETurnIds, TurnsOf
  <2>2. MergedText(job.group) \subseteq ETurnIds
    BY <2>1 DEF MergedText
  <2>3. \A id \in DOMAIN new : Shaped(id, new[id])
    BY <2>2, IdsDiffer DEF Shaped
  <2>4. IsFiniteSet(DOMAIN new)
    BY FS_Singleton
  <2>5. Add(new)
    BY <1>1
  <2> HIDE DEF new
  <2> QED BY <2>3, <2>4, <2>5, AddKeepsShape DEF ShapeInv
<1>2. CASE job.stage = "delete" /\ Delete(job.owned)
  <2>1. PICK ids : Delete(ids)
    BY <1>2
  <2> QED BY <2>1, DeleteKeepsShape DEF ShapeInv
<1>3. CASE job.stage = "resummarize" /\ Add(job.read)
  <2>1. PICK new : new = job.read
    OBVIOUS
  <2>2. Add(new) /\ IsFiniteSet(DOMAIN new) /\ \A id \in DOMAIN new : Shaped(id, new[id])
    BY <1>3, <2>1 DEF ShapeInv, JobShaped
  <2> QED BY <2>2, AddKeepsShape DEF ShapeInv
<1> QED BY <1>1, <1>2, <1>3 DEF JobWrites

\* The groups are of the points they were made from.
LEMMA GroupsAreOfPoints ==
  \A nodes, edges : \A g \in MergeGroups(nodes, edges) : g \subseteq nodes
BY DEF MergeGroups, Component

\* What a job goes on to.
AtStage(j, s) == [j EXCEPT !.stage = s]
AtStageOwning(j, s, x) == [j EXCEPT !.stage = s, !.owned = x]
AtStageWith(j, s, x, y) == [j EXCEPT !.stage = s, !.group = x, !.todo = y]
AtStageAfter(j, s, x, y) == [j EXCEPT !.stage = s, !.todo = x, !.moments = y]

\* Field by field.
LEMMA JobFieldsKept ==
  ASSUME NEW j, NEW t, NEW r, NEW m, NEW d, NEW g, NEW o, j = JobRecord(t, r, m, d, g, o),
         NEW s, NEW x, NEW y
  PROVE  /\ AtStage(j, s) = JobRecord(s, r, m, d, g, o)
         /\ AtStageOwning(j, s, x) = JobRecord(s, r, m, d, g, x)
         /\ AtStageWith(j, s, x, y) = JobRecord(s, r, m, y, x, o)
         /\ AtStageAfter(j, s, x, y) = JobRecord(s, r, y, x, g, o)
<1> DEFINE k == [j EXCEPT !.stage = s]
           grouped == [k EXCEPT !.group = x]
           queued == [k EXCEPT !.todo = x]
<1>1. k = JobRecord(s, r, m, d, g, o)
  BY DEF JobRecord
<1>2. /\ [j EXCEPT !.stage = s, !.owned = x] = [k EXCEPT !.owned = x]
      /\ [j EXCEPT !.stage = s, !.group = x, !.todo = y] = [grouped EXCEPT !.todo = y]
      /\ [j EXCEPT !.stage = s, !.todo = x, !.moments = y] = [queued EXCEPT !.moments = y]
  OBVIOUS
<1> HIDE DEF k
<1>3. [k EXCEPT !.owned = x] = JobRecord(s, r, m, d, g, x)
  BY <1>1 DEF JobRecord
<1>4. grouped = JobRecord(s, r, m, d, x, o)
  BY <1>1 DEF JobRecord
<1>5. queued = JobRecord(s, r, m, x, g, o)
  BY <1>1 DEF JobRecord
<1> HIDE DEF grouped, queued
<1>6. [grouped EXCEPT !.todo = y] = JobRecord(s, r, m, y, x, o)
  BY <1>4 DEF JobRecord
<1>7. [queued EXCEPT !.moments = y] = JobRecord(s, r, y, x, g, o)
  BY <1>5 DEF JobRecord
<1> QED BY <1>1, <1>2, <1>3, <1>6, <1>7 DEF k, AtStage, AtStageOwning, AtStageWith, AtStageAfter

\* Of the job there is.
LEMMA JobMoves ==
  ASSUME JobShaped, NEW s, NEW x, NEW y
  PROVE  /\ AtStage(job, s) = JobRecord(s, job.read, job.moments, job.todo, job.group, job.owned)
         /\ AtStageOwning(job, s, x) = JobRecord(s, job.read, job.moments, job.todo, job.group, x)
         /\ AtStageWith(job, s, x, y) = JobRecord(s, job.read, job.moments, y, x, job.owned)
         /\ AtStageAfter(job, s, x, y) = JobRecord(s, job.read, y, x, job.group, job.owned)
<1>1. job = JobRecord(job.stage, job.read, job.moments, job.todo, job.group, job.owned)
  BY DEF JobShaped
<1> QED BY <1>1, JobFieldsKept

\* A job's record, by its fields.
LEMMA JobByFields ==
  \A s, r, m, d, g, o :
    LET j == JobRecord(s, r, m, d, g, o)
    IN  /\ j.stage = s /\ j.read = r /\ j.moments = m /\ j.todo = d /\ j.group = g
        /\ j.owned = o
BY DEF JobRecord

\* A job's record is of its shape when its fields are.
LEMMA JobOfFields ==
  ASSUME NEW s \in {"dedup", "next", "add", "look", "delete", "resummarize"}, NEW r, NEW m, NEW d,
         NEW g, NEW o,
         job' = JobRecord(s, r, m, d, g, o),
         IsFiniteSet(DOMAIN r), \A id \in DOMAIN r : ~IsMoment(id) /\ Shaped(id, r[id]),
         \A id \in m : IsMoment(id),
         d \subseteq SUBSET DOMAIN r, g \subseteq DOMAIN r,
         s = "delete" => o \subseteq g \cup {id \in m : \E source \in g : Name(source) = id[2]}
  PROVE  JobShaped'
<1>1. /\ job'.stage = s /\ job'.read = r /\ job'.moments = m /\ job'.todo = d /\ job'.group = g
      /\ job'.owned = o
  BY JobByFields
<1>2. DeleteIds(g)' = g \cup {id \in m : \E source \in g : Name(source) = id[2]}
  BY <1>1 DEF DeleteIds, Name
<1>3. DeleteIds(job.group)' = g \cup {id \in m : \E source \in g : Name(source) = id[2]}
  BY <1>1 DEF DeleteIds, Name
<1>4. (job' = JobRecord(job.stage, job.read, job.moments, job.todo, job.group, job.owned)')
  BY <1>1
<1>5. \A id \in DOMAIN r : (~IsMoment(id) /\ Shaped(id, r[id]))'
  BY DEF IsMoment, Shaped, ConvPoint, MomentsOf, Moment, TurnsOf, ETurnIds
<1> QED BY <1>1, <1>3, <1>4, <1>5 DEF JobShaped, IsMoment, Shaped, ConvPoint, MomentsOf, Moment, TurnsOf, ETurnIds

\* With no job the record is that of no job.
LEMMA NoJobShaped ==
  ASSUME job' = NoJob
  PROVE  JobShaped'
<1>1. NoJob = JobRecord("idle", <<>>, {}, {}, {}, {})
  BY DEF NoJob, JobRecord
<1>2. DOMAIN <<>> = {} /\ IsFiniteSet({})
  BY FS_EmptySet
<1>3. /\ job'.stage = "idle" /\ job'.read = <<>> /\ job'.moments = {} /\ job'.todo = {}
      /\ job'.group = {} /\ job'.owned = {}
  BY DEF NoJob
<1> QED BY <1>1, <1>2, <1>3 DEF JobShaped

\* A scan reads points there are.
LEMMA ScanShaped ==
  ASSUME ShapeInv, NEW kind \in {"dedup", "resummarize"}, NEW taken \in SUBSET Conversations,
         JobScans(kind, taken)
  PROVE  JobShaped'
<1> DEFINE r == [id \in taken |-> points[id]]
<1>1. job' = JobRecord(kind, r, {}, {}, {}, {})
  BY DEF JobScans, NoJob, JobRecord
<1>2. taken \subseteq Stored /\ \A id \in taken : ~IsMoment(id)
  BY DEF Conversations
<1>3. IsFiniteSet(taken)
  BY <1>2, FS_Subset DEF ShapeInv, PointsShaped
<1>4. \A id \in DOMAIN r : ~IsMoment(id) /\ Shaped(id, r[id])
  BY <1>2 DEF ShapeInv, PointsShaped
<1>5. DOMAIN r = taken
  OBVIOUS
<1> HIDE DEF r
<1> QED BY <1>1, <1>3, <1>4, <1>5, JobOfFields

\* The groups are of points that were read.
LEMMA MergesShaped ==
  ASSUME ShapeInv, DedupMerges
  PROVE  JobShaped'
<1> DEFINE read == DOMAIN job.read
           m == {id \in Stored : IsMoment(id)}
<1>1. PICK edges, done : done \in SUBSET MergeGroups(read, edges) /\
        job' = AtStageAfter(job, "next", done, m)
  BY DEF DedupMerges, AtStageAfter
<1>2. job' = JobRecord("next", job.read, m, done, job.group, job.owned)
  BY <1>1, JobMoves DEF ShapeInv
<1>3. done \subseteq SUBSET DOMAIN job.read
  BY <1>1, GroupsAreOfPoints
<1>4. \A id \in m : IsMoment(id)
  OBVIOUS
<1> HIDE DEF m
<1> QED BY <1>2, <1>3, <1>4, JobOfFields DEF ShapeInv, JobShaped

\* Another stage, or another of the groups, keeps the shape.
LEMMA StageShaped ==
  ASSUME JobShaped, job.stage # "idle",
         NEW s \in {"dedup", "next", "add", "look", "resummarize"},
         job' = AtStage(job, s)
  PROVE  JobShaped'
<1>1. job' = JobRecord(s, job.read, job.moments, job.todo, job.group, job.owned)
  BY JobMoves
<1> QED BY <1>1, JobOfFields DEF JobShaped

LEMMA NextShaped ==
  ASSUME ShapeInv, DedupNext
  PROVE  JobShaped'
<1>1. CASE job' = NoJob
  BY <1>1, NoJobShaped
<1>2. CASE \E group \in job.todo :
             job' = [job EXCEPT !.stage = "add", !.group = group, !.todo = @ \ {group}]
  <2>1. PICK group \in job.todo :
          job' = [job EXCEPT !.stage = "add", !.group = group, !.todo = @ \ {group}]
    BY <1>2
  <2>2. job' = AtStageWith(job, "add", group, job.todo \ {group})
    BY <2>1 DEF AtStageWith
  <2>3. job' = JobRecord("add", job.read, job.moments, job.todo \ {group}, group, job.owned)
    BY <2>2, JobMoves DEF ShapeInv
  <2>4. /\ group \subseteq DOMAIN job.read
        /\ job.todo \ {group} \subseteq SUBSET DOMAIN job.read
    BY DEF ShapeInv, JobShaped
  <2>5. /\ IsFiniteSet(DOMAIN job.read)
        /\ \A id \in DOMAIN job.read : ~IsMoment(id) /\ Shaped(id, job.read[id])
        /\ \A id \in job.moments : IsMoment(id)
    BY DEF ShapeInv, JobShaped
  <2> QED BY ONLY <2>3, <2>4, <2>5, JobOfFields
<1> QED BY <1>1, <1>2 DEF DedupNext

LEMMA LooksShaped ==
  ASSUME ShapeInv, DedupLooks
  PROVE  JobShaped'
<1> DEFINE o == DeleteIds(job.group) \cap Stored
<1>1. job' = AtStageOwning(job, "delete", o)
  BY DEF DedupLooks, AtStageOwning
<1>2. o \subseteq job.group \cup {id \in job.moments : \E source \in job.group : Name(source) = id[2]}
  BY DEF DeleteIds
<1> HIDE DEF o
<1>3. job' = JobRecord("delete", job.read, job.moments, job.todo, job.group, o)
  BY <1>1, JobMoves DEF ShapeInv
<1> QED BY <1>2, <1>3, JobOfFields DEF ShapeInv, JobShaped

\* The stages in which the job writes end in one of the others.
LEMMA WritesEndShaped ==
  ASSUME ShapeInv, JobDone \/ JobFails
  PROVE  JobShaped'
<1>1. CASE job' = NoJob
  BY <1>1, NoJobShaped
<1>2. CASE job' = job
  BY <1>2 DEF ShapeInv, JobShaped, DeleteIds
<1>3. CASE job.stage # "idle" /\ \E s \in {"look", "next"} : job' = AtStage(job, s)
  BY <1>3, StageShaped DEF ShapeInv
<1> QED BY <1>1, <1>2, <1>3 DEF JobDone, JobFails, JobWrites, Retried, AtStage

\* The points change in five ways.
LEMMA PointsChange ==
  ASSUME EpisodicAssumption, [EpisodicNext]_episodicVars
  PROVE  \/ UNCHANGED points
         \/ \E w \in Writers : writer[w].stage = "add" /\ AddConversation(w)
         \/ \E w \in Writers, n \in 0..MaxMoments : writer[w].stage = "moments" /\ AddMoments(w, n)
         \/ forget.stage = "delete" /\ Delete(forget.owned)
         \/ JobWrites
<1>1. ASSUME NEW w \in Writers, WriteFails(w)
      PROVE  \/ UNCHANGED points
             \/ writer[w].stage = "add" /\ AddConversation(w)
             \/ \E n \in 0..MaxMoments : writer[w].stage = "moments" /\ AddMoments(w, n)
  BY <1>1 DEF EpisodicAssumption, WriteFails
<1>2. ASSUME NEW w \in Writers, NEW n \in 0..MaxMoments, WriteMoments(w, n)
      PROVE  writer[w].stage = "moments" /\ AddMoments(w, n)
  BY <1>2 DEF WriteMoments
<1>3. ASSUME NEW w \in Writers, WriteConversation(w)
      PROVE  writer[w].stage = "add" /\ AddConversation(w)
  BY <1>3 DEF WriteConversation
<1>4. ASSUME \/ \E c \in EConvs : Talk(c, sess[c]) \/ Talk(c, {}) \/ ForgetLooks(c)
             \/ \E w \in Writers, c \in EConvs : WriteBegins(w, c)
             \/ \E kind \in {"dedup", "resummarize"}, taken \in SUBSET Conversations :
                  JobScans(kind, taken)
             \/ DedupMerges \/ DedupNext \/ DedupLooks \/ JobDies
             \/ UNCHANGED episodicVars
      PROVE  UNCHANGED points
  BY <1>4 DEF episodicVars, Talk, ForgetLooks, WriteBegins, JobScans, DedupMerges, DedupNext,
              DedupLooks, JobDies
<1>5. ASSUME JobDone \/ JobFails PROVE JobWrites \/ UNCHANGED points
  BY <1>5 DEF JobDone, JobFails
<1>6. ASSUME Forgets \/ ForgetFails
      PROVE  (forget.stage = "delete" /\ Delete(forget.owned)) \/ UNCHANGED points
  BY <1>6 DEF Forgets, ForgetFails
<1> QED BY <1>1, <1>2, <1>3, <1>4, <1>5, <1>6 DEF EpisodicNext

\* The points keep their shape in every step.
LEMMA PointsStep ==
  ASSUME ShapeInv, EpisodicAssumption, [EpisodicNext]_episodicVars
  PROVE  PointsShaped'
<1>1. CASE UNCHANGED points
  BY <1>1 DEF ShapeInv, PointsShaped, Stored, Shaped, ETurnIds, ConvPoint, MomentsOf, Moment, TurnsOf
<1>2. CASE \E w \in Writers : writer[w].stage = "add" /\ AddConversation(w)
  BY <1>2, ConversationShaped
<1>3. CASE \E w \in Writers, n \in 0..MaxMoments : writer[w].stage = "moments" /\ AddMoments(w, n)
  BY <1>3, MomentsShaped
<1>4. CASE Delete(forget.owned)
  <2>1. PICK ids : Delete(ids)
    BY <1>4
  <2> QED BY <2>1, DeleteKeepsShape DEF ShapeInv
<1>5. CASE JobWrites
  BY <1>5, JobWritesShaped
<1> QED BY <1>1, <1>2, <1>3, <1>4, <1>5, PointsChange

\* A job's record too.
LEMMA JobStep ==
  ASSUME ShapeInv, [EpisodicNext]_episodicVars
  PROVE  JobShaped'
<1>1. CASE UNCHANGED job
  BY <1>1 DEF ShapeInv, JobShaped, DeleteIds
<1>2. CASE \E kind \in {"dedup", "resummarize"}, taken \in SUBSET Conversations : JobScans(kind, taken)
  BY <1>2, ScanShaped
<1>3. CASE DedupMerges \/ DedupNext \/ DedupLooks
  BY <1>3, MergesShaped, NextShaped, LooksShaped
<1>4. CASE JobDone \/ JobFails
  BY <1>4, WritesEndShaped
<1>5. CASE JobDies
  BY <1>5, NoJobShaped DEF JobDies
<1>6. \/ UNCHANGED job
      \/ \E kind \in {"dedup", "resummarize"}, taken \in SUBSET Conversations : JobScans(kind, taken)
      \/ DedupMerges \/ DedupNext \/ DedupLooks \/ JobDone \/ JobFails \/ JobDies
  BY DEF EpisodicNext, episodicVars, Talk, ForgetLooks, WriteBegins, WriteConversation,
         WriteMoments, WriteFails, Forgets, ForgetFails
<1> QED BY <1>1, <1>2, <1>3, <1>4, <1>5, <1>6

\* A turn adds to its own session.
LEMMA SessionsStep ==
  ASSUME ShapeInv, [EpisodicNext]_episodicVars
  PROVE  SessionsShaped'
<1>1. CASE UNCHANGED <<talked, sess>>
  BY <1>1 DEF ShapeInv, SessionsShaped, ETurnIds, TurnsOf
<1>2. CASE \E c \in EConvs : Talk(c, sess[c]) \/ Talk(c, {})
  <2>1. PICK c \in EConvs : \E s \in {sess[c], {}} : Talk(c, s)
    BY <1>2
  <2>2. PICK s \in {sess[c], {}} : Talk(c, s)
    BY <2>1
  <2>3. s \subseteq TurnsOf(c) /\ talked[c] \in Nat
    BY DEF ShapeInv, SessionsShaped
  <2>4. talked' = [talked EXCEPT ![c] = talked[c] + 1]
    BY <2>2 DEF Talk
  <2>5. talked' \in [EConvs -> Nat] /\ talked'[c] \in Nat \ {0}
    BY <2>3, <2>4 DEF ShapeInv, SessionsShaped
  <2>6. sess' = [sess EXCEPT ![c] = s \cup {<<c, talked'[c]>>}]
    BY <2>2 DEF Talk
  <2>7. s \cup {<<c, talked'[c]>>} \subseteq TurnsOf(c)
    BY <2>3, <2>5 DEF TurnsOf
  <2>8. \A d \in EConvs : sess'[d] \subseteq TurnsOf(d)
    BY <2>6, <2>7 DEF ShapeInv, SessionsShaped
  <2>9. sess' \in [EConvs -> SUBSET ETurnIds]
    <3>1. \A d \in EConvs : TurnsOf(d) \subseteq ETurnIds
      BY DEF TurnsOf, ETurnIds
    <3>2. DOMAIN sess' = EConvs /\ sess' = [d \in EConvs |-> sess'[d]]
      BY <2>6 DEF ShapeInv, SessionsShaped
    <3> QED BY <2>8, <3>1, <3>2
  <2> QED BY <2>5, <2>8, <2>9 DEF SessionsShaped, ETurnIds, TurnsOf
<1>3. UNCHANGED <<talked, sess>> \/ \E c \in EConvs : Talk(c, sess[c]) \/ Talk(c, {})
  BY DEF EpisodicNext, episodicVars, ForgetLooks, WriteBegins, WriteConversation, WriteMoments,
         WriteFails, Forgets, ForgetFails, JobScans, DedupMerges, DedupNext, DedupLooks, JobDone,
         JobFails, JobDies
<1> QED BY <1>1, <1>2, <1>3

\* A write takes the text of the session, and goes on with it or ends.
LEMMA WritersStep ==
  ASSUME ShapeInv, [EpisodicNext]_episodicVars
  PROVE  WritersShaped'
<1>1. CASE UNCHANGED writer
  BY <1>1 DEF ShapeInv, WritersShaped, NoWriter, ETurnIds, TurnsOf
<1>2. NoWriter \in [stage : {"idle", "add", "moments"}, conv : EConvs \cup {"none"},
                   text : SUBSET ETurnIds]
  BY DEF NoWriter
<1>3. ASSUME NEW w \in Writers, NEW c \in EConvs, WriteBegins(w, c)
      PROVE  WritersShaped'
  <2>1. writer' = [writer EXCEPT ![w] = [stage |-> "add", conv |-> c, text |-> sess[c]]]
    BY <1>3 DEF WriteBegins
  <2>2. sess[c] \subseteq TurnsOf(c) /\ sess[c] \subseteq ETurnIds
    BY DEF ShapeInv, SessionsShaped
  <2> QED BY <2>1, <2>2 DEF ShapeInv, WritersShaped, NoWriter, ETurnIds, TurnsOf
<1>4. ASSUME NEW w \in Writers, WriteConversation(w)
      PROVE  WritersShaped'
  <2>1. writer' = [writer EXCEPT ![w].stage = "moments"] /\ writer[w].stage = "add"
    BY <1>4 DEF WriteConversation
  <2>2. /\ writer[w].conv \in EConvs /\ writer[w].text \subseteq TurnsOf(writer[w].conv)
        /\ writer[w].text \in SUBSET ETurnIds
    BY <2>1 DEF ShapeInv, WritersShaped, NoWriter
  <2> DEFINE new == [stage |-> "moments", conv |-> writer[w].conv, text |-> writer[w].text]
  <2>3. writer' = [writer EXCEPT ![w] = new]
    <3>1. writer' = [writer EXCEPT ![w] = [writer[w] EXCEPT !.stage = "moments"]]
      BY <2>1
    <3>2. [writer[w] EXCEPT !.stage = "moments"] = new
      BY DEF ShapeInv, WritersShaped
    <3> QED BY <3>1, <3>2
  <2>4. /\ new \in [stage : {"idle", "add", "moments"}, conv : EConvs \cup {"none"},
                    text : SUBSET ETurnIds]
        /\ new.stage # "idle" /\ new.conv \in EConvs /\ new.text \subseteq TurnsOf(new.conv)
    BY <2>2
  <2> HIDE DEF new
  <2> QED BY <2>3, <2>4 DEF ShapeInv, WritersShaped, NoWriter, ETurnIds, TurnsOf
<1>5. ASSUME NEW w \in Writers, writer' = [writer EXCEPT ![w] = NoWriter]
      PROVE  WritersShaped'
  BY <1>2, <1>5 DEF ShapeInv, WritersShaped, ETurnIds, TurnsOf
<1>6. ASSUME NEW w \in Writers, writer' = [writer EXCEPT ![w] = writer[w]]
      PROVE  UNCHANGED writer
  BY <1>6 DEF ShapeInv, WritersShaped
<1>7. \/ UNCHANGED writer
      \/ \E w \in Writers, c \in EConvs : WriteBegins(w, c)
      \/ \E w \in Writers : WriteConversation(w)
      \/ \E w \in Writers : writer' = [writer EXCEPT ![w] = NoWriter]
  BY <1>6 DEF EpisodicNext, episodicVars, Talk, ForgetLooks, WriteMoments, WriteFails, Retried,
         Forgets, ForgetFails, JobScans, DedupMerges, DedupNext, DedupLooks, JobDone, JobFails,
         JobDies
<1> QED BY <1>1, <1>3, <1>4, <1>5, <1>7

\* The forgetting call knows its conversation, and deletes nothing else's points.
LEMMA ForgetStep ==
  ASSUME ShapeInv, [EpisodicNext]_episodicVars
  PROVE  ForgetShaped'
<1>1. CASE UNCHANGED forget
  BY <1>1 DEF ShapeInv, ForgetShaped, ForgetIds, ConvPoint, MomentsOf, Moment
<1>2. CASE forget' = NoForget
  BY <1>2 DEF ForgetShaped, NoForget
<1>3. CASE \E c \in EConvs : ForgetLooks(c)
  <2>1. PICK c \in EConvs : ForgetLooks(c)
    BY <1>3
  <2>2. forget' = [stage |-> "delete", conv |-> c, owned |-> ForgetIds(c) \cap Stored,
                   alone |-> forget.alone /\ job = NoJob /\ ~Writing(c)]
    BY <2>1 DEF ForgetLooks
  <2>3. (forget.alone /\ job = NoJob /\ ~Writing(c)) \in BOOLEAN
    BY Zenon
  <2> QED BY <2>2, <2>3 DEF ForgetShaped, ForgetIds, ConvPoint, MomentsOf, Moment
<1>4. CASE \E b \in BOOLEAN : forget' = [forget EXCEPT !.alone = b]
  BY <1>4 DEF ShapeInv, ForgetShaped, ForgetIds, ConvPoint, MomentsOf, Moment
<1>5. CASE forget.stage = "delete" /\ forget' = [forget EXCEPT !.stage = "look"]
  BY <1>5 DEF ShapeInv, ForgetShaped, ForgetIds, ConvPoint, MomentsOf, Moment
<1>6. ASSUME NEW w \in Writers, NEW c \in EConvs, WriteBegins(w, c)
      PROVE  \E b \in BOOLEAN : forget' = [forget EXCEPT !.alone = b]
  BY <1>6, Zenon DEF WriteBegins
<1>7. ASSUME NEW kind, NEW taken, JobScans(kind, taken)
      PROVE  \E b \in BOOLEAN : forget' = [forget EXCEPT !.alone = b]
  BY <1>7, Zenon DEF JobScans
<1>8. \/ UNCHANGED forget \/ forget' = NoForget
      \/ \E c \in EConvs : ForgetLooks(c)
      \/ \E b \in BOOLEAN : forget' = [forget EXCEPT !.alone = b]
      \/ forget.stage = "delete" /\ forget' = [forget EXCEPT !.stage = "look"]
  BY <1>6, <1>7 DEF EpisodicNext, episodicVars, Talk, WriteConversation, WriteMoments, WriteFails,
         Retried, Forgets, ForgetFails, DedupMerges, DedupNext, DedupLooks, JobDone, JobFails,
         JobDies
<1> QED BY <1>1, <1>2, <1>3, <1>4, <1>5, <1>8

LEMMA MarksStep ==
  ASSUME ShapeInv, [EpisodicNext]_episodicVars
  PROVE  MarksShaped'
<1>1. forget.stage = "delete" => forget.conv \in EConvs
  BY DEF ShapeInv, ForgetShaped
<1> QED BY <1>1 DEF ShapeInv, MarksShaped, EpisodicNext, episodicVars, Talk, ForgetLooks, WriteBegins,
         WriteConversation, WriteMoments, WriteFails, Forgets, ForgetFails, JobScans,
         DedupMerges, DedupNext, DedupLooks, JobDone, JobFails, JobDies

LEMMA ShapeInit == EpisodicInit => ShapeInv
<1> SUFFICES ASSUME EpisodicInit PROVE ShapeInv
  OBVIOUS
<1>1. PointsShaped
  BY FS_EmptySet DEF EpisodicInit, PointsShaped, Stored
<1>2. SessionsShaped
  BY DEF EpisodicInit, SessionsShaped
<1>3. WritersShaped
  BY DEF EpisodicInit, WritersShaped, NoWriter
<1>4. ForgetShaped
  BY DEF EpisodicInit, ForgetShaped, NoForget
<1>5. JobShaped
  BY FS_EmptySet DEF EpisodicInit, JobShaped, NoJob, JobRecord
<1>6. MarksShaped
  BY DEF EpisodicInit, MarksShaped
<1> QED BY <1>1, <1>2, <1>3, <1>4, <1>5, <1>6 DEF ShapeInv

LEMMA ShapeInvariant == EpisodicSpec => []ShapeInv
<1>1. ShapeInv /\ [EpisodicNext]_episodicVars => ShapeInv'
  BY EpisodicAssumption, PointsStep, JobStep, SessionsStep, WritersStep, ForgetStep, MarksStep
     DEF ShapeInv
<1> QED BY ShapeInit, <1>1, PTL DEF EpisodicSpec

\* The collection and the calls under way have their shape throughout
\* (memory/episodic.py:126-205, jobs/dedup.py:184-213).
THEOREM EpisodicTypes == EpisodicSpec => []EpisodicTypeOK
<1>1. ShapeInv => EpisodicTypeOK
  <2> SUFFICES ASSUME ShapeInv PROVE EpisodicTypeOK
    OBVIOUS
  <2>1. \A c \in EConvs : TurnsOf(c) \subseteq ETurnIds
    BY DEF TurnsOf, ETurnIds
  <2>2. \A id, text : Shaped(id, text) =>
          /\ text \subseteq ETurnIds
          /\ id[1] = "dedup" \/ \E c \in EConvs : id \in {ConvPoint(c)} \cup MomentsOf(c)
    BY <2>1 DEF Shaped
  <2>3. \A id \in Stored :
          /\ points[id] \subseteq ETurnIds
          /\ id[1] = "dedup" \/ \E c \in EConvs : id \in {ConvPoint(c)} \cup MomentsOf(c)
    BY <2>2 DEF ShapeInv, PointsShaped
  <2>4. \A id \in DOMAIN job.read : ~IsMoment(id) /\ job.read[id] \subseteq ETurnIds
    BY <2>2 DEF ShapeInv, JobShaped
  <2> QED BY <2>3, <2>4 DEF EpisodicTypeOK, ShapeInv, SessionsShaped, WritersShaped, ForgetShaped,
                            JobShaped, MarksShaped
<1> QED BY <1>1, ShapeInvariant, PTL

-----------------------------------------------------------------------------
(* What the steps do to the points and to the calls under way.             *)

LEMMA Added ==
  ASSUME NEW new, Add(new)
  PROVE  /\ Stored' = Stored \cup DOMAIN new
         /\ \A id \in DOMAIN new : points'[id] = new[id]
         /\ \A id \in Stored \ DOMAIN new : points'[id] = points[id]
BY DEF Add, Stored

LEMMA Deleted ==
  ASSUME NEW ids, Delete(ids)
  PROVE  Stored' = Stored \ ids /\ \A id \in Stored \ ids : points'[id] = points[id]
BY DEF Delete, Stored

\* What becomes of the points when a conversation is written,
LEMMA ConversationAdded ==
  ASSUME NEW w \in Writers, AddConversation(w)
  PROVE  /\ Stored' = Stored \cup {ConvPoint(writer[w].conv)}
         /\ points'[ConvPoint(writer[w].conv)] = writer[w].text
         /\ \A id \in Stored \ {ConvPoint(writer[w].conv)} : points'[id] = points[id]
<1> DEFINE new == [id \in {ConvPoint(writer[w].conv)} |-> writer[w].text]
<1>1. Add(new)
  BY DEF AddConversation
<1>2. DOMAIN new = {ConvPoint(writer[w].conv)} /\ new[ConvPoint(writer[w].conv)] = writer[w].text
  OBVIOUS
<1> HIDE DEF new
<1> QED BY <1>1, <1>2, Added

\* its moments are,
LEMMA MomentsAdded ==
  ASSUME EpisodicAssumption, NEW w \in Writers, NEW n \in 0..MaxMoments, AddMoments(w, n)
  PROVE  \E ids \in SUBSET MomentsOf(writer[w].conv) :
           /\ Stored' = Stored \cup ids
           /\ \A id \in ids : points'[id] = {}
           /\ \A id \in Stored \ ids : points'[id] = points[id]
<1> DEFINE ids == {Moment(writer[w].conv, i) : i \in 0..(n - 1)}
           new == [id \in ids |-> {}]
<1>1. Add(new)
  BY DEF AddMoments
<1>2. ids \in SUBSET MomentsOf(writer[w].conv)
  BY DEF MomentsOf, EpisodicAssumption
<1>3. DOMAIN new = ids /\ \A id \in ids : new[id] = {}
  OBVIOUS
<1> HIDE DEF new, ids
<1> QED BY <1>1, <1>2, <1>3, Added

\* or a merged point is.
LEMMA MergedAdded ==
  ASSUME Add([id \in {Merged(job.group)} |-> MergedText(job.group)])
  PROVE  /\ Stored' = Stored \cup {Merged(job.group)}
         /\ points'[Merged(job.group)] = MergedText(job.group)
         /\ \A id \in Stored \ {Merged(job.group)} : points'[id] = points[id]
<1> DEFINE new == [id \in {Merged(job.group)} |-> MergedText(job.group)]
<1>1. Add(new)
  OBVIOUS
<1>2. DOMAIN new = {Merged(job.group)} /\ new[Merged(job.group)] = MergedText(job.group)
  OBVIOUS
<1> HIDE DEF new
<1> QED BY <1>1, <1>2, Added

\* Only the write of a conversation brings moments of it.
LEMMA NewMoments ==
  ASSUME ShapeInv, EpisodicAssumption, [EpisodicNext]_episodicVars, NEW c \in EConvs,
         NEW id \in MomentsOf(c), id \in Stored', id \notin Stored
  PROVE  /\ \E w \in Writers : writer[w].stage = "moments" /\ writer[w].conv = c
         /\ Stored \subseteq Stored'
<1>1. IsMoment(id) /\ id[2] = c
  BY MomentIds
<1>2. ~UNCHANGED points
  BY DEF Stored
<1>3. ASSUME NEW w \in Writers, AddConversation(w) PROVE FALSE
  BY <1>1, <1>3, ConversationAdded, IdsDiffer
<1>4. ASSUME NEW ids, Delete(ids) PROVE FALSE
  BY <1>4, Deleted
<1>5. ~JobWrites
  <2>1. ~Add([x \in {Merged(job.group)} |-> MergedText(job.group)])
    BY <1>1, MergedAdded, IdsDiffer
  <2>2. ~Delete(job.owned)
    BY <1>4
  <2>3. ASSUME Add(job.read) PROVE FALSE
    <3>1. PICK new : new = job.read
      OBVIOUS
    <3>2. Add(new)
      BY <2>3, <3>1
    <3>3. id \in DOMAIN new
      BY <3>2, Added
    <3> QED BY <1>1, <3>1, <3>3 DEF ShapeInv, JobShaped
  <2> QED BY <2>1, <2>2, <2>3 DEF JobWrites
<1>6. PICK w \in Writers, n \in 0..MaxMoments : writer[w].stage = "moments" /\ AddMoments(w, n)
  BY <1>2, <1>3, <1>4, <1>5, PointsChange
<1>7. PICK ids \in SUBSET MomentsOf(writer[w].conv) : Stored' = Stored \cup ids
  BY <1>6, MomentsAdded
<1>8. id[2] = writer[w].conv
  BY <1>7, MomentIds
<1> QED BY <1>1, <1>6, <1>7, <1>8

\* Only a delete takes a point away.
LEMMA LostPoints ==
  ASSUME EpisodicAssumption, [EpisodicNext]_episodicVars, NEW id \in Stored, id \notin Stored'
  PROVE  \/ /\ forget.stage = "delete" /\ id \in forget.owned
            /\ Stored' = Stored \ forget.owned
         \/ /\ job.stage = "delete" /\ id \in job.owned
            /\ Stored' = Stored \ job.owned
<1>1. ~UNCHANGED points
  BY DEF Stored
<1>2. ASSUME NEW w \in Writers, AddConversation(w) PROVE FALSE
  BY <1>2, ConversationAdded
<1>3. ASSUME NEW w \in Writers, NEW n \in 0..MaxMoments, AddMoments(w, n) PROVE FALSE
  BY <1>3, MomentsAdded
<1>4. ASSUME NEW new, Add(new) PROVE FALSE
  BY <1>4, Added
<1>5. \/ forget.stage = "delete" /\ Delete(forget.owned)
      \/ JobWrites
  BY <1>1, <1>2, <1>3, PointsChange
<1>6. JobWrites => job.stage = "delete" /\ Delete(job.owned)
  BY <1>4 DEF JobWrites
<1>7. Delete(forget.owned) => id \in forget.owned /\ Stored' = Stored \ forget.owned
  <2>1. PICK ids : ids = forget.owned
    OBVIOUS
  <2> QED BY <2>1, Deleted
<1>8. Delete(job.owned) => id \in job.owned /\ Stored' = Stored \ job.owned
  <2>1. PICK ids : ids = job.owned
    OBVIOUS
  <2> QED BY <2>1, Deleted
<1> QED BY <1>5, <1>6, <1>7, <1>8

\* A conversation comes to be written only by the start of a write;
LEMMA WritingStep ==
  ASSUME ShapeInv, [EpisodicNext]_episodicVars, NEW c \in EConvs, Writing(c)'
  PROVE  Writing(c) \/ \E w \in Writers : WriteBegins(w, c)
<1>1. CASE UNCHANGED writer
  BY <1>1 DEF Writing
<1>2. ASSUME NEW w \in Writers, NEW d \in EConvs, WriteBegins(w, d)
      PROVE  Writing(c) \/ WriteBegins(w, c)
  BY <1>2 DEF WriteBegins, Writing, ShapeInv, WritersShaped
<1>3. ASSUME NEW w \in Writers, WriteConversation(w)
      PROVE  Writing(c)
  BY <1>3 DEF WriteConversation, Writing, ShapeInv, WritersShaped
<1>4. ASSUME NEW w \in Writers, writer' = [writer EXCEPT ![w] = NoWriter]
      PROVE  Writing(c)
  BY <1>4 DEF Writing, NoWriter, ShapeInv, WritersShaped
<1>5. ASSUME NEW w \in Writers, writer' = [writer EXCEPT ![w] = writer[w]]
      PROVE  UNCHANGED writer
  BY <1>5 DEF ShapeInv, WritersShaped
<1>6. \/ UNCHANGED writer
      \/ \E w \in Writers, d \in EConvs : WriteBegins(w, d)
      \/ \E w \in Writers : WriteConversation(w)
      \/ \E w \in Writers : writer' = [writer EXCEPT ![w] = NoWriter]
  BY <1>5 DEF EpisodicNext, episodicVars, Talk, ForgetLooks, WriteMoments, WriteFails, Retried,
         Forgets, ForgetFails, JobScans, DedupMerges, DedupNext, DedupLooks, JobDone, JobFails,
         JobDies
<1> QED BY <1>1, <1>2, <1>3, <1>4, <1>6

\* to its moments only by the write of its point;
LEMMA ToMoments ==
  ASSUME ShapeInv, [EpisodicNext]_episodicVars, NEW w \in Writers, writer'[w].stage = "moments"
  PROVE  /\ writer'[w].conv = writer[w].conv
         /\ \/ writer[w].stage = "moments"
            \/ writer[w].stage = "add" /\ AddConversation(w)
<1>1. CASE UNCHANGED writer
  BY <1>1
<1>2. ASSUME NEW v \in Writers, NEW d \in EConvs, WriteBegins(v, d)
      PROVE  writer'[w] = writer[w]
  BY <1>2 DEF WriteBegins, ShapeInv, WritersShaped
<1>3. ASSUME NEW v \in Writers, WriteConversation(v)
      PROVE  \/ writer'[w] = writer[w]
             \/ /\ writer'[w].conv = writer[w].conv
                /\ writer[w].stage = "add" /\ AddConversation(w)
  BY <1>3 DEF WriteConversation, ShapeInv, WritersShaped
<1>4. ASSUME NEW v \in Writers, writer' = [writer EXCEPT ![v] = NoWriter]
      PROVE  writer'[w] = writer[w]
  BY <1>4 DEF NoWriter, ShapeInv, WritersShaped
<1>5. ASSUME NEW v \in Writers, writer' = [writer EXCEPT ![v] = writer[v]]
      PROVE  UNCHANGED writer
  BY <1>5 DEF ShapeInv, WritersShaped
<1>6. \/ UNCHANGED writer
      \/ \E v \in Writers, d \in EConvs : WriteBegins(v, d)
      \/ \E v \in Writers : WriteConversation(v)
      \/ \E v \in Writers : writer' = [writer EXCEPT ![v] = NoWriter]
  BY <1>5 DEF EpisodicNext, episodicVars, Talk, ForgetLooks, WriteMoments, WriteFails, Retried,
         Forgets, ForgetFails, JobScans, DedupMerges, DedupNext, DedupLooks, JobDone, JobFails,
         JobDies
<1> QED BY <1>1, <1>2, <1>3, <1>4, <1>6

\* a job is under way only after a scan;
LEMMA JobBegins ==
  ASSUME ShapeInv, [EpisodicNext]_episodicVars, job' # NoJob
  PROVE  \/ job # NoJob
         \/ \E kind \in {"dedup", "resummarize"}, taken \in SUBSET Conversations :
              JobScans(kind, taken)
<1>1. job.stage # "idle" => job # NoJob
  BY DEF NoJob
<1> QED BY <1>1 DEF EpisodicNext, episodicVars, Talk, ForgetLooks, WriteBegins, WriteConversation,
         WriteMoments, WriteFails, Forgets, ForgetFails, DedupMerges, DedupNext, DedupLooks,
         JobDone, JobFails, JobWrites, JobDies

\* and a conversation is being forgotten only after a look at its points.
LEMMA ForgetBegins ==
  ASSUME ShapeInv, [EpisodicNext]_episodicVars, forget'.stage # "idle"
  PROVE  \/ \E c \in EConvs : ForgetLooks(c)
         \/ /\ forget.stage # "idle" /\ forget'.conv = forget.conv
            /\ forget'.owned = forget.owned
            /\ forget'.stage = "delete" => forget.stage = "delete"
            /\ forget'.alone => forget.alone
<1>1. CASE UNCHANGED forget
  BY <1>1
<1>2. CASE forget' = NoForget
  BY <1>2 DEF NoForget
<1>3. ASSUME NEW w \in Writers, NEW c \in EConvs, WriteBegins(w, c)
      PROVE  \E b \in BOOLEAN : forget' = [forget EXCEPT !.alone = b] /\ (b => forget.alone)
  BY <1>3, Zenon DEF WriteBegins
<1>4. ASSUME NEW kind, NEW taken, JobScans(kind, taken)
      PROVE  \E b \in BOOLEAN : forget' = [forget EXCEPT !.alone = b] /\ (b => forget.alone)
  BY <1>4, Zenon DEF JobScans
<1>5. CASE \E b \in BOOLEAN : forget' = [forget EXCEPT !.alone = b] /\ (b => forget.alone)
  BY <1>5 DEF ShapeInv, ForgetShaped
<1>6. CASE forget.stage = "delete" /\ forget' = [forget EXCEPT !.stage = "look"]
  BY <1>6 DEF ShapeInv, ForgetShaped
<1>7. \/ UNCHANGED forget \/ forget' = NoForget
      \/ \E c \in EConvs : ForgetLooks(c)
      \/ \E b \in BOOLEAN : forget' = [forget EXCEPT !.alone = b] /\ (b => forget.alone)
      \/ forget.stage = "delete" /\ forget' = [forget EXCEPT !.stage = "look"]
  BY <1>3, <1>4 DEF EpisodicNext, episodicVars, Talk, WriteConversation, WriteMoments, WriteFails,
         Retried, Forgets, ForgetFails, DedupMerges, DedupNext, DedupLooks, JobDone, JobFails,
         JobDies
<1> QED BY <1>1, <1>2, <1>5, <1>6, <1>7

\* A conversation once crossed stays so.
LEMMA CrossedGrows ==
  ASSUME [EpisodicNext]_episodicVars
  PROVE  crossed \subseteq crossed'
BY DEF EpisodicNext, episodicVars, Talk, ForgetLooks, WriteBegins, WriteConversation, WriteMoments,
       WriteFails, Forgets, ForgetFails, JobScans, DedupMerges, DedupNext, DedupLooks, JobDone,
       JobFails, JobDies

-----------------------------------------------------------------------------
(* Moments have their conversation.                                        *)

\* What is written, merged or deleted meets nothing else at work on the same
\* conversation, unless the conversation is crossed;
NoWriteBesideJob ==
  \A c \in EConvs \ crossed : job # NoJob => ~Writing(c)

NoWriteBesideForget ==
  \A c \in EConvs \ crossed : forget.stage # "idle" /\ forget.conv = c => ~Writing(c)

\* so that a delete has seen every moment of the conversations it deletes,
ForgetSeesAll ==
  \A c \in EConvs \ crossed :
    forget.stage = "delete" /\ forget.conv = c => MomentsOf(c) \cap Stored \subseteq forget.owned

JobKnowsMoments ==
  job.stage \in {"next", "add", "look", "delete"} =>
    \A c \in EConvs \ crossed : MomentsOf(c) \cap Stored \subseteq job.moments

JobSeesAll ==
  job.stage = "delete" =>
    \A c \in EConvs \ crossed :
      ConvPoint(c) \in job.owned => MomentsOf(c) \cap Stored \subseteq job.owned

\* and the point of a conversation is there before its moments are written.
WrittenFirst ==
  \A w \in Writers :
    writer[w].stage = "moments" /\ writer[w].conv \notin crossed
      => ConvPoint(writer[w].conv) \in Stored

ParentInv ==
  /\ ShapeInv
  /\ NoWriteBesideJob /\ NoWriteBesideForget
  /\ ForgetSeesAll /\ JobKnowsMoments /\ JobSeesAll
  /\ WrittenFirst
  /\ MomentsHaveParent

LEMMA NoWriteBesideJobStep ==
  ASSUME ParentInv, [EpisodicNext]_episodicVars
  PROVE  NoWriteBesideJob'
<1> SUFFICES ASSUME NEW c \in EConvs, c \notin crossed', (job # NoJob)', Writing(c)'
             PROVE  FALSE
  BY DEF NoWriteBesideJob
<1>1. c \notin crossed /\ ShapeInv
  BY CrossedGrows DEF ParentInv
<1>2. CASE Writing(c)
  <2>1. job = NoJob
    BY <1>1, <1>2 DEF ParentInv, NoWriteBesideJob
  <2>2. PICK kind, taken : JobScans(kind, taken)
    BY <1>1, <2>1, JobBegins DEF NoJob
  <2> QED BY <1>2, <2>2 DEF JobScans
<1>3. CASE \E w \in Writers : WriteBegins(w, c)
  <2>1. job' = job
    BY <1>3 DEF WriteBegins
  <2> QED BY <1>3, <2>1 DEF WriteBegins, NoJob
<1> QED BY <1>1, <1>2, <1>3, WritingStep

LEMMA NoWriteBesideForgetStep ==
  ASSUME ParentInv, [EpisodicNext]_episodicVars
  PROVE  NoWriteBesideForget'
<1> SUFFICES ASSUME NEW c \in EConvs, c \notin crossed', forget'.stage # "idle", forget'.conv = c,
                    Writing(c)'
             PROVE  FALSE
  BY DEF NoWriteBesideForget
<1>1. c \notin crossed /\ ShapeInv
  BY CrossedGrows DEF ParentInv
<1>2. CASE Writing(c)
  <2>1. ~(forget.stage # "idle" /\ forget.conv = c)
    BY <1>1, <1>2 DEF ParentInv, NoWriteBesideForget
  <2>2. PICK d \in EConvs : ForgetLooks(d)
    BY <1>1, <2>1, ForgetBegins
  <2>3. d = c
    BY <2>2 DEF ForgetLooks
  <2> QED BY <1>2, <2>2, <2>3 DEF ForgetLooks
<1>3. CASE \E w \in Writers : WriteBegins(w, c)
  <2>1. forget'.conv = forget.conv
    BY <1>1, <1>3 DEF WriteBegins, ShapeInv, ForgetShaped
  <2> QED BY <1>3, <2>1 DEF WriteBegins
<1> QED BY <1>1, <1>2, <1>3, WritingStep

LEMMA ForgetSeesAllStep ==
  ASSUME ParentInv, EpisodicAssumption, [EpisodicNext]_episodicVars
  PROVE  ForgetSeesAll'
<1> SUFFICES ASSUME NEW c \in EConvs, c \notin crossed', forget'.stage = "delete", forget'.conv = c,
                    NEW id \in MomentsOf(c), id \in Stored'
             PROVE  id \in forget'.owned
  BY DEF ForgetSeesAll, MomentsOf, Moment
<1>1. c \notin crossed /\ ShapeInv
  BY CrossedGrows DEF ParentInv
<1>2. CASE \E d \in EConvs : ForgetLooks(d)
  <2>1. PICK d \in EConvs : ForgetLooks(d)
    BY <1>2
  <2>2. d = c /\ Stored' = Stored /\ forget'.owned = ForgetIds(d) \cap Stored
    BY <2>1 DEF ForgetLooks, Stored
  <2> QED BY <2>2 DEF ForgetIds
<1>3. CASE forget.stage = "delete" /\ forget.conv = c /\ forget'.owned = forget.owned
  <2>1. ~Writing(c) /\ MomentsOf(c) \cap Stored \subseteq forget.owned
    BY <1>1, <1>3 DEF ParentInv, NoWriteBesideForget, ForgetSeesAll
  <2>2. id \in Stored
    BY <1>1, <2>1, NewMoments DEF Writing
  <2> QED BY <1>3, <2>1, <2>2
<1> QED BY <1>1, <1>2, <1>3, ForgetBegins

\* Where the job is past its scans, the moments it knows are those of the last scan.
LEMMA JobKnows ==
  ASSUME ShapeInv, [EpisodicNext]_episodicVars, job'.stage \in {"next", "add", "look", "delete"}
  PROVE  \/ Stored' = Stored /\ job'.moments = {id \in Stored : IsMoment(id)}
         \/ job.stage \in {"next", "add", "look", "delete"} /\ job'.moments = job.moments
<1>1. CASE UNCHANGED job
  BY <1>1
<1>2. CASE job' = NoJob
  BY <1>2 DEF NoJob
<1>3. CASE \E kind \in {"dedup", "resummarize"} : \E taken : JobScans(kind, taken)
  BY <1>3 DEF JobScans, NoJob
<1>4. CASE DedupMerges
  <2>1. PICK d : /\ job' = AtStageAfter(job, "next", d, {id \in Stored : IsMoment(id)})
                 /\ points' = points
    BY <1>4 DEF DedupMerges, AtStageAfter
  <2> DEFINE m == {id \in Stored : IsMoment(id)}
  <2>2. job' = JobRecord("next", job.read, m, d, job.group, job.owned)
    BY <2>1, JobMoves DEF ShapeInv
  <2> HIDE DEF m
  <2>3. job'.moments = m
    BY <2>2, JobByFields
  <2> QED BY <2>1, <2>3 DEF m, Stored
<1>5. CASE \E s \in {"look", "next"} : /\ job' = AtStage(job, s)
                                       /\ job.stage \in {"add", "delete"}
  <2>1. PICK s \in {"look", "next"} : job' = AtStage(job, s)
    BY <1>5
  <2>2. job' = JobRecord(s, job.read, job.moments, job.todo, job.group, job.owned)
    BY <2>1, JobMoves DEF ShapeInv
  <2> QED BY <1>5, <2>2, JobByFields
<1>6. CASE DedupNext /\ job' # NoJob
  <2>1. PICK group : job' = AtStageWith(job, "add", group, job.todo \ {group})
    BY <1>6 DEF DedupNext, AtStageWith
  <2>2. job' = JobRecord("add", job.read, job.moments, job.todo \ {group}, group, job.owned)
    BY <2>1, JobMoves DEF ShapeInv
  <2>3. job'.moments = job.moments
    BY <2>2, JobByFields
  <2>4. job.stage = "next"
    BY <1>6 DEF DedupNext
  <2> QED BY <2>3, <2>4
<1>7. CASE DedupLooks
  <2> DEFINE o == DeleteIds(job.group) \cap Stored
  <2>1. job' = AtStageOwning(job, "delete", o)
    BY <1>7 DEF DedupLooks, AtStageOwning
  <2> HIDE DEF o
  <2>2. job' = JobRecord("delete", job.read, job.moments, job.todo, job.group, o)
    BY <2>1, JobMoves DEF ShapeInv
  <2> QED BY <1>7, <2>2, JobByFields DEF DedupLooks
<1>8. \/ UNCHANGED job \/ job' = NoJob
      \/ \E kind \in {"dedup", "resummarize"} : \E taken : JobScans(kind, taken)
      \/ DedupMerges \/ DedupNext \/ DedupLooks
      \/ \E s \in {"look", "next"} : job' = AtStage(job, s) /\ job.stage \in {"add", "delete"}
  BY DEF EpisodicNext, episodicVars, Talk, ForgetLooks, WriteBegins, WriteConversation, WriteMoments,
         WriteFails, Forgets, ForgetFails, JobDone, JobFails, JobWrites, JobDies, Retried, AtStage
<1> QED BY <1>1, <1>2, <1>3, <1>4, <1>5, <1>6, <1>7, <1>8

LEMMA JobKnowsMomentsStep ==
  ASSUME ParentInv, EpisodicAssumption, [EpisodicNext]_episodicVars
  PROVE  JobKnowsMoments'
<1> SUFFICES ASSUME NEW c \in EConvs, c \notin crossed',
                    job'.stage \in {"next", "add", "look", "delete"},
                    NEW id \in MomentsOf(c), id \in Stored'
             PROVE  id \in job'.moments
  BY DEF JobKnowsMoments, MomentsOf, Moment
<1>1. c \notin crossed /\ ShapeInv
  BY CrossedGrows DEF ParentInv
<1>2. CASE Stored' = Stored /\ job'.moments = {x \in Stored : IsMoment(x)}
  BY <1>2, MomentIds
<1>3. CASE job.stage \in {"next", "add", "look", "delete"} /\ job'.moments = job.moments
  <2>1. job # NoJob
    BY <1>3 DEF NoJob
  <2>2. ~Writing(c) /\ MomentsOf(c) \cap Stored \subseteq job.moments
    BY <1>1, <1>3, <2>1 DEF ParentInv, NoWriteBesideJob, JobKnowsMoments
  <2>3. id \in Stored
    BY <1>1, <2>2, NewMoments DEF Writing
  <2> QED BY <1>3, <2>2, <2>3
<1> QED BY <1>1, <1>2, <1>3, JobKnows

\* What the delete of a merge is about to take is what it found at its look.
LEMMA JobOwns ==
  ASSUME ShapeInv, [EpisodicNext]_episodicVars, job'.stage = "delete"
  PROVE  \/ /\ job.stage = "look" /\ Stored' = Stored
            /\ job'.owned = DeleteIds(job.group) \cap Stored
            /\ job'.group = job.group /\ job'.read = job.read
         \/ job' = job
<1>1. CASE job' = NoJob
  BY <1>1 DEF NoJob
<1>2. CASE \E kind \in {"dedup", "resummarize"} : \E taken : JobScans(kind, taken)
  BY <1>2 DEF JobScans, NoJob
<1>3. CASE DedupMerges
  <2>1. PICK d, m : job' = AtStageAfter(job, "next", d, m)
    BY <1>3 DEF DedupMerges, AtStageAfter
  <2>2. job' = JobRecord("next", job.read, m, d, job.group, job.owned)
    BY <2>1, JobMoves DEF ShapeInv
  <2> QED BY <2>2, JobByFields
<1>4. CASE \E s \in {"look", "next"} : job' = AtStage(job, s)
  <2>1. PICK s \in {"look", "next"} : job' = AtStage(job, s)
    BY <1>4
  <2>2. job' = JobRecord(s, job.read, job.moments, job.todo, job.group, job.owned)
    BY <2>1, JobMoves DEF ShapeInv
  <2> QED BY <2>2, JobByFields
<1>5. CASE DedupNext /\ job' # NoJob
  <2>1. PICK group : job' = AtStageWith(job, "add", group, job.todo \ {group})
    BY <1>5 DEF DedupNext, AtStageWith
  <2>2. job' = JobRecord("add", job.read, job.moments, job.todo \ {group}, group, job.owned)
    BY <2>1, JobMoves DEF ShapeInv
  <2>3. job'.stage = "add"
    BY <2>2, JobByFields
  <2> QED BY <2>3
<1>6. CASE DedupLooks
  <2> DEFINE o == DeleteIds(job.group) \cap Stored
  <2>1. job' = AtStageOwning(job, "delete", o) /\ job.stage = "look" /\ points' = points
    BY <1>6 DEF DedupLooks, AtStageOwning
  <2> HIDE DEF o
  <2>2. job' = JobRecord("delete", job.read, job.moments, job.todo, job.group, o)
    BY <2>1, JobMoves DEF ShapeInv
  <2>3. job'.owned = o /\ job'.group = job.group /\ job'.read = job.read
    BY <2>2, JobByFields
  <2> QED BY <2>1, <2>3 DEF o, Stored
<1>7. \/ UNCHANGED job \/ job' = NoJob
      \/ \E kind \in {"dedup", "resummarize"} : \E taken : JobScans(kind, taken)
      \/ DedupMerges \/ DedupNext \/ DedupLooks
      \/ \E s \in {"look", "next"} : job' = AtStage(job, s)
  BY DEF EpisodicNext, episodicVars, Talk, ForgetLooks, WriteBegins, WriteConversation, WriteMoments,
         WriteFails, Forgets, ForgetFails, JobDone, JobFails, JobWrites, JobDies, Retried, AtStage
<1> QED BY <1>1, <1>2, <1>3, <1>4, <1>5, <1>6, <1>7

LEMMA JobSeesAllStep ==
  ASSUME ParentInv, EpisodicAssumption, [EpisodicNext]_episodicVars
  PROVE  JobSeesAll'
<1> SUFFICES ASSUME NEW c \in EConvs, c \notin crossed', job'.stage = "delete",
                    ConvPoint(c) \in job'.owned, NEW id \in MomentsOf(c), id \in Stored'
             PROVE  id \in job'.owned
  BY DEF JobSeesAll, MomentsOf, Moment, ConvPoint
<1>1. c \notin crossed /\ ShapeInv
  BY CrossedGrows DEF ParentInv
<1>2. CASE /\ job.stage = "look" /\ Stored' = Stored
           /\ job'.owned = DeleteIds(job.group) \cap Stored
  <2>1. id \in job.moments
    BY <1>1, <1>2 DEF ParentInv, JobKnowsMoments
  <2>2. ConvPoint(c) \notin job.moments
    BY <1>1, IdsDiffer DEF ShapeInv, JobShaped
  <2>3. ConvPoint(c) \in job.group
    BY <1>2, <2>2 DEF DeleteIds
  <2>4. Name(ConvPoint(c)) = c /\ id[2] = c
    BY IdsDiffer, MomentIds DEF Name
  <2> QED BY <1>2, <2>1, <2>3, <2>4 DEF DeleteIds
<1>3. CASE job' = job
  <2>1. job # NoJob /\ job.stage = "delete"
    BY <1>3 DEF NoJob
  <2>2. ~Writing(c) /\ MomentsOf(c) \cap Stored \subseteq job.owned
    BY <1>1, <1>3, <2>1 DEF ParentInv, NoWriteBesideJob, JobSeesAll
  <2>3. id \in Stored
    BY <1>1, <2>2, NewMoments DEF Writing
  <2> QED BY <1>3, <2>2, <2>3
<1> QED BY <1>1, <1>2, <1>3, JobOwns

\* The point of a conversation that is not crossed is taken away by a delete that has
\* seen every moment of it, while no write of it is under way.
LEMMA LostConversation ==
  ASSUME ParentInv, EpisodicAssumption, [EpisodicNext]_episodicVars,
         NEW c \in EConvs, c \notin crossed, ConvPoint(c) \in Stored, ConvPoint(c) \notin Stored'
  PROVE  ~Writing(c) /\ MomentsOf(c) \cap Stored' = {}
<1>1. CASE /\ forget.stage = "delete" /\ ConvPoint(c) \in forget.owned
           /\ Stored' = Stored \ forget.owned
  <2>1. ConvPoint(c) \in ForgetIds(forget.conv)
    BY <1>1 DEF ParentInv, ShapeInv, ForgetShaped
  <2>2. c = forget.conv
    BY <2>1, IdsDiffer, MomentIds DEF ForgetIds
  <2> QED BY <1>1, <2>2 DEF ParentInv, NoWriteBesideForget, ForgetSeesAll
<1>2. CASE /\ job.stage = "delete" /\ ConvPoint(c) \in job.owned
           /\ Stored' = Stored \ job.owned
  <2>1. job # NoJob
    BY <1>2 DEF NoJob
  <2> QED BY <1>2, <2>1 DEF ParentInv, NoWriteBesideJob, JobSeesAll
<1> QED BY <1>1, <1>2, LostPoints

LEMMA WrittenFirstStep ==
  ASSUME ParentInv, EpisodicAssumption, [EpisodicNext]_episodicVars
  PROVE  WrittenFirst'
<1> SUFFICES ASSUME NEW w \in Writers, writer'[w].stage = "moments", writer'[w].conv \notin crossed'
             PROVE  ConvPoint(writer'[w].conv) \in Stored'
  BY DEF WrittenFirst, ConvPoint
<1>1. PICK c : c = writer[w].conv
  OBVIOUS
<1>2. writer'[w].conv = c /\ c \notin crossed
  BY <1>1, ToMoments, CrossedGrows DEF ParentInv
<1>3. CASE writer[w].stage = "add" /\ AddConversation(w)
  BY <1>1, <1>2, <1>3, ConversationAdded
<1>4. CASE writer[w].stage = "moments"
  <2>1. c \in EConvs /\ Writing(c) /\ ConvPoint(c) \in Stored
    BY <1>1, <1>2, <1>4 DEF ParentInv, ShapeInv, WritersShaped, WrittenFirst, Writing, NoWriter
  <2> QED BY <1>2, <2>1, LostConversation
<1> QED BY <1>3, <1>4, ToMoments DEF ParentInv

LEMMA MomentsHaveParentStep ==
  ASSUME ParentInv, EpisodicAssumption, [EpisodicNext]_episodicVars
  PROVE  MomentsHaveParent'
<1> SUFFICES ASSUME NEW c \in EConvs, c \notin crossed', NEW id \in MomentsOf(c), id \in Stored',
                    ConvPoint(c) \notin Stored'
             PROVE  FALSE
  BY DEF MomentsHaveParent, MomentsOf, Moment, ConvPoint
<1>1. c \notin crossed /\ ShapeInv
  BY CrossedGrows DEF ParentInv
<1>2. CASE id \in Stored
  <2>1. ConvPoint(c) \in Stored
    BY <1>1, <1>2 DEF ParentInv, MomentsHaveParent
  <2> QED BY <1>1, <2>1, LostConversation
<1>3. CASE id \notin Stored
  <2>1. PICK w \in Writers : writer[w].stage = "moments" /\ writer[w].conv = c
    BY <1>1, <1>3, NewMoments
  <2>2. ConvPoint(c) \in Stored /\ Writing(c)
    BY <1>1, <2>1 DEF ParentInv, WrittenFirst, Writing
  <2> QED BY <1>1, <2>2, LostConversation
<1> QED BY <1>2, <1>3

LEMMA ParentInit == EpisodicInit => ParentInv
<1> SUFFICES ASSUME EpisodicInit PROVE ParentInv
  OBVIOUS
<1>1. Stored = {} /\ job = NoJob /\ forget = NoForget /\ \A w \in Writers : writer[w] = NoWriter
  BY DEF EpisodicInit, Stored
<1> QED BY <1>1, ShapeInit DEF ParentInv, NoWriteBesideJob, NoWriteBesideForget, ForgetSeesAll,
          JobKnowsMoments, JobSeesAll, WrittenFirst, MomentsHaveParent, NoJob, NoForget, NoWriter

LEMMA ParentInvariant == EpisodicSpec => []ParentInv
<1>1. ParentInv /\ [EpisodicNext]_episodicVars => ParentInv'
  <2> SUFFICES ASSUME ParentInv, [EpisodicNext]_episodicVars PROVE ParentInv'
    OBVIOUS
  <2>1. ShapeInv'
    BY EpisodicAssumption, PointsStep, JobStep, SessionsStep, WritersStep, ForgetStep, MarksStep
       DEF ParentInv, ShapeInv
  <2> QED BY <2>1, EpisodicAssumption, NoWriteBesideJobStep, NoWriteBesideForgetStep,
             ForgetSeesAllStep, JobKnowsMomentsStep, JobSeesAllStep, WrittenFirstStep,
             MomentsHaveParentStep DEF ParentInv
<1> QED BY ParentInit, <1>1, PTL DEF EpisodicSpec

\* A moment is stored beside the conversation it is taken from, and goes with it when
\* that is merged or forgotten, whatever fails and is retried, for every conversation
\* that was not written while something was deleting its points
\* (memory/episodic.py:163-190, 102-124, jobs/dedup.py:203-211).
THEOREM MomentsStayWithParent == EpisodicSpec => []MomentsHaveParent
<1>1. ParentInv => MomentsHaveParent
  BY DEF ParentInv
<1> QED BY <1>1, ParentInvariant, PTL

-----------------------------------------------------------------------------
(* What is forgotten stays so.                                             *)

\* Whether a point is of a conversation, or tells a turn of it.
Tells(id, text, c) == id[2] = c \/ \E t \in text : t[1] = c

\* While a forgetting is alone, there is nothing else to bring the conversation back,
AloneIsAlone ==
  forget.stage # "idle" /\ forget.alone => job = NoJob /\ ~Writing(forget.conv)

\* and its look has found all the points of the conversation.
AloneSeesAll ==
  forget.stage = "delete" /\ forget.alone
    => ForgetIds(forget.conv) \cap Stored \subseteq forget.owned

\* Afterwards nothing writes the conversation, and no job has read it but in a merge.
NoWriteOfForgotten == \A c \in forgotten : ~Writing(c)

NoReadOfForgotten ==
  \A c \in forgotten : \A id \in DOMAIN job.read : Tells(id, job.read[id], c) => id[1] = "dedup"

ForgottenInv ==
  /\ ShapeInv
  /\ AloneIsAlone /\ AloneSeesAll
  /\ NoWriteOfForgotten /\ NoReadOfForgotten
  /\ ForgottenStays

\* A conversation comes to be forgotten by a delete that is alone.
LEMMA NewlyForgotten ==
  ASSUME ShapeInv, [EpisodicNext]_episodicVars, NEW c \in forgotten', c \notin forgotten
  PROVE  Forgets /\ forget.alone /\ c = forget.conv /\ c \in EConvs
<1>1. Forgets
  BY DEF EpisodicNext, episodicVars, Talk, ForgetLooks, WriteBegins, WriteConversation, WriteMoments,
         WriteFails, ForgetFails, JobScans, DedupMerges, DedupNext, DedupLooks, JobDone, JobFails,
         JobDies
<1> QED BY <1>1 DEF Forgets, ShapeInv, ForgetShaped

\* A job's points are those of its scan.
LEMMA JobReads ==
  ASSUME ShapeInv, [EpisodicNext]_episodicVars
  PROVE  \/ job'.read = job.read
         \/ DOMAIN job'.read = {}
         \/ \E taken \in SUBSET Conversations : job'.read = [id \in taken |-> points[id]]
<1>1. CASE job' = NoJob
  BY <1>1 DEF NoJob
<1>2. CASE \E kind \in {"dedup", "resummarize"}, taken \in SUBSET Conversations : JobScans(kind, taken)
  <2>1. PICK kind \in {"dedup", "resummarize"}, taken \in SUBSET Conversations : JobScans(kind, taken)
    BY <1>2
  <2>2. job' = JobRecord(kind, [id \in taken |-> points[id]], {}, {}, {}, {})
    BY <2>1 DEF JobScans, NoJob, JobRecord
  <2>3. job'.read = [id \in taken |-> points[id]]
    BY <2>2 DEF JobRecord
  <2> QED BY <2>3
<1>3. CASE DedupMerges
  <2>1. PICK d, m : job' = AtStageAfter(job, "next", d, m)
    BY <1>3 DEF DedupMerges, AtStageAfter
  <2>2. job' = JobRecord("next", job.read, m, d, job.group, job.owned)
    BY <2>1, JobMoves DEF ShapeInv
  <2> QED BY <2>2, JobByFields
<1>4. CASE \E s \in {"look", "next"} : job' = AtStage(job, s)
  <2>1. PICK s \in {"look", "next"} : job' = AtStage(job, s)
    BY <1>4
  <2>2. job' = JobRecord(s, job.read, job.moments, job.todo, job.group, job.owned)
    BY <2>1, JobMoves DEF ShapeInv
  <2> QED BY <2>2, JobByFields
<1>5. CASE DedupNext /\ job' # NoJob
  <2>1. PICK group : job' = AtStageWith(job, "add", group, job.todo \ {group})
    BY <1>5 DEF DedupNext, AtStageWith
  <2>2. job' = JobRecord("add", job.read, job.moments, job.todo \ {group}, group, job.owned)
    BY <2>1, JobMoves DEF ShapeInv
  <2>3. job'.read = job.read
    BY <2>2, JobByFields
  <2> QED BY <2>3
<1>6. CASE DedupLooks
  <2>1. PICK o : job' = AtStageOwning(job, "delete", o)
    BY <1>6 DEF DedupLooks, AtStageOwning
  <2>2. job' = JobRecord("delete", job.read, job.moments, job.todo, job.group, o)
    BY <2>1, JobMoves DEF ShapeInv
  <2> QED BY <2>2, JobByFields
<1>7. \/ UNCHANGED job \/ job' = NoJob
      \/ \E kind \in {"dedup", "resummarize"}, taken \in SUBSET Conversations : JobScans(kind, taken)
      \/ DedupMerges \/ DedupNext \/ DedupLooks
      \/ \E s \in {"look", "next"} : job' = AtStage(job, s)
  BY DEF EpisodicNext, episodicVars, Talk, ForgetLooks, WriteBegins, WriteConversation, WriteMoments,
         WriteFails, Forgets, ForgetFails, JobDone, JobFails, JobWrites, JobDies, Retried, AtStage
<1> QED BY <1>1, <1>2, <1>3, <1>4, <1>5, <1>6, <1>7

LEMMA AloneIsAloneStep ==
  ASSUME ForgottenInv, [EpisodicNext]_episodicVars
  PROVE  AloneIsAlone'
<1> SUFFICES ASSUME forget'.stage # "idle", forget'.alone
             PROVE  job' = NoJob /\ ~(Writing(forget.conv)')
  BY DEF AloneIsAlone, NoJob
<1>1. CASE \E c \in EConvs : ForgetLooks(c)
  <2>1. PICK c \in EConvs : ForgetLooks(c)
    BY <1>1
  <2>2. forget'.alone = (forget.alone /\ job = NoJob /\ ~Writing(c)) /\ forget'.conv = c
    BY <2>1 DEF ForgetLooks
  <2>3. job = NoJob /\ ~Writing(c)
    BY <2>2
  <2>4. job' = job /\ writer' = writer
    BY <2>1 DEF ForgetLooks
  <2> QED BY <2>2, <2>3, <2>4 DEF Writing
<1>2. CASE forget.stage # "idle" /\ forget'.conv = forget.conv /\ forget.alone
  <2>1. job = NoJob /\ ~Writing(forget.conv) /\ forget.conv \in EConvs
    BY <1>2 DEF ForgottenInv, AloneIsAlone, ShapeInv, ForgetShaped
  <2>2. PICK c \in EConvs : c = forget.conv
    BY <2>1
  <2>3. ASSUME NEW kind, NEW taken, JobScans(kind, taken)
        PROVE  FALSE
    <3>1. forget # NoForget
      BY <1>2 DEF NoForget
    <3>2. forget' = [forget EXCEPT !.alone = FALSE]
      BY <2>3, <3>1 DEF JobScans
    <3> QED BY <3>2 DEF ForgottenInv, ShapeInv, ForgetShaped
  <2>4. ASSUME NEW w \in Writers, WriteBegins(w, c)
        PROVE  FALSE
    <3>1. forget' = [forget EXCEPT !.alone = FALSE]
      BY <2>2, <2>4 DEF WriteBegins
    <3> QED BY <3>1 DEF ForgottenInv, ShapeInv, ForgetShaped
  <2>5. job' = NoJob
    BY <2>1, <2>3, JobBegins DEF ForgottenInv, NoJob
  <2>6. ~(Writing(c)')
    BY <2>1, <2>2, <2>4, WritingStep DEF ForgottenInv
  <2> QED BY <1>2, <2>2, <2>5, <2>6 DEF Writing
<1> QED BY <1>1, <1>2, ForgetBegins DEF ForgottenInv

\* The points of a conversation come from its own write or from a job.
LEMMA NewOwnPoints ==
  ASSUME ShapeInv, EpisodicAssumption, [EpisodicNext]_episodicVars, NEW c \in EConvs,
         NEW id \in ForgetIds(c), id \in Stored', id \notin Stored, job = NoJob
  PROVE  Writing(c)
<1>1. (IsMoment(id) /\ id[2] = c) \/ id = ConvPoint(c)
  BY MomentIds DEF ForgetIds
<1>2. ~UNCHANGED points
  BY DEF Stored
<1>3. ~JobWrites
  BY DEF JobWrites, NoJob
<1>4. ASSUME NEW ids, Delete(ids) PROVE FALSE
  BY <1>4, Deleted
<1>5. ASSUME NEW w \in Writers, writer[w].stage = "add", AddConversation(w)
      PROVE  Writing(c)
  <2>1. id = ConvPoint(writer[w].conv)
    BY <1>5, ConversationAdded
  <2> QED BY <1>1, <1>5, <2>1, IdsDiffer DEF Writing
<1>6. ASSUME NEW w \in Writers, NEW n \in 0..MaxMoments, writer[w].stage = "moments",
             AddMoments(w, n)
      PROVE  Writing(c)
  <2>1. id \in MomentsOf(writer[w].conv)
    BY <1>6, MomentsAdded
  <2>2. IsMoment(id) /\ id[2] = writer[w].conv
    BY <2>1, MomentIds
  <2> QED BY <1>1, <1>6, <2>2, IdsDiffer DEF Writing
<1> QED BY <1>2, <1>3, <1>4, <1>5, <1>6, PointsChange

LEMMA AloneSeesAllStep ==
  ASSUME ForgottenInv, EpisodicAssumption, [EpisodicNext]_episodicVars
  PROVE  AloneSeesAll'
<1> SUFFICES ASSUME forget'.stage = "delete", forget'.alone, NEW c, c = forget'.conv,
                    NEW id \in ForgetIds(c), id \in Stored'
             PROVE  id \in forget'.owned
  BY DEF AloneSeesAll, ForgetIds, ConvPoint, MomentsOf, Moment
<1>1. CASE \E d \in EConvs : ForgetLooks(d)
  <2>1. PICK d \in EConvs : ForgetLooks(d)
    BY <1>1
  <2>2. forget'.conv = d /\ forget'.owned = ForgetIds(d) \cap Stored /\ Stored' = Stored
    BY <2>1 DEF ForgetLooks, Stored
  <2> QED BY <2>2
<1>2. CASE /\ forget.stage = "delete" /\ forget.conv = c /\ forget'.owned = forget.owned
           /\ forget.alone
  <2>1. job = NoJob /\ ~Writing(c) /\ c \in EConvs /\ ShapeInv
        /\ ForgetIds(c) \cap Stored \subseteq forget.owned
    BY <1>2 DEF ForgottenInv, AloneIsAlone, AloneSeesAll, ShapeInv, ForgetShaped
  <2>2. id \in Stored
    BY <2>1, NewOwnPoints
  <2> QED BY <1>2, <2>1, <2>2
<1> QED BY <1>1, <1>2, ForgetBegins DEF ForgottenInv

LEMMA NoWriteOfForgottenStep ==
  ASSUME ForgottenInv, [EpisodicNext]_episodicVars
  PROVE  NoWriteOfForgotten'
<1> SUFFICES ASSUME NEW c \in forgotten', Writing(c)' PROVE FALSE
  BY DEF NoWriteOfForgotten
<1>1. CASE c \in forgotten
  <2>1. ~Writing(c) /\ c \in EConvs
    BY <1>1 DEF ForgottenInv, NoWriteOfForgotten, ShapeInv, MarksShaped
  <2>2. PICK w \in Writers : WriteBegins(w, c)
    BY <2>1, WritingStep DEF ForgottenInv
  <2> QED BY <2>2 DEF WriteBegins
<1>2. CASE c \notin forgotten
  <2>1. Forgets /\ forget.alone /\ c = forget.conv
    BY <1>2, NewlyForgotten DEF ForgottenInv
  <2>2. ~Writing(c) /\ writer' = writer
    BY <2>1 DEF Forgets, ForgottenInv, AloneIsAlone
  <2> QED BY <2>2 DEF Writing
<1> QED BY <1>1, <1>2

LEMMA NoReadOfForgottenStep ==
  ASSUME ForgottenInv, [EpisodicNext]_episodicVars
  PROVE  NoReadOfForgotten'
<1> SUFFICES ASSUME NEW c \in forgotten', NEW id \in DOMAIN job'.read,
                    Tells(id, job'.read[id], c)
             PROVE  id[1] = "dedup"
  BY DEF NoReadOfForgotten, Tells
<1>1. CASE c \in forgotten
  <2>1. CASE job'.read = job.read
    BY <1>1, <2>1 DEF ForgottenInv, NoReadOfForgotten
  <2>2. CASE \E taken \in SUBSET Conversations : job'.read = [x \in taken |-> points[x]]
    <3>1. id \in Stored /\ job'.read[id] = points[id]
      BY <2>2 DEF Conversations
    <3> QED BY <1>1, <3>1 DEF ForgottenInv, ForgottenStays, Tells
  <2> QED BY <2>1, <2>2, JobReads DEF ForgottenInv
<1>2. CASE c \notin forgotten
  <2>1. Forgets /\ forget.alone
    BY <1>2, NewlyForgotten DEF ForgottenInv
  <2>2. job' = job /\ job = NoJob
    BY <2>1 DEF Forgets, ForgottenInv, AloneIsAlone
  <2> QED BY <2>2 DEF NoJob
<1> QED BY <1>1, <1>2

\* A point of its shape that tells of a conversation is a merge, or is its own.
LEMMA OwnOrMerged ==
  ASSUME NEW id, NEW text, Shaped(id, text), NEW c, Tells(id, text, c), id[1] # "dedup"
  PROVE  id \in ForgetIds(c)
<1>1. CASE \E d \in EConvs : id = ConvPoint(d) /\ text \subseteq TurnsOf(d)
  BY <1>1, IdsDiffer DEF Tells, TurnsOf, ForgetIds
<1>2. CASE \E d \in EConvs : id \in MomentsOf(d) /\ text = {}
  <2>1. PICK d \in EConvs : id \in MomentsOf(d) /\ text = {}
    BY <1>2
  <2>2. id[2] = d
    BY <2>1, MomentIds
  <2> QED BY <2>1, <2>2 DEF Tells, ForgetIds
<1> QED BY <1>1, <1>2 DEF Shaped

LEMMA ForgottenStaysStep ==
  ASSUME ForgottenInv, EpisodicAssumption, [EpisodicNext]_episodicVars
  PROVE  ForgottenStays'
<1> SUFFICES ASSUME NEW c \in forgotten', NEW id \in Stored', Tells(id, points'[id], c),
                    id[1] # "dedup"
             PROVE  FALSE
  BY DEF ForgottenStays, Tells
<1>1. c \in EConvs /\ ShapeInv
  <2>1. MarksShaped' /\ ShapeInv
    BY MarksStep DEF ForgottenInv
  <2> QED BY <2>1 DEF MarksShaped
<1>2. Shaped(id, points'[id])
  <2>1. PointsShaped'
    BY <1>1, PointsStep
  <2> QED BY <2>1 DEF PointsShaped, Stored, Shaped, ETurnIds, ConvPoint, MomentsOf, Moment, TurnsOf
<1>3. id \in ForgetIds(c)
  BY <1>2, OwnOrMerged
<1>4. CASE c \notin forgotten
  <2>1. Forgets /\ forget.alone /\ c = forget.conv
    BY <1>1, <1>4, NewlyForgotten
  <2>2. Delete(forget.owned) /\ ForgetIds(c) \cap Stored \subseteq forget.owned
    BY <2>1 DEF Forgets, ForgottenInv, AloneSeesAll
  <2>3. PICK ids : ids = forget.owned
    OBVIOUS
  <2>4. Stored' = Stored \ ids
    BY <2>2, <2>3, Deleted
  <2> QED BY <1>3, <2>2, <2>3, <2>4
<1>5. CASE c \in forgotten
  <2>1. ~Writing(c) /\ \A x \in Stored : Tells(x, points[x], c) => x[1] = "dedup"
    BY <1>5 DEF ForgottenInv, NoWriteOfForgotten, ForgottenStays, Tells
  <2>2. ~(id \in Stored /\ points'[id] = points[id])
    BY <2>1
  <2>3. ~UNCHANGED points
    BY <2>2 DEF Stored
  <2>4. ASSUME NEW ids, Delete(ids) PROVE FALSE
    BY <2>2, <2>4, Deleted
  <2>5. ASSUME NEW w \in Writers, writer[w].stage = "add", AddConversation(w) PROVE FALSE
    <3>1. id = ConvPoint(writer[w].conv)
      BY <2>2, <2>5, ConversationAdded
    <3>2. writer[w].conv = c
      BY <1>3, <3>1, IdsDiffer, MomentIds DEF ForgetIds
    <3> QED BY <2>1, <2>5, <3>2 DEF Writing
  <2>6. ASSUME NEW w \in Writers, NEW n \in 0..MaxMoments, writer[w].stage = "moments",
               AddMoments(w, n)
        PROVE  FALSE
    <3>1. id \in MomentsOf(writer[w].conv)
      BY <2>2, <2>6, MomentsAdded
    <3>2. IsMoment(id) /\ id[2] = writer[w].conv
      BY <3>1, MomentIds
    <3>3. writer[w].conv = c
      BY <1>3, <3>2, IdsDiffer, MomentIds DEF ForgetIds
    <3> QED BY <2>1, <2>6, <3>3 DEF Writing
  <2>7. ~JobWrites
    <3>1. ASSUME Add([x \in {Merged(job.group)} |-> MergedText(job.group)]) PROVE FALSE
      <4>1. id = Merged(job.group)
        BY <2>2, <3>1, MergedAdded
      <4> QED BY <4>1, IdsDiffer
    <3>2. ASSUME Add(job.read) PROVE FALSE
      <4>1. PICK new : new = job.read
        OBVIOUS
      <4>2. id \in DOMAIN new /\ points'[id] = new[id]
        BY <2>2, <3>2, <4>1, Added
      <4> QED BY <1>5, <4>1, <4>2 DEF ForgottenInv, NoReadOfForgotten
    <3> QED BY <2>4, <3>1, <3>2 DEF JobWrites
  <2> QED BY <2>3, <2>4, <2>5, <2>6, <2>7, PointsChange
<1> QED BY <1>4, <1>5

LEMMA ForgottenInvariant == EpisodicSpec => []ForgottenInv
<1>1. EpisodicInit => ForgottenInv
  <2> SUFFICES ASSUME EpisodicInit PROVE ForgottenInv
    OBVIOUS
  <2>1. Stored = {} /\ job = NoJob /\ forget = NoForget /\ forgotten = {}
    BY DEF EpisodicInit, Stored
  <2> QED BY <2>1, ShapeInit DEF ForgottenInv, AloneIsAlone, AloneSeesAll, NoWriteOfForgotten,
            NoReadOfForgotten, ForgottenStays, NoForget
<1>2. ForgottenInv /\ [EpisodicNext]_episodicVars => ForgottenInv'
  <2> SUFFICES ASSUME ForgottenInv, [EpisodicNext]_episodicVars PROVE ForgottenInv'
    OBVIOUS
  <2>1. ShapeInv'
    BY EpisodicAssumption, PointsStep, JobStep, SessionsStep, WritersStep, ForgetStep, MarksStep
       DEF ForgottenInv, ShapeInv
  <2> QED BY <2>1, EpisodicAssumption, AloneIsAloneStep, AloneSeesAllStep, NoWriteOfForgottenStep,
            NoReadOfForgottenStep, ForgottenStaysStep DEF ForgottenInv
<1> QED BY <1>1, <1>2, PTL DEF EpisodicSpec

\* Once a conversation is forgotten, with nothing else under way on it, neither a job nor
\* an old finalization brings back a point of its own; only a merge that had taken it over
\* still tells of it (memory/episodic.py:102-124, jobs/dedup.py:184-213,
\* jobs/resummarize.py).
THEOREM ForgottenStaysForgotten == EpisodicSpec => []ForgottenStays
<1>1. ForgottenInv => ForgottenStays
  BY DEF ForgottenInv
<1> QED BY <1>1, ForgottenInvariant, PTL

-----------------------------------------------------------------------------
(* A job costs the user nothing it has read.                               *)

\* A merged point is not one of its own sources, so that deleting them leaves it;
MergesDiffer ==
  \A id \in Stored \cup DOMAIN job.read : id[1] = "dedup" => id \notin id[2]

\* and between its writing and their deletion it tells all that they told.
MergedIsStored ==
  job.stage \in {"look", "delete"} =>
    Merged(job.group) \in Stored /\ MergedText(job.group) \subseteq points[Merged(job.group)]

RecallInv == ShapeInv /\ MergesDiffer /\ MergedIsStored

\* The merged point is none of the sources;
LEMMA NotItsSource ==
  ASSUME ShapeInv, MergesDiffer
  PROVE  Merged(job.group) \notin job.group
<1>1. Merged(job.group)[1] = "dedup" /\ Merged(job.group)[2] = job.group
  BY DEF Merged
<1>2. job.group \subseteq DOMAIN job.read
  BY DEF ShapeInv, JobShaped
<1> QED BY <1>1, <1>2 DEF MergesDiffer

\* nor is it among what the delete takes.
LEMMA NotDeleted ==
  ASSUME ShapeInv, MergesDiffer, job.stage = "delete"
  PROVE  Merged(job.group) \notin job.owned
<1>1. Merged(job.group) \notin job.moments
  BY IdsDiffer DEF ShapeInv, JobShaped
<1> QED BY <1>1, NotItsSource DEF ShapeInv, JobShaped, DeleteIds

LEMMA MergesDifferStep ==
  ASSUME RecallInv, EpisodicAssumption, [EpisodicNext]_episodicVars
  PROVE  MergesDiffer'
<1>1. ShapeInv /\ MergesDiffer
  BY DEF RecallInv
<1>2. \A id \in DOMAIN job'.read : id \in Stored \cup DOMAIN job.read
  BY <1>1, JobReads DEF Conversations
<1>3. ASSUME NEW id \in Stored', id[1] = "dedup" PROVE id \notin id[2]
  <2>1. CASE id \in Stored
    BY <1>1, <1>3, <2>1 DEF MergesDiffer
  <2>2. CASE id \notin Stored
    <3>1. ~UNCHANGED points
      BY <2>2 DEF Stored
    <3>2. ASSUME NEW ids, Delete(ids) PROVE FALSE
      BY <2>2, <3>2, Deleted
    <3>3. ASSUME NEW w \in Writers, AddConversation(w) PROVE FALSE
      BY <1>3, <2>2, <3>3, ConversationAdded, IdsDiffer
    <3>4. ASSUME NEW w \in Writers, NEW n \in 0..MaxMoments, AddMoments(w, n) PROVE FALSE
      <4>1. id \in MomentsOf(writer[w].conv)
        BY <2>2, <3>4, MomentsAdded
      <4> QED BY <1>3, <4>1, MomentIds
    <3>5. CASE Add([x \in {Merged(job.group)} |-> MergedText(job.group)])
      <4>1. id = Merged(job.group)
        BY <2>2, <3>5, MergedAdded
      <4>2. id[2] = job.group
        BY <4>1 DEF Merged
      <4> QED BY <1>1, <4>1, <4>2, NotItsSource
    <3>6. CASE Add(job.read)
      <4>1. PICK new : new = job.read
        OBVIOUS
      <4>2. id \in DOMAIN new
        BY <2>2, <3>6, <4>1, Added
      <4> QED BY <1>1, <1>3, <4>1, <4>2 DEF MergesDiffer
    <3> QED BY <3>1, <3>2, <3>3, <3>4, <3>5, <3>6, PointsChange DEF JobWrites
  <2> QED BY <2>1, <2>2
<1>4. \A id \in Stored \cup DOMAIN job.read : id[1] = "dedup" => id \notin id[2]
  BY <1>1 DEF MergesDiffer
<1> QED BY <1>2, <1>3, <1>4 DEF MergesDiffer

\* Until its sources are deleted, nothing touches the merged point.
LEMMA MergedKept ==
  ASSUME RecallInv, EpisodicAssumption, [EpisodicNext]_episodicVars,
         job.stage \in {"look", "delete"}
  PROVE  /\ Merged(job.group) \in Stored'
         /\ points'[Merged(job.group)] = points[Merged(job.group)]
<1>1. PICK m : m = Merged(job.group)
  OBVIOUS
<1>2. m \in Stored /\ ShapeInv /\ MergesDiffer
  BY <1>1 DEF RecallInv, MergedIsStored
<1>3. m[1] = "dedup" /\ ~IsMoment(m) /\ \A c : m # ConvPoint(c) /\ m \notin MomentsOf(c)
  BY <1>1, IdsDiffer, MomentIds
<1>4. CASE UNCHANGED points
  BY <1>1, <1>2, <1>4 DEF Stored
<1>5. CASE \E w \in Writers : writer[w].stage = "add" /\ AddConversation(w)
  BY <1>1, <1>2, <1>3, <1>5, ConversationAdded
<1>6. CASE \E w \in Writers, n \in 0..MaxMoments : writer[w].stage = "moments" /\ AddMoments(w, n)
  <2>1. PICK w \in Writers, n \in 0..MaxMoments : AddMoments(w, n)
    BY <1>6
  <2>2. PICK ids \in SUBSET MomentsOf(writer[w].conv) :
          Stored' = Stored \cup ids /\ \A id \in Stored \ ids : points'[id] = points[id]
    BY <2>1, MomentsAdded
  <2> QED BY <1>1, <1>2, <1>3, <2>2
<1>7. CASE forget.stage = "delete" /\ Delete(forget.owned)
  <2>1. PICK ids : ids = forget.owned
    OBVIOUS
  <2>2. m \notin ids
    BY <1>2, <1>3, <1>7, <2>1 DEF ShapeInv, ForgetShaped, ForgetIds
  <2> QED BY <1>1, <1>2, <1>7, <2>1, <2>2, Deleted
<1>8. CASE JobWrites
  <2>1. job.stage = "delete" /\ Delete(job.owned)
    BY <1>8 DEF JobWrites
  <2>2. PICK ids : ids = job.owned
    OBVIOUS
  <2>3. m \notin ids
    BY <1>1, <1>2, <2>1, <2>2, NotDeleted
  <2> QED BY <1>1, <1>2, <2>1, <2>2, <2>3, Deleted
<1> QED BY <1>4, <1>5, <1>6, <1>7, <1>8, PointsChange

\* A merge gets to the deletion of its sources by the write of its point.
LEMMA JobMerging ==
  ASSUME ShapeInv, [EpisodicNext]_episodicVars, job'.stage \in {"look", "delete"}
  PROVE  /\ job'.group = job.group /\ job'.read = job.read
         /\ \/ job.stage \in {"look", "delete"}
            \/ job.stage = "add" /\ JobWrites
<1>1. CASE job' = job
  BY <1>1
<1>2. CASE job' = NoJob
  BY <1>2 DEF NoJob
<1>3. CASE \E kind \in {"dedup", "resummarize"} : \E taken : JobScans(kind, taken)
  BY <1>3 DEF JobScans, NoJob
<1>4. CASE DedupMerges
  <2>1. PICK d, m : job' = AtStageAfter(job, "next", d, m)
    BY <1>4 DEF DedupMerges, AtStageAfter
  <2>2. job' = JobRecord("next", job.read, m, d, job.group, job.owned)
    BY <2>1, JobMoves DEF ShapeInv
  <2> QED BY <2>2, JobByFields
<1>5. CASE DedupNext /\ job' # NoJob
  <2>1. PICK group : job' = AtStageWith(job, "add", group, job.todo \ {group})
    BY <1>5 DEF DedupNext, AtStageWith
  <2>2. job' = JobRecord("add", job.read, job.moments, job.todo \ {group}, group, job.owned)
    BY <2>1, JobMoves DEF ShapeInv
  <2>3. job'.stage = "add"
    BY <2>2, JobByFields
  <2> QED BY <2>3
<1>6. CASE DedupLooks
  <2>1. PICK o : job' = AtStageOwning(job, "delete", o) /\ job.stage = "look"
    BY <1>6 DEF DedupLooks, AtStageOwning
  <2>2. job' = JobRecord("delete", job.read, job.moments, job.todo, job.group, o)
    BY <2>1, JobMoves DEF ShapeInv
  <2> QED BY <2>1, <2>2, JobByFields
<1>7. CASE \E s \in {"look", "next"} :
             /\ job' = AtStage(job, s)
             /\ job.stage = "delete" \/ (job.stage = "add" /\ JobWrites)
  <2>1. PICK s \in {"look", "next"} : job' = AtStage(job, s)
    BY <1>7
  <2>2. job' = JobRecord(s, job.read, job.moments, job.todo, job.group, job.owned)
    BY <2>1, JobMoves DEF ShapeInv
  <2>3. job'.group = job.group /\ job'.read = job.read
    BY <2>2, JobByFields
  <2> QED BY <1>7, <2>3
<1>8. JobDone =>
        \/ job' = NoJob
        \/ \E s \in {"look", "next"} :
             /\ job' = AtStage(job, s)
             /\ job.stage = "delete" \/ (job.stage = "add" /\ JobWrites)
  BY DEF JobDone, JobWrites, AtStage
<1>9. JobFails =>
        \/ job' = NoJob \/ job' = job
        \/ job.stage = "delete" /\ job' = AtStage(job, "look")
  BY DEF JobFails, Retried, AtStage
<1>10. \/ UNCHANGED job \/ job' = NoJob
       \/ \E kind \in {"dedup", "resummarize"} : \E taken : JobScans(kind, taken)
       \/ DedupMerges \/ DedupNext \/ DedupLooks \/ JobDone \/ JobFails
  BY DEF EpisodicNext, episodicVars, Talk, ForgetLooks, WriteBegins, WriteConversation, WriteMoments,
         WriteFails, Forgets, ForgetFails, JobDies
<1> QED BY <1>1, <1>2, <1>3, <1>4, <1>5, <1>6, <1>7, <1>8, <1>9, <1>10

LEMMA MergedIsStoredStep ==
  ASSUME RecallInv, EpisodicAssumption, [EpisodicNext]_episodicVars
  PROVE  MergedIsStored'
<1> SUFFICES ASSUME job'.stage \in {"look", "delete"}
             PROVE  /\ Merged(job'.group) \in Stored'
                    /\ UNION {job'.read[id] : id \in job'.group} \subseteq points'[Merged(job'.group)]
  BY DEF MergedIsStored, MergedText, Merged
<1>1. job'.group = job.group /\ job'.read = job.read
  BY JobMerging DEF RecallInv
<1>2. CASE job.stage \in {"look", "delete"}
  BY <1>1, <1>2, MergedKept DEF RecallInv, MergedIsStored, MergedText
<1>3. CASE job.stage = "add" /\ JobWrites
  <2>1. Add([id \in {Merged(job.group)} |-> MergedText(job.group)])
    BY <1>3 DEF JobWrites
  <2>2. Merged(job.group) \in Stored' /\ points'[Merged(job.group)] = MergedText(job.group)
    BY <2>1, MergedAdded
  <2> QED BY <1>1, <2>2 DEF MergedText
<1> QED BY <1>2, <1>3, JobMerging DEF RecallInv

LEMMA RecallInvariant == EpisodicSpec => []RecallInv
<1>1. EpisodicInit => RecallInv
  <2> SUFFICES ASSUME EpisodicInit PROVE RecallInv
    OBVIOUS
  <2>1. Stored = {} /\ job = NoJob
    BY DEF EpisodicInit, Stored
  <2> QED BY <2>1, ShapeInit DEF RecallInv, MergesDiffer, MergedIsStored, NoJob
<1>2. RecallInv /\ [EpisodicNext]_episodicVars => RecallInv'
  <2> SUFFICES ASSUME RecallInv, [EpisodicNext]_episodicVars PROVE RecallInv'
    OBVIOUS
  <2>1. ShapeInv'
    BY EpisodicAssumption, PointsStep, JobStep, SessionsStep, WritersStep, ForgetStep, MarksStep
       DEF RecallInv, ShapeInv
  <2> QED BY <2>1, EpisodicAssumption, MergesDifferStep, MergedIsStoredStep DEF RecallInv
<1> QED BY <1>1, <1>2, PTL DEF EpisodicSpec

\* A turn that a search no longer brings back was in a conversation's point that is
\* gone or that no longer tells it.
LEMMA LostTurn ==
  ASSUME NEW t \in Recalled, t \notin Recalled'
  PROVE  \E id \in Conversations :
           t \in points[id] /\ (id \in Stored' => t \notin points'[id])
<1>1. PICK id \in Conversations : t \in points[id]
  BY DEF Recalled
<1>2. id \in Stored' => id \in Conversations'
  BY DEF Conversations, IsMoment, Stored
<1>3. id \in Stored' => t \notin points'[id]
  BY <1>2 DEF Recalled
<1> QED BY <1>1, <1>3

\* What is still told by a point that is not a moment is still recalled.
LEMMA StillTold ==
  ASSUME NEW t, NEW id \in Stored', ~IsMoment(id), t \in points'[id]
  PROVE  t \in Recalled'
<1>1. id \in Conversations'
  BY DEF Conversations, IsMoment, Stored
<1> QED BY <1>1 DEF Recalled

\* Writing a conversation loses what the new text has not;
LEMMA WriteCosts ==
  ASSUME ShapeInv, NEW t \in Recalled, t \notin Recalled',
         NEW w \in Writers, writer[w].stage = "add", AddConversation(w)
  PROVE  Rewritten(t)
<1>1. PICK id \in Conversations : t \in points[id] /\ (id \in Stored' => t \notin points'[id])
  BY LostTurn
<1>2. id \in Stored /\ Shaped(id, points[id])
  BY DEF Conversations, ShapeInv, PointsShaped
<1>3. id = ConvPoint(writer[w].conv)
  BY <1>1, <1>2, ConversationAdded
<1>4. PICK c \in EConvs : id = ConvPoint(c) /\ points[id] \subseteq TurnsOf(c)
  BY <1>2, <1>3, IdsDiffer, MomentIds DEF Shaped
<1>5. c = writer[w].conv /\ t[1] = c
  <2>1. id[2] = c /\ id[2] = writer[w].conv
    BY <1>3, <1>4, IdsDiffer
  <2> QED BY <1>1, <1>4, <2>1 DEF TurnsOf
<1> QED BY <1>1, <1>2, <1>3, <1>5 DEF Rewritten

\* forgetting one loses what it says;
LEMMA ForgetCosts ==
  ASSUME ShapeInv, NEW t \in Recalled, t \notin Recalled',
         forget.stage = "delete", Delete(forget.owned)
  PROVE  Forgotten(t)
<1>1. PICK id \in Conversations : t \in points[id] /\ (id \in Stored' => t \notin points'[id])
  BY LostTurn
<1>2. id \in Stored /\ ~IsMoment(id) /\ Shaped(id, points[id])
  BY DEF Conversations, ShapeInv, PointsShaped
<1>3. PICK ids : ids = forget.owned
  OBVIOUS
<1>4. id \in ids
  BY <1>1, <1>2, <1>3, Deleted
<1>5. id = ConvPoint(forget.conv)
  BY <1>2, <1>3, <1>4, MomentIds DEF ShapeInv, ForgetShaped, ForgetIds
<1>6. PICK c \in EConvs : id = ConvPoint(c) /\ points[id] \subseteq TurnsOf(c)
  BY <1>2, <1>5, IdsDiffer, MomentIds DEF Shaped
<1>7. c = forget.conv /\ t[1] = c
  <2>1. id[2] = c /\ id[2] = forget.conv
    BY <1>5, <1>6, IdsDiffer
  <2> QED BY <1>1, <1>6, <2>1 DEF TurnsOf
<1> QED BY <1>7 DEF Forgotten

\* and a job loses what it has not read, and the merge it replaces.
LEMMA JobCosts ==
  ASSUME RecallInv, EpisodicAssumption, [EpisodicNext]_episodicVars,
         NEW t \in Recalled, t \notin Recalled', JobWrites
  PROVE  GoneStale(t) \/ Replaced(t)
<1>1. PICK id \in Conversations : t \in points[id] /\ (id \in Stored' => t \notin points'[id])
  BY LostTurn
<1>2. id \in Stored /\ ~IsMoment(id)
  BY DEF Conversations
<1>3. ShapeInv /\ MergesDiffer
  BY DEF RecallInv
<1>4. CASE job.stage = "add" /\ Add([x \in {Merged(job.group)} |-> MergedText(job.group)])
  <2>1. id = Merged(job.group)
    BY <1>1, <1>2, <1>4, MergedAdded
  <2> QED BY <1>1, <1>2, <1>3, <1>4, <2>1, NotItsSource DEF Replaced
<1>5. CASE job.stage = "delete" /\ Delete(job.owned)
  <2>1. PICK ids : ids = job.owned
    OBVIOUS
  <2>2. id \in ids
    BY <1>1, <1>2, <1>5, <2>1, Deleted
  <2>3. id \in job.group
    BY <1>2, <1>3, <1>5, <2>1, <2>2 DEF ShapeInv, JobShaped, DeleteIds
  <2>4. t \notin MergedText(job.group)
    <3>1. PICK m : m = Merged(job.group)
      OBVIOUS
    <3>2. m \in Stored' /\ points'[m] = points[m] /\ MergedText(job.group) \subseteq points[m]
      BY <1>5, <3>1, MergedKept DEF RecallInv, MergedIsStored
    <3>3. ~IsMoment(m)
      BY <3>1, IdsDiffer
    <3> QED BY <3>2, <3>3, StillTold
  <2> QED BY <1>1, <1>2, <1>5, <2>3, <2>4 DEF GoneStale
<1>6. CASE job.stage = "resummarize" /\ Add(job.read)
  <2>1. PICK new : new = job.read
    OBVIOUS
  <2>2. id \in DOMAIN new /\ id \in Stored' /\ points'[id] = new[id]
    BY <1>1, <1>2, <1>6, <2>1, Added
  <2> QED BY <1>1, <1>2, <1>6, <2>1, <2>2 DEF GoneStale
<1> QED BY <1>4, <1>5, <1>6 DEF JobWrites

\* Whatever fails, is retried or killed, and whatever runs beside it, a maintenance job
\* never costs the user a turn that it has read, nor any of a point it does not work on
\* (jobs/dedup.py:184-213, jobs/resummarize.py).
THEOREM JobsCostNothing == EpisodicSpec => RecallKept
<1>1. RecallInv /\ [EpisodicNext]_episodicVars
        => [\A t \in Recalled \ Recalled' :
              Rewritten(t) \/ Forgotten(t) \/ GoneStale(t) \/ Replaced(t)]_episodicVars
  <2> SUFFICES ASSUME RecallInv, [EpisodicNext]_episodicVars,
                      NEW t \in Recalled, t \notin Recalled'
               PROVE  Rewritten(t) \/ Forgotten(t) \/ GoneStale(t) \/ Replaced(t)
    BY Zenon
  <2>1. ShapeInv
    BY DEF RecallInv
  <2>2. CASE UNCHANGED points
    BY <2>2 DEF Recalled, Conversations, Stored
  <2>3. CASE \E w \in Writers : writer[w].stage = "add" /\ AddConversation(w)
    BY <2>1, <2>3, WriteCosts
  <2>4. CASE \E w \in Writers, n \in 0..MaxMoments : AddMoments(w, n)
    <3>1. PICK w \in Writers, n \in 0..MaxMoments : AddMoments(w, n)
      BY <2>4
    <3>2. PICK ids \in SUBSET MomentsOf(writer[w].conv) :
            Stored' = Stored \cup ids /\ \A id \in Stored \ ids : points'[id] = points[id]
      BY <3>1, EpisodicAssumption, MomentsAdded
    <3>3. PICK id \in Conversations : t \in points[id] /\ (id \in Stored' => t \notin points'[id])
      BY LostTurn
    <3> QED BY <3>2, <3>3, MomentIds DEF Conversations
  <2>5. CASE forget.stage = "delete" /\ Delete(forget.owned)
    BY <2>1, <2>5, ForgetCosts
  <2>6. CASE JobWrites
    BY <2>6, EpisodicAssumption, JobCosts
  <2> QED BY <2>2, <2>3, <2>4, <2>5, <2>6, EpisodicAssumption, PointsChange
<1> QED BY <1>1, RecallInvariant, PTL DEF EpisodicSpec, RecallKept

-----------------------------------------------------------------------------
(* The groups of the dedup job.  The parents form trees: to every point      *)
(* belong the root above it and a number of steps that the way there cannot  *)
(* exceed.  Halving a path changes neither, and a union hangs one tree below *)
(* the root of another.                                                      *)

ClustersShaped ==
  /\ similar \subseteq Pairs /\ todo \subseteq similar
  /\ parent \in [Nodes -> Nodes]
  /\ rx \in 0..Size /\ ry \in 0..Size
  /\ rx = 0 => ry = 0
  /\ roots \in Seq(Nodes) /\ Len(roots) <= Size

\* The root above each point, and a bound on the steps to it.
AreTrees(root, depth) ==
  /\ root \in [Nodes -> Nodes] /\ depth \in [Nodes -> Nat]
  /\ \A x \in Nodes : root[parent[x]] = root[x]
  /\ \A x \in Nodes : IsRoot(root[x])
  /\ \A x \in Nodes : IsRoot(x) => root[x] = x
  /\ \A x \in Nodes : ~IsRoot(x) => depth[parent[x]] < depth[x]

\* The edges taken are within one tree, but for the one that is being taken.
EdgesJoined(root) ==
  \A e \in similar \ todo :
    \/ root[e[1]] = root[e[2]]
    \/ rx # 0 /\ ry # 0 /\ root[e[1]] = root[rx] /\ root[e[2]] = root[ry]

\* A tree crosses no component, and a union is of two trees with an edge between them.
TreesInside(root) ==
  /\ \A S \in SUBSET Nodes : Closed(S, similar) => \A x \in Nodes : x \in S <=> root[x] \in S
  /\ ry # 0 => \E e \in similar : root[e[1]] = root[rx] /\ root[e[2]] = root[ry]

\* The roots are looked up after the last edge.
RootsPlaced(root) ==
  /\ \A i \in 1..Len(roots) : roots[i] = root[i]
  /\ roots # <<>> => todo = {} /\ ry = 0
  /\ rx # 0 /\ ry = 0 => todo = {} /\ Len(roots) < Size /\ root[rx] = root[Len(roots) + 1]

TreesInv(root, depth) ==
  AreTrees(root, depth) /\ EdgesJoined(root) /\ TreesInside(root) /\ RootsPlaced(root)

ClustersInv == ClustersShaped /\ \E root, depth : TreesInv(root, depth)

\* A nonempty set of naturals has a least element.

\* A nonempty set of naturals has a least element.
LEMMA LeastNatural ==
  ASSUME NEW S \in SUBSET Nat, S # {}
  PROVE  \E m \in S : \A x \in S : m <= x
<1>1. \E x \in S : \A y \in S : ~(<<y, x>> \in OpToRel(<, Nat))
  BY NatLessThanWellFounded, WFMin
<1>2. ASSUME NEW x \in Nat, NEW y \in Nat, ~(<<y, x>> \in OpToRel(<, Nat))
      PROVE  x <= y
  BY <1>2 DEF OpToRel
<1> QED
  BY <1>1, <1>2

\* A pair is an edge between two points.
LEMMA PairOfNodes ==
  ASSUME ClustersAssumption, NEW e \in Pairs
  PROVE  e[1] \in Nodes /\ e[2] \in Nodes /\ e[1] # 0 /\ e[2] # 0 /\ e[1] \in 0..Size /\ e[2] \in 0..Size
BY DEF ClustersAssumption, Pairs, Nodes

LEMMA ClustersInitInv ==
  ASSUME ClustersAssumption, ClustersInit
  PROVE  ClustersInv
<1> DEFINE root == [x \in Nodes |-> x]
           depth == [x \in Nodes |-> 0]
<1>1. ClustersShaped
  BY DEF ClustersAssumption, ClustersInit, ClustersShaped, Nodes
<1>2. AreTrees(root, depth)
  BY DEF ClustersInit, AreTrees, IsRoot
<1>3. EdgesJoined(root) /\ TreesInside(root) /\ RootsPlaced(root)
  BY DEF ClustersInit, EdgesJoined, TreesInside, RootsPlaced
<1> QED BY <1>1, <1>2, <1>3 DEF ClustersInv, TreesInv

\* Climbing two parents at a time leads to the same root.
LEMMA HalvingKeepsTrees ==
  ASSUME NEW root, NEW depth, NEW x \in Nodes,
         parent \in [Nodes -> Nodes], AreTrees(root, depth), ~IsRoot(x), Halve(x)
  PROVE  /\ AreTrees(root, depth)'
         /\ parent' \in [Nodes -> Nodes]
         /\ parent'[x] \in Nodes
         /\ root[parent'[x]] = root[x]
<1> DEFINE p == parent[parent[x]]
<1>1. parent[x] \in Nodes /\ p \in Nodes
  OBVIOUS
<1>2. parent' = [parent EXCEPT ![x] = p]
  BY DEF Halve
<1>3. parent' \in [Nodes -> Nodes] /\ parent'[x] = p /\ \A y \in Nodes \ {x} : parent'[y] = parent[y]
  BY <1>1, <1>2
<1>4. root[p] = root[x]
  BY <1>1 DEF AreTrees
<1>5. depth[p] < depth[x]
  <2>1. depth[parent[x]] < depth[x]
    BY DEF AreTrees
  <2>2. p = parent[x] \/ depth[p] < depth[parent[x]]
    BY <1>1 DEF AreTrees, IsRoot
  <2>3. depth[p] \in Nat /\ depth[parent[x]] \in Nat /\ depth[x] \in Nat
    BY <1>1 DEF AreTrees
  <2> HIDE DEF p
  <2> QED BY <2>1, <2>2, <2>3
<1>6. p # x
  BY <1>1, <1>5 DEF AreTrees
<1> HIDE DEF p
<1>7. \A y \in Nodes : IsRoot(y)' <=> IsRoot(y)
  BY <1>3, <1>6 DEF IsRoot
<1>8. \A y \in Nodes : root[parent'[y]] = root[y]
  BY <1>3, <1>4 DEF AreTrees
<1>9. \A y \in Nodes : ~IsRoot(y) => depth[parent'[y]] < depth[y]
  BY <1>3, <1>5 DEF AreTrees
<1> QED BY <1>1, <1>3, <1>4, <1>7, <1>8, <1>9 DEF AreTrees

LEMMA NextEdgeKeeps ==
  ASSUME ClustersAssumption, ClustersInv, NextEdge
  PROVE  ClustersInv'
<1>1. PICK root, depth : TreesInv(root, depth)
  BY DEF ClustersInv
<1>2. PICK e \in todo : rx' = e[1] /\ ry' = e[2] /\ todo' = todo \ {e}
  BY DEF NextEdge
<1>3. e \in similar /\ e \in Pairs
  BY DEF ClustersInv, ClustersShaped
<1>4. /\ e[1] \in Nodes /\ e[2] \in Nodes /\ e[1] # 0 /\ e[2] # 0
      /\ e[1] \in 0..Size /\ e[2] \in 0..Size
  BY <1>3, PairOfNodes
<1>5. UNCHANGED <<similar, parent, roots>> /\ rx = 0 /\ ry = 0
  BY DEF NextEdge, ClustersInv, ClustersShaped
<1>6. ClustersShaped'
  BY <1>2, <1>4, <1>5 DEF ClustersInv, ClustersShaped
<1>7. AreTrees(root, depth)'
  BY <1>1, <1>5 DEF TreesInv, AreTrees, IsRoot
<1>8. EdgesJoined(root)'
  BY <1>1, <1>2, <1>4, <1>5 DEF TreesInv, EdgesJoined
<1>9. TreesInside(root)'
  BY <1>1, <1>2, <1>3, <1>5 DEF TreesInv, TreesInside
<1>10. RootsPlaced(root)'
  <2>1. todo # {}
    BY <1>2
  <2> QED BY <1>1, <1>2, <1>4, <1>5, <2>1 DEF TreesInv, RootsPlaced
<1> QED BY <1>6, <1>7, <1>8, <1>9, <1>10 DEF ClustersInv, TreesInv

LEMMA FindXKeeps ==
  ASSUME ClustersAssumption, ClustersInv, FindX
  PROVE  ClustersInv'
<1>1. PICK root, depth : TreesInv(root, depth)
  BY DEF ClustersInv
<1>2. rx \in Nodes /\ parent \in [Nodes -> Nodes]
  <2>1. rx \in 0..Size /\ ry \in 0..Size /\ parent \in [Nodes -> Nodes]
    BY DEF ClustersInv, ClustersShaped
  <2>2. rx # 0
    BY DEF FindX
  <2> QED BY <2>1, <2>2, ClustersAssumption DEF ClustersAssumption, Nodes
<1>3. /\ AreTrees(root, depth)' /\ parent' \in [Nodes -> Nodes]
      /\ rx' \in Nodes /\ root[rx'] = root[rx]
  BY <1>1, <1>2, HalvingKeepsTrees DEF TreesInv, FindX
<1>4. rx # 0 /\ rx' # 0 /\ rx' \in 0..Size
  BY <1>3 DEF FindX, Nodes, ClustersAssumption
<1>5. UNCHANGED <<similar, todo, ry, roots>>
  BY DEF FindX
<1>6. ClustersShaped'
  BY <1>3, <1>4, <1>5 DEF ClustersInv, ClustersShaped
<1>7. EdgesJoined(root)'
  BY <1>1, <1>3, <1>4, <1>5 DEF TreesInv, EdgesJoined
<1>8. TreesInside(root)' /\ RootsPlaced(root)'
  BY <1>1, <1>3, <1>4, <1>5 DEF TreesInv, TreesInside, RootsPlaced
<1> QED BY <1>3, <1>6, <1>7, <1>8 DEF ClustersInv, TreesInv

LEMMA FindYKeeps ==
  ASSUME ClustersAssumption, ClustersInv, FindY
  PROVE  ClustersInv'
<1>1. PICK root, depth : TreesInv(root, depth)
  BY DEF ClustersInv
<1>2. ry \in Nodes /\ parent \in [Nodes -> Nodes]
  <2>1. rx \in 0..Size /\ ry \in 0..Size /\ parent \in [Nodes -> Nodes]
    BY DEF ClustersInv, ClustersShaped
  <2>2. ry # 0
    BY DEF FindY
  <2> QED BY <2>1, <2>2, ClustersAssumption DEF ClustersAssumption, Nodes
<1>3. /\ AreTrees(root, depth)' /\ parent' \in [Nodes -> Nodes]
      /\ ry' \in Nodes /\ root[ry'] = root[ry]
  BY <1>1, <1>2, HalvingKeepsTrees DEF TreesInv, FindY
<1>4. rx # 0 /\ ry # 0 /\ ry' # 0 /\ ry' \in 0..Size
  BY <1>3 DEF FindY, Nodes, ClustersAssumption
<1>5. UNCHANGED <<similar, todo, rx, roots>>
  BY DEF FindY
<1>6. ClustersShaped'
  BY <1>3, <1>4, <1>5 DEF ClustersInv, ClustersShaped
<1>7. EdgesJoined(root)'
  BY <1>1, <1>3, <1>4, <1>5 DEF TreesInv, EdgesJoined
<1>8. TreesInside(root)' /\ RootsPlaced(root)'
  BY <1>1, <1>3, <1>4, <1>5 DEF TreesInv, TreesInside, RootsPlaced
<1> QED BY <1>3, <1>6, <1>7, <1>8 DEF ClustersInv, TreesInv

\* The tree of rx comes to hang below ry, deeper by what lies above it now.
LEMMA UnionKeeps ==
  ASSUME ClustersAssumption, ClustersInv, Union
  PROVE  ClustersInv'
<1>1. PICK root, depth : TreesInv(root, depth)
  BY DEF ClustersInv
<1>2. rx \in Nodes /\ ry \in Nodes /\ parent \in [Nodes -> Nodes]
  <2>1. rx \in 0..Size /\ ry \in 0..Size /\ parent \in [Nodes -> Nodes]
    BY DEF ClustersInv, ClustersShaped
  <2>2. rx # 0 /\ ry # 0
    BY DEF Union
  <2> QED BY <2>1, <2>2, ClustersAssumption DEF ClustersAssumption, Nodes
<1>3. UNCHANGED <<similar, todo, roots>> /\ rx' = 0 /\ ry' = 0
  BY DEF Union
<1>4. /\ parent' \in [Nodes -> Nodes]
      /\ \A x \in Nodes : parent'[x] = IF x = rx THEN ry ELSE parent[x]
  BY <1>2 DEF Union
<1>5. ClustersShaped'
  BY <1>3, <1>4 DEF ClustersInv, ClustersShaped, ClustersAssumption
<1>6. IsRoot(rx) /\ IsRoot(ry) /\ root[rx] = rx /\ root[ry] = ry
  BY <1>1, <1>2 DEF Union, TreesInv, AreTrees
<1>7. AreTrees(root, depth)
  BY <1>1 DEF TreesInv
<1>8. PICK joined \in [Nodes -> Nodes] :
        \A x \in Nodes : joined[x] = IF root[x] = rx THEN ry ELSE root[x]
  <2> DEFINE j == [x \in Nodes |-> IF root[x] = rx THEN ry ELSE root[x]]
  <2>1. j \in [Nodes -> Nodes] /\ \A x \in Nodes : j[x] = IF root[x] = rx THEN ry ELSE root[x]
    BY <1>2, <1>7 DEF AreTrees
  <2> HIDE DEF j
  <2> QED BY <2>1
<1>9. \E deeper : AreTrees(joined, deeper)'
  <2>1. CASE rx = ry
    <3>1. parent' = parent
      BY <1>2, <1>6, <2>1 DEF Union, IsRoot
    <3>2. joined = root
      BY <1>7, <1>8, <2>1 DEF AreTrees
    <3> QED BY <1>7, <3>1, <3>2 DEF AreTrees, IsRoot
  <2>2. CASE rx # ry
    <3>1. PICK deeper \in [Nodes -> Nat] :
            \A x \in Nodes :
              deeper[x] = IF root[x] = rx THEN depth[x] + depth[ry] + 1 ELSE depth[x]
      <4> DEFINE d == [x \in Nodes |-> IF root[x] = rx THEN depth[x] + depth[ry] + 1 ELSE depth[x]]
      <4>1. d \in [Nodes -> Nat]
        BY <1>2, <1>7 DEF AreTrees
      <4> QED BY <4>1
    <3>2. \A x \in Nodes : IsRoot(x)' <=> IsRoot(x) /\ x # rx
      BY <1>4, <1>6, <2>2 DEF IsRoot
    <3>3. \A x \in Nodes : joined[parent'[x]] = joined[x]
      BY <1>2, <1>4, <1>6, <1>7, <1>8 DEF AreTrees
    <3>4. \A x \in Nodes : IsRoot(joined[x])'
      BY <1>2, <1>6, <1>7, <1>8, <2>2, <3>2 DEF AreTrees
    <3>5. \A x \in Nodes : IsRoot(x)' => joined[x] = x
      BY <1>7, <1>8, <3>2 DEF AreTrees
    <3>6. ASSUME NEW x \in Nodes, ~IsRoot(x)'
          PROVE  deeper[parent'[x]] < deeper[x]
      <4>1. CASE x = rx
        <5>1. parent'[x] = ry /\ deeper[ry] = depth[ry] /\ deeper[x] = depth[rx] + depth[ry] + 1
          BY <1>2, <1>4, <1>6, <2>2, <3>1, <4>1
        <5>2. depth[rx] \in Nat /\ depth[ry] \in Nat
          BY <1>2, <1>7 DEF AreTrees
        <5> QED BY <5>1, <5>2
      <4>2. CASE x # rx
        <5>1. parent'[x] = parent[x] /\ parent[x] \in Nodes /\ ~IsRoot(x)
          BY <1>2, <1>4, <3>2, <3>6, <4>2
        <5>2. root[parent[x]] = root[x] /\ depth[parent[x]] < depth[x]
          BY <1>7, <5>1 DEF AreTrees
        <5>3. depth[parent[x]] \in Nat /\ depth[x] \in Nat /\ depth[ry] \in Nat
          BY <1>2, <1>7, <5>1 DEF AreTrees
        <5> QED BY <3>1, <5>1, <5>2, <5>3
      <4> QED BY <4>1, <4>2
    <3> QED BY <1>8, <3>1, <3>3, <3>4, <3>5, <3>6 DEF AreTrees
  <2> QED BY <2>1, <2>2
<1>10. EdgesJoined(joined)'
  <2>1. ASSUME NEW e \in similar \ todo PROVE joined[e[1]] = joined[e[2]]
    <3>1. e[1] \in Nodes /\ e[2] \in Nodes
      BY PairOfNodes DEF ClustersInv, ClustersShaped
    <3>2. root[e[1]] = root[e[2]] \/ (root[e[1]] = rx /\ root[e[2]] = ry)
      BY <1>1, <1>6 DEF TreesInv, EdgesJoined
    <3> QED BY <1>8, <3>1, <3>2
  <2> QED BY <1>3, <2>1 DEF EdgesJoined
<1>11. TreesInside(joined)'
  <2>1. PICK e \in similar : root[e[1]] = rx /\ root[e[2]] = ry
    BY <1>1, <1>6 DEF TreesInv, TreesInside, Union
  <2>2. e[1] \in Nodes /\ e[2] \in Nodes
    BY PairOfNodes DEF ClustersInv, ClustersShaped
  <2>3. ASSUME NEW S \in SUBSET Nodes, Closed(S, similar), NEW x \in Nodes
        PROVE  x \in S <=> joined[x] \in S
    <3>1. \A y \in Nodes : y \in S <=> root[y] \in S
      BY <1>1, <2>3 DEF TreesInv, TreesInside
    <3>2. rx \in S <=> ry \in S
      BY <2>1, <2>2, <2>3, <3>1 DEF Closed
    <3> QED BY <1>8, <3>1, <3>2
  <2> QED BY <1>3, <2>3 DEF TreesInside
<1>12. RootsPlaced(joined)'
  <2>1. roots = <<>>
    BY <1>1 DEF TreesInv, RootsPlaced, Union
  <2> QED BY <1>3, <2>1 DEF RootsPlaced
<1> QED BY <1>5, <1>9, <1>10, <1>11, <1>12 DEF ClustersInv, TreesInv

LEMMA NextPointKeeps ==
  ASSUME ClustersAssumption, ClustersInv, NextPoint
  PROVE  ClustersInv'
<1>1. PICK root, depth : TreesInv(root, depth)
  BY DEF ClustersInv
<1>2. UNCHANGED <<similar, parent, todo, ry, roots>> /\ rx' = Len(roots) + 1 /\ rx = 0 /\ ry = 0
  BY DEF NextPoint, ClustersInv, ClustersShaped
<1>3. Len(roots) \in Nat /\ Len(roots) < Size /\ todo = {}
  BY DEF NextPoint, ClustersInv, ClustersShaped
<1>4. ClustersShaped'
  BY <1>2, <1>3 DEF ClustersInv, ClustersShaped, ClustersAssumption
<1>5. AreTrees(root, depth)'
  BY <1>1, <1>2 DEF TreesInv, AreTrees, IsRoot
<1>6. EdgesJoined(root)' /\ TreesInside(root)'
  BY <1>1, <1>2 DEF TreesInv, EdgesJoined, TreesInside
<1>7. RootsPlaced(root)'
  BY <1>1, <1>2, <1>3 DEF TreesInv, RootsPlaced
<1> QED BY <1>4, <1>5, <1>6, <1>7 DEF ClustersInv, TreesInv

LEMMA PlaceKeeps ==
  ASSUME ClustersAssumption, ClustersInv, Place
  PROVE  ClustersInv'
<1>1. PICK root, depth : TreesInv(root, depth)
  BY DEF ClustersInv
<1>2. UNCHANGED <<similar, parent, todo, ry>> /\ rx' = 0 /\ ry = 0 /\ roots' = Append(roots, rx)
  BY DEF Place
<1>3. rx \in Nodes /\ roots \in Seq(Nodes)
  BY DEF Place, ClustersInv, ClustersShaped, Nodes, ClustersAssumption
<1>4. todo = {} /\ Len(roots) < Size /\ root[rx] = root[Len(roots) + 1] /\ root[rx] = rx
  BY <1>1, <1>3 DEF Place, TreesInv, RootsPlaced, AreTrees
<1>5. Len(roots) \in Nat /\ Len(roots') = Len(roots) + 1 /\ roots' \in Seq(Nodes)
  BY <1>2, <1>3
<1>6. ClustersShaped'
  BY <1>2, <1>4, <1>5 DEF ClustersInv, ClustersShaped, ClustersAssumption
<1>7. AreTrees(root, depth)'
  BY <1>1, <1>2 DEF TreesInv, AreTrees, IsRoot
<1>8. EdgesJoined(root)' /\ TreesInside(root)'
  BY <1>1, <1>2 DEF TreesInv, EdgesJoined, TreesInside
<1>9. RootsPlaced(root)'
  <2>1. ASSUME NEW i \in 1..Len(roots') PROVE roots'[i] = root[i]
    <3>1. roots'[i] = IF i = Len(roots) + 1 THEN rx ELSE roots[i]
      BY <1>2, <1>3, <1>5
    <3>2. i = Len(roots) + 1 \/ i \in 1..Len(roots)
      BY <1>5
    <3> QED BY <1>1, <1>4, <3>1, <3>2 DEF TreesInv, RootsPlaced
  <2> QED BY <1>2, <1>4, <2>1 DEF RootsPlaced
<1> QED BY <1>6, <1>7, <1>8, <1>9 DEF ClustersInv, TreesInv

LEMMA ClustersStepKeeps ==
  ASSUME ClustersAssumption, ClustersInv, [ClustersNext]_clusterVars
  PROVE  ClustersInv'
<1>1. CASE UNCHANGED clusterVars
  <2>1. UNCHANGED <<similar, parent, todo, rx, ry, roots>>
    BY <1>1 DEF clusterVars
  <2>2. ClustersShaped'
    BY <2>1 DEF ClustersInv, ClustersShaped
  <2>3. \A root, depth : TreesInv(root, depth) => TreesInv(root, depth)'
    BY <2>1 DEF TreesInv, AreTrees, IsRoot, EdgesJoined, TreesInside, RootsPlaced
  <2> QED BY <2>2, <2>3 DEF ClustersInv
<1> QED BY <1>1, NextEdgeKeeps, FindXKeeps, FindYKeeps, UnionKeeps, NextPointKeeps, PlaceKeeps
        DEF ClustersNext

LEMMA ClustersStayTrees == ClustersSpec => []ClustersInv
<1>1. ClustersInit => ClustersInv
  BY ClustersAssumption, ClustersInitInv
<1>2. ClustersInv /\ [ClustersNext]_clusterVars => ClustersInv'
  BY ClustersAssumption, ClustersStepKeeps
<1> QED BY <1>1, <1>2, PTL DEF ClustersSpec

\* Of the points in a set that keeps its parents, one with the least bound is a root.
LEMMA TreesHaveRoots ==
  ASSUME ClustersInv
  PROVE  FindsEnd
<1>1. PICK root, depth : TreesInv(root, depth)
  BY DEF ClustersInv
<1>2. depth \in [Nodes -> Nat] /\ \A x \in Nodes : ~IsRoot(x) => depth[parent[x]] < depth[x]
  BY <1>1 DEF TreesInv, AreTrees
<1>3. ASSUME NEW S \in (SUBSET Nodes) \ {{}}, \A x \in S : parent[x] \in S
      PROVE  \E x \in S : IsRoot(x)
  <2> DEFINE D == {depth[x] : x \in S}
  <2>1. D \in SUBSET Nat /\ D # {}
    BY <1>2, <1>3
  <2>2. PICK m \in D : \A d \in D : m <= d
    BY <2>1, LeastNatural
  <2>3. PICK x \in S : m = depth[x]
    BY <2>2
  <2>4. x \in Nodes /\ parent[x] \in S /\ depth[parent[x]] \in D
    BY <1>3
  <2>5. depth[x] \in Nat /\ depth[parent[x]] \in Nat /\ depth[x] <= depth[parent[x]]
    BY <2>1, <2>2, <2>3, <2>4
  <2>6. IsRoot(x)
    BY <1>2, <2>4, <2>5
  <2> QED BY <2>6
<1> QED BY <1>3 DEF FindsEnd

\* When every edge is within a tree and no tree crosses a component, the points below
\* a root are its component.
LEMMA TreesAreComponents ==
  ASSUME NEW root \in [Nodes -> Nodes], NEW x \in Nodes, similar \subseteq Pairs,
         \A e \in similar : root[e[1]] = root[e[2]],
         \A S \in SUBSET Nodes : Closed(S, similar) => \A y \in Nodes : y \in S <=> root[y] \in S
  PROVE  Component(Nodes, similar, x) = {y \in Nodes : root[y] = root[x]}
<1> DEFINE T == {y \in Nodes : root[y] = root[x]}
<1>1. T \in SUBSET Nodes /\ x \in T
  OBVIOUS
<1>2. Closed(T, similar)
  <2>1. ASSUME NEW e \in similar PROVE e[1] \in Nodes /\ e[2] \in Nodes
    BY DEF Pairs
  <2> QED BY <2>1 DEF Closed
<1>3. ASSUME NEW y \in T, NEW S \in SUBSET Nodes, x \in S, Closed(S, similar)
      PROVE  y \in S
  BY <1>3
<1> HIDE DEF T
<1>4. Component(Nodes, similar, x) \subseteq T
  BY <1>1, <1>2 DEF Component
<1>5. T \subseteq Component(Nodes, similar, x)
  BY <1>1, <1>3 DEF Component
<1> QED BY <1>4, <1>5 DEF T

\* Once every point is placed, the sets of equal roots are those of the components.
LEMMA InvGivesGroups ==
  ASSUME ClustersAssumption, ClustersInv
  PROVE  GroupsAreExact
<1> SUFFICES ASSUME Len(roots) = Size PROVE Found = MergeGroups(Nodes, similar)
  BY DEF GroupsAreExact
<1>1. PICK root, depth : TreesInv(root, depth)
  BY DEF ClustersInv
<1>2. /\ similar \subseteq Pairs /\ todo \subseteq similar /\ parent \in [Nodes -> Nodes]
      /\ roots \in Seq(Nodes) /\ root \in [Nodes -> Nodes]
  BY <1>1 DEF ClustersInv, ClustersShaped, TreesInv, AreTrees
<1>3. \A x \in Nodes : roots[x] = root[x]
  BY <1>1 DEF TreesInv, RootsPlaced, Nodes
<1>4. CASE Size = 0
  <2>1. Nodes = {}
    BY <1>4 DEF Nodes
  <2> QED BY <2>1 DEF Found, MergeGroups
<1>5. CASE Size # 0
  <2>1. todo = {} /\ ry = 0
    BY <1>1, <1>5 DEF TreesInv, RootsPlaced
  <2>2. \A e \in similar : root[e[1]] = root[e[2]]
    BY <1>1, <2>1 DEF TreesInv, EdgesJoined
  <2>3. \A x \in Nodes : Component(Nodes, similar, x) = {y \in Nodes : root[y] = root[x]}
    BY <1>1, <1>2, <2>2, TreesAreComponents DEF TreesInv, TreesInside
  <2> DEFINE below(r) == {y \in Nodes : roots[y] = r}
  <2>4. \A x \in Nodes : root[x] \in Nodes /\ Component(Nodes, similar, x) = below(root[x])
    BY <1>2, <1>3, <2>3
  <2>5. ASSUME NEW r \in Nodes, Cardinality(below(r)) >= 2
        PROVE  \E x \in Nodes : below(r) = Component(Nodes, similar, x)
    <3>1. below(r) # {}
      <4> HIDE DEF below
      <4>1. Cardinality({}) = 0
        BY FS_EmptySet
      <4> QED BY <2>5, <4>1
    <3>2. PICK x \in Nodes : roots[x] = r
      BY <3>1
    <3> QED BY <1>3, <2>4, <3>2
  <2>6. Found = {g \in {below(r) : r \in Nodes} : Cardinality(g) >= 2}
    BY DEF Found
  <2> HIDE DEF below
  <2>7. ASSUME NEW g PROVE g \in Found <=> g \in MergeGroups(Nodes, similar)
    BY <2>4, <2>5, <2>6 DEF MergeGroups
  <2> QED BY <2>7
<1> QED BY <1>4, <1>5

\* The groups that dedup merges are the connected components of two points or more,
\* for any number of points and any similarities, in whatever order the unions have
\* hung up the trees and wherever halving has moved a parent (dedup.py:106-131).
THEOREM GroupsAreComponents == ClustersSpec => []GroupsAreExact
<1>1. ClustersInv => GroupsAreExact
  BY ClustersAssumption, InvGivesGroups
<1> QED BY <1>1, ClustersStayTrees, PTL

\* The loop of find meets a root from whatever point it starts (dedup.py:110-114).
THEOREM FindsReachARoot == ClustersSpec => []FindsEnd
<1>1. ClustersInv => FindsEnd
  BY TreesHaveRoots
<1> QED BY <1>1, ClustersStayTrees, PTL

-----------------------------------------------------------------------------
(* The run of the stores.                                                  *)

\* Each part of the run behaves as its module says, so that what is proved of the
\* modules is true of the run (the stores of src/src/harness_kit/stores share nothing).
THEOREM StoresRunTheirParts ==
  StoresSpec => RedisSpec /\ PermSpec /\ ProfileSpec /\ EpisodicSpec /\ ClustersSpec
<1>1. StoresInit => RedisInit /\ PermInit /\ ProfileInit /\ EpisodicInit /\ ClustersInit
  BY DEF StoresInit
<1>2. ASSUME [StoresNext]_storesVars
      PROVE  /\ [RedisNext]_redisVars /\ [PermNext]_permVars /\ [ProfileNext]_profileVars
             /\ [EpisodicNext]_episodicVars /\ [ClustersNext]_clusterVars
  <2>1. CASE UNCHANGED storesVars
    <3>1. UNCHANGED <<redisVars, permVars, profileVars, episodicVars, clusterVars>>
      BY <2>1 DEF storesVars
    <3> QED BY <3>1
  <2>2. CASE StoresNext
    BY <2>2 DEF StoresNext
  <2> QED BY <1>2, <2>1, <2>2
<1> QED BY <1>1, <1>2, PTL
        DEF StoresSpec, RedisSpec, PermSpec, ProfileSpec, EpisodicSpec, ClustersSpec

\* Every part of the run keeps the state its module says.
THEOREM StoresTypes == StoresSpec => []StoresTypeOK
<1>1. RedisTypeOK /\ PermTypeOK /\ ProfileTypeOK /\ EpisodicTypeOK => StoresTypeOK
  BY DEF StoresTypeOK
<1> QED BY <1>1, StoresRunTheirParts, RedisTypes, PermissionTypes, ProfileTypeCorrect,
           EpisodicTypes, PTL
=============================================================================
