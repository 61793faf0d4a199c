------------------------- MODULE ExecutionAmendment -------------------------
(***************************************************************************)
(* An execution amendment of a published build order (docs/build-order/    *)
(* scripts: execution_amendment.py, _render, _source, _live, _compare,     *)
(* validate_execution_amendment.py).  A build order's issues and manifests *)
(* are immutable.  An amendment decides, after publication, who works on   *)
(* which ticket: lanes of tickets with one owner each, or one owner per    *)
(* ticket; every affected issue carries a comment that says so.  The       *)
(* validator checks the committed amendment, then reads GitHub twice,      *)
(* request by request, while people go on working there, and accepts only  *)
(* two identical reads that agree with the amendment.                      *)
(*                                                                         *)
(* A hash is the value that it is of.  An issue's number is its logical    *)
(* id, so a mapping is a set of ids.                                       *)
(***************************************************************************)
EXTENDS Integers, Sequences, FiniteSets, Functions

CONSTANTS
    Members, Root, Skill, None,
    ExpectedLanes,      \* [lane -> sequence of members]
    Individuals,        \* the members that have an owner each
    Baseline, Policy, PolicyAuthority,  \* what the validator has been given
    PolicyDocument,     \* [commit -> the policy document in it]
    TrustedRef,         \* the commits of the trusted ref, oldest first
    Published,          \* the issues as published: [id -> issue]
    Candidates,         \* the amendments that may be handed in
    Edits,              \* what people may do on GitHub: [issue, field, value]
    MaxEdits            \* bound

VARIABLES
    candidate,
    issues,             \* on GitHub: [id -> [title, body, labels, state, reason, locked, updated]]
    subissues, blockers, comments,
    pc,
    first, second,      \* the answers of each read of GitHub: [request -> answer]
    errors,
    between,            \* GitHub when the second read began
    edits

world == <<issues, subissues, blockers, comments>>
reads == <<first, second>>
vars == <<candidate, world, pc, reads, errors, between, edits>>

Core == Members \cup {Root}
Ids == Core \cup {Skill}
Error(condition, name) == IF condition THEN {name} ELSE {}
Sorted(s) == \A i, j \in DOMAIN s : i < j => s[i] < s[j]

-----------------------------------------------------------------------------
(* Plausible slips in the code below, each of which TLC must catch.        *)

\* the issue without the time of its last change
Undated(issue) == [issue EXCEPT !.updated = 0]

-----------------------------------------------------------------------------
(* The comments (execution_amendment_render.py).                           *)

LaneFor(amendment, id) ==
    LET found == {lane \in DOMAIN amendment.lanes : id \in Range(amendment.lanes[lane])}
    IN IF Cardinality(found) = 1 THEN CHOOSE lane \in found : TRUE ELSE None

\* an unknown lane has no owner (the code raises, and accepts nothing either)
Owner(id, lane) ==
    IF lane = None THEN <<"owns", id>> ELSE IF lane \notin DOMAIN ExpectedLanes THEN None
    ELSE IF id = Head(ExpectedLanes[lane]) THEN <<"owns", id>> ELSE <<"follows", Head(ExpectedLanes[lane])>>

Marker(amendment, id, lane) ==
    [order |-> amendment.order, plan |-> amendment.plan, receipt |-> amendment.receipt,
     authority |-> amendment.authority, id |-> id, decision |-> amendment.decision, lane |-> lane,
     state |-> "authorized"]

RenderAuthorization(amendment) ==
    [marker |-> Marker(amendment, amendment.order, None), owner |-> None, target |-> amendment.policy]
RenderTicket(amendment, id) ==
    LET lane == LaneFor(amendment, id)
    IN [marker |-> Marker(amendment, id, lane), owner |-> Owner(id, lane), target |-> amendment.policy]
Rendered(amendment, id) ==
    IF id = amendment.order THEN RenderAuthorization(amendment) ELSE RenderTicket(amendment, id)

\* parse_execution_comment
MarkerErrors(marker) ==
    Error(marker.state # "authorized", "marker state")
    \cup Error(marker.lane # None /\ marker.lane \notin DOMAIN ExpectedLanes, "marker lane")

-----------------------------------------------------------------------------
(* The amendment (execution_amendment.py).  Its manifest is a sequence of  *)
(* tickets, [id, depends].                                                 *)

Affected == Individuals \cup UNION {Range(ExpectedLanes[lane]) : lane \in DOMAIN ExpectedLanes}

\* Requests are sent in the order of the ids.  GitHub dates what people change,
\* and people do not change the dates.
Fields == {"title", "body", "labels", "state", "reason", "locked", "updated"}
AmendmentAssumption ==
    /\ Ids \subseteq Int
    /\ Root \notin Members /\ Affected \subseteq Members
    /\ \A e \in Edits : e.field # "updated"

MemberIds(manifest) == {manifest[i].id : i \in DOMAIN manifest}
ManifestEdges(manifest) == UNION {{<<manifest[i].id, d>> : d \in Range(manifest[i].depends)} : i \in DOMAIN manifest}

\* baseline_fingerprints
Fingerprints(manifest) == [members |-> MemberIds(manifest), edges |-> ManifestEdges(manifest)]
ManifestErrors(manifest) ==
    Error(Cardinality(MemberIds(manifest)) # Len(manifest), "ticket ids are ambiguous")
    \cup Error(\E i \in DOMAIN manifest : ~IsInjective(manifest[i].depends), "depends_on has duplicates")
BaselineErrors(amendment, manifest) ==
    IF ManifestErrors(manifest) # {} THEN ManifestErrors(manifest)
    ELSE Error(Fingerprints(manifest) # Baseline, "receipt does not match the baseline")
         \cup Error(amendment.baseline # Fingerprints(manifest), "baseline")

Repeats(lanes) ==
    \/ \E lane \in DOMAIN lanes : ~IsInjective(lanes[lane])
    \/ \E a, b \in DOMAIN lanes : a # b /\ Range(lanes[a]) \cap Range(lanes[b]) # {}
LaneErrors(amendment, members) ==
    Error(amendment.lanes # ExpectedLanes, "lanes")
    \cup Error(Repeats(amendment.lanes), "lanes partition")
    \cup Error(\E lane \in DOMAIN amendment.lanes : ~(Range(amendment.lanes[lane]) \subseteq members), "lanes contain non-members")

PartitionErrors(amendment, members) ==
    LET affected == Range(amendment.affected)
        completed == Range(amendment.completed)
        inLanes == UNION {Range(ExpectedLanes[lane]) : lane \in DOMAIN ExpectedLanes}
    IN Error(~Sorted(amendment.affected) \/ ~Sorted(amendment.completed), "partitions must be sorted")
       \cup Error(affected \cap completed # {}, "partitions overlap")
       \cup Error(affected \cup completed # members, "partitions must cover the members")
       \cup Error(affected # Affected, "affected tickets")
       \cup Error(~(inLanes \subseteq affected) \/ inLanes \cap completed # {}, "lane members are affected")

\* decision_sha256
Decision(amendment) ==
    [baseline |-> amendment.baseline, authority |-> amendment.authority, policy |-> amendment.policy,
     lanes |-> amendment.lanes, affected |-> amendment.affected, completed |-> amendment.completed]

\* _validate_comment_evidence: a comment of the mapped issue, by an authorized
\* author, whose text is what the amendment renders to
EvidenceErrors(evidence, id, amendment) ==
    Error(evidence.issue # id, "URL")
    \cup Error(evidence.body # Rendered(amendment, id), "body")
    \cup Error(evidence.author \notin Range(amendment.authors), "author")

CommentErrors(amendment, members) ==
    LET covered == DOMAIN amendment.comments
        evidence == [id \in covered \cup {Root} |->
                       IF id = Root THEN amendment.authorization ELSE amendment.comments[id]]
    IN Error(covered # Range(amendment.affected), "comments must cover affected tickets")
       \cup Error(~(covered \subseteq members), "comment lacks a mapping")
       \cup Error(\E x, y \in DOMAIN evidence : x # y /\ evidence[x].comment = evidence[y].comment, "URL is reused")
       \cup UNION {EvidenceErrors(evidence[id], id, amendment) : id \in DOMAIN evidence}

SchemaErrors(amendment, manifest) ==
    Error(amendment.order # Root, "build_order_id")
    \cup Error(amendment.authority # PolicyAuthority, "policy_authority")
    \cup Error(amendment.policy # Policy, "policy")
    \cup Error(amendment.authors = <<>> \/ ~Sorted(amendment.authors), "authors")
    \cup Error(amendment.decision # Decision(amendment), "decision_sha256")
    \cup BaselineErrors(amendment, manifest)
    \cup LaneErrors(amendment, MemberIds(manifest))
    \cup PartitionErrors(amendment, MemberIds(manifest))
    \cup CommentErrors(amendment, MemberIds(manifest))

\* load_amendment_at_commit, validate_policy_authority_source: files as committed
SourceErrors(c) ==
    Error(c.file # "as committed", "amendment file") \cup Error(c.commit \notin Range(TrustedRef), "amendment_commit")
PolicyErrors(c) ==
    LET authority == c.amendment.authority
    IN IF authority.commit \notin DOMAIN PolicyDocument THEN {"policy commit"}
       ELSE Error(PolicyDocument[authority.commit] # authority.document, "policy document hash")
            \cup Error(c.policyFile # "as committed", "policy document file")

\* _validate_amendment_authority: receipt, then policy, then amendment
Precedes(a, b) == \E i, j \in DOMAIN TrustedRef : i < j /\ TrustedRef[i] = a /\ TrustedRef[j] = b
AuthorityErrors(c) ==
    Error(~Precedes(c.amendment.receipt, c.amendment.authority.commit), "policy must follow the receipt")
    \cup Error(~Precedes(c.amendment.authority.commit, c.commit), "amendment must follow the policy")

\* validate, before GitHub is read
StaticErrors(c) ==
    IF SourceErrors(c) # {} THEN SourceErrors(c)
    ELSE IF c.publicationErrors # {} THEN c.publicationErrors
    ELSE PolicyErrors(c) \cup AuthorityErrors(c) \cup SchemaErrors(c.amendment, c.manifest)

-----------------------------------------------------------------------------
(* One read of GitHub (_capture), a request at a time.  The list of issues *)
(* comes in pages, so each issue may be of another moment.                 *)

IssueRecord(issue) == issue

Commented == {Root} \cup DOMAIN candidate.amendment.comments
Evidence(id) == IF id = Root THEN candidate.amendment.authorization ELSE candidate.amendment.comments[id]

\* A request is for what, in the order in which it is sent: of one kind by id.
IssueOf(id) == <<1, id, 1>>
SubissuesOf(id) == IF id = Root THEN <<2, id, 1>> ELSE <<3, id, 2>>
ParentOf(id) == <<3, id, 1>>
BlockersOf(id) == <<4, id, 1>>
CommentOf(id) == <<5, id, 1>>
CommentsOf(id) == <<5, id, 2>>
Requests ==
    {IssueOf(id) : id \in Ids}
    \cup (UNION {{SubissuesOf(id), ParentOf(id), BlockersOf(id)} : id \in Core})
    \cup UNION {{CommentOf(id), CommentsOf(id)} : id \in Commented}
Earlier(a, b) == \E k \in 1 .. 3 : a[k] < b[k] /\ \A j \in 1 .. k - 1 : a[j] = b[j]
Due(read) == {r \in Requests \ DOMAIN read : ~\E other \in Requests \ DOMAIN read : Earlier(other, r)}

Exact(id, records) == {c \in records : c.comment = Evidence(id).comment}
Answer(request) ==
    LET id == request[2]
    IN CASE request = IssueOf(id) -> IssueRecord(issues[id])
         [] request = CommentOf(id) -> Exact(id, comments[id])
         [] request = CommentsOf(id) -> comments[id]
         [] request = SubissuesOf(id) -> subissues[id]
         [] request = ParentOf(id) -> {other \in Core : id \in subissues[other]}
         [] request = BlockersOf(id) -> blockers[id]
Answered(read, request) ==
    [r \in DOMAIN read \cup {request} |-> IF r = request THEN Answer(request) ELSE read[r]]

\* the comment is gone, or a marked one cannot be parsed
Refused(request) ==
    LET id == request[2]
    IN \/ request = CommentOf(id) /\ Exact(id, comments[id]) = {}
       \/ request = CommentsOf(id) /\ \E c \in comments[id] : MarkerErrors(c.body.marker) # {}

-----------------------------------------------------------------------------
(* The comparison (execution_amendment_compare.py).                        *)

ValidState(issue) ==
    \/ issue.state = "OPEN" /\ issue.reason \in {None, "reopened"}
    \/ issue.state = "CLOSED" /\ issue.reason = "completed"
StaticRouting(labels) == {l \in labels : l[1] # "agent"}

DriftErrors(id, issue) ==
    Error(issue.title # Published[id].title, "title drifted")
    \cup Error(issue.body # Published[id].body, "body drifted")
    \cup Error(StaticRouting(issue.labels) # StaticRouting(Published[id].labels), "labels drifted")
    \cup Error(issue.locked, "locked")

StateErrors(id, issue, amendment) ==
    IF id \in Range(amendment.completed)
    THEN Error(issue.state # "CLOSED" \/ issue.reason # "completed", "must remain completed")
    ELSE Error(~ValidState(issue), "invalid state")
         \cup Error(id \in Members /\ id \notin Range(amendment.affected), "no partition")

IssueErrors(live, amendment) ==
    LET done == {id \in Members : live[id].state = "CLOSED" /\ live[id].reason = "completed"}
        open == {id \in Members : live[id].state = "OPEN"}
    IN (UNION {DriftErrors(id, live[id]) \cup StateErrors(id, live[id], amendment) : id \in Ids})
       \cup Error(live[Root].state = "CLOSED" /\ done # Members, "root may close only after all members")
       \cup Error(~(open \subseteq Range(amendment.affected)), "open tickets must be affected")

GraphErrors(subs, parents, blocked, manifest) ==
    Error(subs[Root] # Members, "root membership")
    \cup Error(parents[Root] # {} \/ \E id \in Members : parents[id] # {Root}, "parents")
    \cup (UNION {Error(subs[id] # {}, "subissues") : id \in Members})
    \cup Error(UNION {{<<id, b>> : b \in blocked[id] \cap Members} : id \in Members} # ManifestEdges(manifest), "edges")
    \cup Error(UNION {{<<id, b>> : b \in blocked[id] \ Members} : id \in Core} # {}, "external blockers")

\* _compare_comments: the comment of the amendment, and the only marked one
AsRendered(c, id, amendment) ==
    /\ c.comment = Evidence(id).comment /\ c.author = Evidence(id).author
    /\ c.body = Rendered(amendment, id)
LiveCommentErrors(exact, marked, amendment) ==
    UNION {Error(\E c \in exact[id] : ~AsRendered(c, id, amendment), "comment drifted")
           \cup Error(marked[id] # exact[id], "exactly one marker") : id \in Commented}

Compare(snapshot, c) ==
    IssueErrors([id \in Ids |-> snapshot[IssueOf(id)]], c.amendment)
    \cup GraphErrors([id \in Core |-> snapshot[SubissuesOf(id)]], [id \in Core |-> snapshot[ParentOf(id)]],
                     [id \in Core |-> snapshot[BlockersOf(id)]], c.manifest)
    \cup LiveCommentErrors([id \in Commented |-> snapshot[CommentOf(id)]], [id \in Commented |-> snapshot[CommentsOf(id)]],
                           c.amendment)

-----------------------------------------------------------------------------
Init ==
    /\ candidate \in Candidates
    /\ issues = [id \in Ids |-> [field \in Fields |-> IF field = "updated" THEN 1 ELSE Published[id][field]]]
    /\ subissues = [id \in Core |-> IF id = Root THEN Members ELSE {}]
    /\ blockers = [id \in Core |-> {e[2] : e \in {f \in Baseline.edges : f[1] = id}}]
    /\ comments = [id \in Core |->
         IF id \notin Commented THEN {}
         ELSE {[comment |-> Evidence(id).comment, body |-> Evidence(id).body, author |-> Evidence(id).author, updated |-> 1]}]
    /\ pc = "static" /\ first = <<>> /\ second = <<>> /\ errors = {} /\ between = None /\ edits = 0

Validate ==
    /\ pc = "static"
    /\ errors' = StaticErrors(candidate)
    /\ pc' = IF errors' # {} THEN "rejected" ELSE IF candidate.live THEN "first" ELSE "accepted offline"
    /\ UNCHANGED <<candidate, world, reads, between, edits>>

\* One request of the first read, or of the second.
ReadFirst ==
    /\ pc = "first"
    /\ \E r \in Due(first) : ~Refused(r) /\ first' = Answered(first, r)
    /\ UNCHANGED <<candidate, world, pc, second, errors, between, edits>>
FirstEnds ==
    /\ pc = "first" /\ DOMAIN first = Requests
    /\ pc' = "second" /\ between' = [issues |-> issues, comments |-> comments]
    /\ UNCHANGED <<candidate, world, reads, errors, edits>>
ReadSecond ==
    /\ pc = "second"
    /\ \E r \in Due(second) : ~Refused(r) /\ second' = Answered(second, r)
    /\ UNCHANGED <<candidate, world, pc, first, errors, between, edits>>
SecondEnds ==
    /\ pc = "second" /\ DOMAIN second = Requests
    /\ errors' = IF first # second THEN {"changed during the two reads"} ELSE Compare(first, candidate)
    /\ pc' = IF errors' = {} THEN "accepted" ELSE "rejected"
    /\ UNCHANGED <<candidate, world, reads, between, edits>>

\* LiveGraphError: a request fails, or its answer cannot be used
ReadFails ==
    /\ pc \in {"first", "second"}
    /\ errors' = {"query failed"} /\ pc' = "rejected"
    /\ UNCHANGED <<candidate, world, reads, between, edits>>

\* People at work.  Every change of an issue or a comment has a time of its own.
Editing == pc \in {"first", "second"} /\ edits < MaxEdits /\ edits' = edits + 1
EditedIssue(issue, e) == [issue EXCEPT ![e.field] = e.value, !.updated = @ + 1]
EditIssue(e) ==
    /\ Editing /\ e.field \in DOMAIN issues[e.issue] /\ issues[e.issue][e.field] # e.value
    /\ issues' = [issues EXCEPT ![e.issue] = EditedIssue(issues[e.issue], e)]
    /\ UNCHANGED <<candidate, subissues, blockers, comments, pc, reads, errors, between>>
EditComment(e) ==
    /\ Editing /\ e.field = "comment"
    /\ comments' = [comments EXCEPT ![e.issue] = {[c EXCEPT !.body.owner = e.value, !.updated = @ + 1] : c \in @}]
    /\ UNCHANGED <<candidate, issues, subissues, blockers, pc, reads, errors, between>>
DeleteComment(e) ==
    /\ Editing /\ e.field = "comment" /\ comments[e.issue] # {}
    /\ comments' = [comments EXCEPT ![e.issue] = {}]
    /\ UNCHANGED <<candidate, issues, subissues, blockers, pc, reads, errors, between>>
EditGraph(e) ==
    /\ Editing
    /\ \/ /\ e.field = "blocker"
          /\ blockers' = [blockers EXCEPT ![e.issue] = IF e.value \in @ THEN @ \ {e.value} ELSE @ \cup {e.value}]
          /\ UNCHANGED subissues
       \/ /\ e.field = "member" /\ e.value \in subissues[Root]
          /\ subissues' = [subissues EXCEPT ![Root] = @ \ {e.value}, ![e.issue] = @ \cup {e.value}]
          /\ UNCHANGED blockers
    /\ UNCHANGED <<candidate, issues, comments, pc, reads, errors, between>>

Next ==
    \/ Validate \/ ReadFirst \/ FirstEnds \/ ReadSecond \/ SecondEnds \/ ReadFails
    \/ \E e \in Edits : EditIssue(e) \/ EditComment(e) \/ DeleteComment(e) \/ EditGraph(e)

Spec == Init /\ [][Next]_vars

-----------------------------------------------------------------------------
(* Properties.                                                             *)

\* An accepted amendment was in force: there was one moment, when the second
\* read began, at which all issues and all comments together were as the
\* amendment says, each affected ticket with one comment that names one owner,
\* although no request sees more than one part of GitHub and people closed,
\* edited and restored things between the requests.  The relations have no time
\* of change, and are only known to be right twice.
AcceptedWasInForce ==
    pc = "accepted" =>
      LET marked == [id \in Commented |-> between.comments[id]]
          exact == [id \in Commented |-> Exact(id, marked[id])]
      IN /\ IssueErrors(between.issues, candidate.amendment) = {}
         /\ LiveCommentErrors(exact, marked, candidate.amendment) = {}
         /\ \A t \in Affected : \E c \in between.comments[t] :
              /\ between.comments[t] = {c} /\ c.body.marker.decision = Decision(candidate.amendment)
              /\ c.body.owner = Owner(t, LaneFor([lanes |-> ExpectedLanes], t))
=============================================================================
