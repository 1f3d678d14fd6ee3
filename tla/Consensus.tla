----------------------------- MODULE Consensus -----------------------------
(***************************************************************************)
(* Viewstamped replication as the event loop runs it: normal operation     *)
(* (replica_normal.go), view changes (view_change.go), canonical repair of *)
(* a replica that lags or recovers (replica_repair.go), restart (open.go)  *)
(* and the snapshot check after every event (status.go).                   *)
(*                                                                         *)
(* rep[r] is the Replica struct together with what its storage holds. A    *)
(* handler is an operator from a replica state to a replica state, with    *)
(* the messages it sends collected in the field out; an action applies one *)
(* handler and then the tail of Replica.Process, as the code does.         *)
(*                                                                         *)
(* The network may lose, duplicate, delay and reorder: net only grows, and *)
(* a message in it may be handled at any time or never. A message that a   *)
(* timer may send (Commit, Ping, ExitView) or that answers a repeated      *)
(* Prepare is put into net once, when it can first be sent.                *)
(*                                                                         *)
(* The checkpoint is the root prepare (op 0) throughout: the bounds keep   *)
(* the log short of the first checkpoint trigger, so state sync and slot   *)
(* reuse do not occur. Every member is active.                             *)
(***************************************************************************)
EXTENDS Naturals, Sequences, FiniteSets, FiniteSetsExt, SequencesExt

CONSTANTS
    N,             \* Membership.ActiveCount; a solo member has no one to agree with
    PipelineMax,   \* ClusterConfig.PipelineMax
    MaxPrepares,   \* bound on the prepares that primaries create
    MaxView,       \* bound on views
    MaxCrashes,    \* bound on restarts
    MaxDelayed,    \* bound on the answers to GetView in flight at a time
    TornWrites     \* whether a crash may tear the prepare being written

ASSUME MembersAssumption == N \in 2 .. 6
ASSUME PipelineAssumption == PipelineMax \in Nat \ {0}
ASSUME BoundsAssumption == {MaxPrepares, MaxView, MaxCrashes, MaxDelayed} \subseteq Nat
ASSUME TornAssumption == TornWrites \in BOOLEAN

VARIABLES
    rep,      \* rep[r]: the replica and its storage
    net,      \* every message sent between replicas
    history,  \* every <<op, checksum>> a state machine has executed
    crashes   \* restarts so far

vars == <<rep, net, history, crashes>>

Replicas == 0 .. N - 1
Ops == 1 .. MaxPrepares

Primary(v) == v % N

(* The definitions marked MUTANT are deliberately wrong variants of the one *)
(* that follows them; Spec uses none of them.                              *)

\* QuorumsFor with ReplicationQuorumMax = 3.
ReplicationQuorum == IF N = 2 THEN 2 ELSE Min({3, (N + 1) \div 2})
ViewChangeQuorum == IF N = 2 THEN 2 ELSE N - ReplicationQuorum + 1

\* MUTANT of NegativeQuorum: one refusal too few.
NegativeQuorumShort == N - ReplicationQuorum

NegativeQuorum == N - ReplicationQuorum + 1

(* A prepare header. The checksum is the unique id; 0 is an absent header, *)
(* 1 the root.                                                             *)
Header(id, op, view, parent, commit) ==
    [id |-> id, op |-> op, view |-> view, parent |-> parent, commit |-> commit]
Blank == Header(0, 0, 0, 0, 0)
Root == Header(1, 0, 0, 0, 0)

NoIO == [busy |-> FALSE, install |-> FALSE, refused |-> FALSE,
         sb |-> [view |-> 0, logView |-> 0, commit |-> 0, head |-> 0]]
NoRepair == [valid |-> FALSE, window |-> FALSE, view |-> 0, commit |-> 0, head |-> 0,
             ancestor |-> 0, rebuilt |-> FALSE, headers |-> << >>, frames |-> {}]
NoJoin == [type |-> "none"]
NoJoins == [x \in Replicas |-> NoJoin]

Prepares == {m.header : m \in {x \in net : x.type = "Prepare"}}

\* The element of a singleton: names an intermediate value.
The(S) == CHOOSE x \in S : TRUE

Fail(s) == [s EXCEPT !.status = "Failed"]
Send(s, m) == [s EXCEPT !.out = @ \cup {m}]

---------------------------------------------------------------------------
(* What a replica knows about an op: its header, whether it has a copy to  *)
(* serve, and whether it may say the op was never made durable here.       *)

InPipe(s, op) == {i \in DOMAIN s.pipe : s.pipe[i].h.op = op}

\* The installed view excludes older prepares beyond the head it selected:
\* WAL.DiscardAfter hides them, WAL.Recover truncates them.
obsoleteWALCandidate(h, sb) == h.op > sb.head /\ h.view < sb.logView

Stored(s, op) ==
    op <= s.headOp /\ s.disk[op] # Blank /\ ~obsoleteWALCandidate(s.disk[op], s.sb)

localHeaderEvidence(s, op) ==
    IF InPipe(s, op) # {}
    THEN LET e == s.pipe[CHOOSE i \in InPipe(s, op) : TRUE]
         IN  [h |-> e.h, present |-> TRUE, nack |-> ~e.durable]
    ELSE IF op = 0 THEN [h |-> Root, present |-> TRUE, nack |-> FALSE]
    ELSE IF op \in s.faulty THEN [h |-> Blank, present |-> FALSE, nack |-> FALSE]
    ELSE IF ~Stored(s, op) THEN [h |-> Blank, present |-> FALSE, nack |-> TRUE]
    ELSE IF s.repairWrite.op = op THEN [h |-> s.repairWrite, present |-> TRUE, nack |-> TRUE]
    ELSE [h |-> s.disk[op], present |-> TRUE, nack |-> FALSE]

\* MUTANT of Clean: an append in progress counts as durable.
PresentIsClean(s, op) == localHeaderEvidence(s, op).present

Clean(s, op) == LET e == localHeaderEvidence(s, op) IN e.present /\ ~e.nack

\* The canonical header h is held clean at its op.
Holds(s, h) ==
    h.op <= s.headOp /\ localHeaderEvidence(s, h.op) = [h |-> h, present |-> TRUE, nack |-> FALSE]

\* The newest PipelineMax + 1 ops, newest first, down to the checkpoint.
Evidence(s) ==
    [i \in 1 .. Min({s.headOp, PipelineMax}) + 1 |-> localHeaderEvidence(s, s.headOp - (i - 1))]
collectLocalSuffix(s) == LET e == Evidence(s) IN [i \in DOMAIN e |-> e[i].h]

isPrimary(r, s) == Primary(s.view) = r

---------------------------------------------------------------------------
(* Persisting a view and starting a view change. *)

\* One view write at a time. The superblock is handed to the I/O engine as it is;
\* SuperblockStore refuses one with a blank view header, or one that regresses,
\* and the completion says so.
persistView(s, install, commit, headers) ==
    LET sb == [view |-> s.view,
               logView |-> IF install THEN s.view ELSE s.sb.logView,
               commit |-> Max({s.sb.commit, commit}),
               head |-> headers[1].op]
    IN  IF s.viewIO.busy THEN Fail(s)
        ELSE [s EXCEPT !.viewIO = [busy |-> TRUE, install |-> install, sb |-> sb,
                                   refused |-> Blank \in ToSet(headers) \/ sb.view < s.sb.view]]

beginViewChangeNow(s, target) ==
    persistView([s EXCEPT !.status = "ViewChange", !.view = target, !.joins = NoJoins],
                FALSE, s.commitMax, collectLocalSuffix(s))

\* MUTANT of beginViewChange: it waits for no superblock write or execution.
ViewChangeAtOnce(s, target) ==
    IF target <= s.view \/ s.status = "RecoveringHead" THEN s ELSE beginViewChangeNow(s, target)

beginViewChange(s, target) ==
    IF target <= s.view \/ s.status = "RecoveringHead" THEN s
    ELSE IF s.viewIO.busy \/ s.inflight
    THEN [s EXCEPT !.pendingView = Max({@, target})]
    ELSE beginViewChangeNow(s, target)

resumePendingViewChange(s) ==
    LET t == [s EXCEPT !.pendingView = 0]
    IN  IF s.pendingView <= s.view THEN t ELSE beginViewChangeNow(t, s.pendingView)

---------------------------------------------------------------------------
(* Accepting a canonical suffix: headers, newest first, from head down to  *)
(* an op the replica can prove it shares.                                  *)

\* The checkpoint header that closes a bounded suffix is an anchor only.
Proof(headers) ==
    IF Len(headers) > 1 /\ Last(headers).op = 0 THEN Front(headers) ELSE headers

NewestShared(s, proof, shared, clash) ==
    IF shared \cup clash # {}
    THEN {proof[i].op : i \in shared \cap {Min(shared \cup clash)}}
    ELSE {op \in 0 .. s.headOp : /\ op + 1 = Last(proof).op /\ Clean(s, op)
                                 /\ localHeaderEvidence(s, op).h.id = Last(proof).parent}

\* The newest op of the suffix held clean here, or else the parent of its
\* oldest; no op when neither is held, or when a committed op differs.
recoveringCommonAncestor(s, proof) ==
    NewestShared(s, proof,
        {i \in DOMAIN proof : Holds(s, proof[i])},
        {i \in DOMAIN proof : /\ proof[i].op <= s.commitMin /\ ~Holds(s, proof[i])
                              /\ localHeaderEvidence(s, proof[i].op).present})

validRecoveringView(s, view, commit, head, proof) ==
    /\ ~s.inflight /\ s.repairWrite = Blank /\ ~s.viewIO.busy
    /\ head >= s.commitMin
    /\ view >= s.view /\ commit >= s.commitMax /\ head >= commit
    /\ head - s.commitMin <= PipelineMax
    /\ \A i \in DOMAIN proof :
          /\ proof[i].op = head - (i - 1) /\ proof[i].view <= view
          /\ i > 1 => proof[i - 1].parent = proof[i].id
    /\ \E a \in recoveringCommonAncestor(s, proof) :
          a >= s.commitMin /\ Last(proof).op <= a + 1

recordRecoveringView(s, view, commit, head, headers) ==
    [s EXCEPT
        !.status = "RecoveringHead",
        !.repair = [valid |-> TRUE, window |-> FALSE, view |-> view, commit |-> commit,
                    head |-> head, ancestor |-> Max(recoveringCommonAncestor(s, Proof(headers))),
                    rebuilt |-> FALSE, headers |-> headers, frames |-> {}],
        !.commitMax = Max({@, commit})]

---------------------------------------------------------------------------
(* Selecting the canonical suffix of a view from the joins recorded. *)

Joined(s) == {x \in Replicas : s.joins[x] # NoJoin}

joinHeaderAt(j, op) ==
    IF op <= j.head /\ j.head - op < Len(j.evidence) THEN j.evidence[j.head - op + 1].h ELSE Blank

joinCommittedBound(j) ==
    Max({j.commit, j.head - (Len(j.evidence) - 1),
         IF j.head > PipelineMax THEN j.head - PipelineMax ELSE 0,
         joinHeaderAt(j, j.head).commit})

canonicalLogView(s) == Max({s.joins[x].logView : x \in Joined(s)} \cup {0})

\* The op below which everything is known to be committed.
CommittedBound(s) ==
    Max({s.commitMin, s.commitMax} \cup {joinCommittedBound(s.joins[x]) : x \in Joined(s)})

Candidates(s, op) ==
    {x \in Joined(s) : /\ joinHeaderAt(s.joins[x], op) # Blank
                       /\ s.joins[x].logView = canonicalLogView(s) \/ op <= CommittedBound(s)}

\* The members of C whose log view, and then header view, is greatest.
Newest(s, op, C) ==
    {x \in C : \A y \in C :
        LET jx == s.joins[x]
            jy == s.joins[y]
        IN  \/ jy.logView < jx.logView
            \/ /\ jy.logView = jx.logView
               /\ joinHeaderAt(jy, op).view <= joinHeaderAt(jx, op).view}

Best(s, op, C) ==
    IF C = {} THEN Blank ELSE joinHeaderAt(s.joins[Min(Newest(s, op, C))], op)
canonicalCandidate(s, op) == Best(s, op, Candidates(s, op))

\* Two different headers that nothing ranks: at the latest log view in one
\* view, or tied with the best of the members before it.
CandidateConflict(s, op, C) ==
    \E x \in C : \E y \in {z \in C : z < x} :
        /\ s.joins[x].logView = s.joins[y].logView
        /\ joinHeaderAt(s.joins[x], op).view = joinHeaderAt(s.joins[y], op).view
        /\ joinHeaderAt(s.joins[x], op) # joinHeaderAt(s.joins[y], op)
        /\ \/ s.joins[x].logView = canonicalLogView(s)
           \/ y \in Newest(s, op, {z \in C : z < x})

\* Whether a join shows that op, with this candidate, was never durable there
\* in the latest log.
Negative(j, op, candidate, latest) ==
    \/ j.head < op
    \/ j.head - op >= Len(j.evidence)
    \/ LET e == j.evidence[j.head - op + 1]
       IN  \/ e.nack
           \/ /\ e.h # Blank /\ j.logView < latest
              /\ IF candidate # Blank THEN e.h # candidate ELSE e.h.view < latest

\* canonicalEvidence. A candidate has a copy: the join that shows it.
Negatives(s, op, candidate) ==
    Cardinality({x \in Joined(s) : Negative(s.joins[x], op, candidate, canonicalLogView(s))})

\* The walk from the committed op ends before stop, the first op at which
\* headers conflict, a negative quorum excludes the op, or it is missing or
\* breaks the chain; only a negative quorum resolves it.
Suffix(committed, longest, candidate, conflicts, excluded, stop) ==
    [conflict |-> stop \in conflicts,
     resolved |-> stop > longest \/ stop \in excluded,
     commit |-> committed, head |-> stop - 1,
     headers |-> [i \in 1 .. (stop - committed) |-> candidate[stop - i]]]

Walk(committed, longest, candidate, conflicts, excluded) ==
    The({Suffix(committed, longest, candidate, conflicts, excluded, stop) :
            stop \in {Min({longest + 1} \cup conflicts \cup excluded
                          \cup {op \in committed .. longest :
                                  \/ candidate[op] = Blank
                                  \/ op > committed /\ candidate[op].parent # candidate[op - 1].id})}})

WalkFrom(s, committed, longest, candidate) ==
    The({Walk(committed, longest, candidate, conflicts, excluded) :
            conflicts \in {{op \in committed .. longest : CandidateConflict(s, op, Candidates(s, op))}},
            excluded \in {{op \in committed + 1 .. longest :
                              Negatives(s, op, candidate[op]) >= NegativeQuorum}}})

SuffixBetween(s, committed, longest) ==
    IF committed > longest \/ longest > committed + PipelineMax
    THEN [conflict |-> FALSE, resolved |-> FALSE]
    ELSE The({WalkFrom(s, committed, longest, candidate) :
                 candidate \in {[op \in committed .. longest |-> canonicalCandidate(s, op)]}})

selectCanonicalSuffix(s) ==
    The({SuffixBetween(s, committed, longest) :
            committed \in {CommittedBound(s)},
            longest \in {Max({s.joins[x].head : x \in Joined(s)} \cup {0})}})

Adopt(s, c) ==
    IF c.conflict THEN Fail(s)
    ELSE IF ~c.resolved THEN IF Joined(s) = Replicas THEN Fail(s) ELSE s
    ELSE IF validRecoveringView(s, s.view, c.commit, c.head, Proof(c.headers))
    THEN recordRecoveringView(s, s.view, c.commit, c.head, c.headers)
    ELSE s
tryInstallCanonicalView(s) == The({Adopt(s, c) : c \in {selectCanonicalSuffix(s)}})

recordJoinView(s, j) ==
    IF s.joins[j.author] # NoJoin THEN s
    ELSE The({IF Cardinality(Joined(t)) >= ViewChangeQuorum THEN tryInstallCanonicalView(t) ELSE t :
                 t \in {[s EXCEPT !.joins[j.author] = j]}})

sendJoinView(r, s) ==
    LET j == [type |-> "JoinView", author |-> r, view |-> s.view, logView |-> s.logView,
              head |-> s.headOp, commit |-> s.commitMin, evidence |-> Evidence(s)]
    IN  IF s.status # "ViewChange" \/ s.durableView # s.view THEN s
        ELSE IF isPrimary(r, s) THEN The({recordJoinView(t, own) : t \in {s}, own \in {j}})
        ELSE Send(s, j)

---------------------------------------------------------------------------
(* A View proof: the head, the learned commit and the newest headers, with *)
(* the checkpoint header last.                                             *)

collectViewSuffix(s) ==
    LET suffix == collectLocalSuffix(s)
    IN  IF Root \in ToSet(suffix) THEN suffix
        ELSE Append(SubSeq(suffix, 1, PipelineMax), Root)

buildView(s) ==
    [type |-> "View", view |-> s.view, head |-> s.headOp, commit |-> s.commitMax,
     headers |-> collectViewSuffix(s)]

\* Consecutive ops linked by their parents, except below the anchor.
validViewProof(head, headers) ==
    /\ headers[1].op = head /\ Last(headers) = Root
    /\ \A i \in 1 .. Len(headers) - 1 :
          /\ headers[i].op = head - (i - 1)
          /\ headers[i + 1] = Root \/ headers[i].parent = headers[i + 1].id
          /\ headers[i].op = 1 => headers[i].parent = Root.id

---------------------------------------------------------------------------
(* Repairing the log toward a canonical suffix. *)

GetHeaders(r, s) ==
    [type |-> "GetHeaders", author |-> r, to |-> Primary(s.repair.view),
     start |-> s.commitMin + 1, end |-> s.repair.head]

\* A replica more than a pipeline behind asks for one window of headers.
beginRepairWindow(r, s, view, commit) ==
    LET head == Min({commit, s.commitMin + PipelineMax})
        t == [s EXCEPT
                !.status = "RecoveringHead",
                !.repair = [valid |-> TRUE, window |-> TRUE, view |-> view, commit |-> head,
                            head |-> head, ancestor |-> s.commitMin, rebuilt |-> FALSE,
                            headers |-> << >>, frames |-> {}],
                !.commitMax = Max({@, commit})]
    IN  Send(t, GetHeaders(r, t))

MissingFrames(s) ==
    {i \in DOMAIN s.repair.headers :
        s.repair.headers[i].op > s.repair.ancestor /\ s.repair.headers[i].op \notin s.repair.frames}

\* Storage and the commit pipeline are quiet, so the log may be replaced.
Drained(s) ==
    /\ s.repairWrite = Blank /\ ~s.viewIO.busy /\ ~s.inflight
    /\ \A i \in DOMAIN s.pipe : s.pipe[i].durable

Repairing(s) ==
    s.repair.valid /\ ~s.repair.window /\ ~s.repair.rebuilt /\ Drained(s) /\ MissingFrames(s) # {}

\* The oldest canonical prepare still to be fetched.
repairHeader(s) == s.repair.headers[Max(MissingFrames(s))]

\* truncatePipelineAfter the ancestor, then push the canonical suffix.
Rebuild(s, kept, new) ==
    IF Len(kept) + Len(new) > PipelineMax THEN Fail(s)
    ELSE [s EXCEPT
            !.pipe = kept \o [i \in DOMAIN new |-> [h |-> new[i], durable |-> TRUE]],
            !.headOp = s.repair.head, !.headId = s.repair.headers[1].id,
            !.view = s.repair.view, !.commitMax = Max({@, s.repair.commit}),
            !.repair.rebuilt = TRUE]

\* MUTANT of InstallRepaired: the view is installed before its commits run.
InstallBeforeCommits(s) ==
    IF s.status = "Failed" THEN s
    ELSE [persistView(s, TRUE, s.repair.commit, s.repair.headers) EXCEPT !.repair = NoRepair]

\* The canonical log is in place: execute what it commits, then install it.
InstallRepaired(s) ==
    IF s.status = "Failed" \/ s.commitMin < s.repair.commit THEN s
    ELSE [persistView(s, TRUE, s.repair.commit, s.repair.headers) EXCEPT !.repair = NoRepair]

finishRecoveringView(s) ==
    IF s.repair.rebuilt THEN InstallRepaired(s)
    ELSE IF s.repair.ancestor < s.commitMin \/ ~localHeaderEvidence(s, s.repair.ancestor).present
    THEN s
    ELSE InstallRepaired(
            Rebuild(s, SelectSeq(s.pipe, LAMBDA e : e.h.op <= s.repair.ancestor),
                    SelectSeq(Reverse(s.repair.headers), LAMBDA h : h.op > s.repair.ancestor)))

continueRecoveringView(r, s) ==
    IF ~s.repair.valid \/ ~Drained(s) THEN s
    ELSE IF s.repair.window THEN Send(s, GetHeaders(r, s))
    ELSE IF Repairing(s) THEN s
    ELSE finishRecoveringView(s)

---------------------------------------------------------------------------
(* The tail of Replica.Process: what follows every event. *)

\* MUTANT of canAcknowledge: a durable view is enough, its log is not awaited.
AcknowledgeWhileJoining(s) == s.view = s.durableView /\ ~s.viewIO.busy

canAcknowledge(s) ==
    s.status = "Normal" /\ s.view = s.durableView /\ s.logView = s.view /\ ~s.viewIO.busy

PrepareOK(r, s, h) ==
    [type |-> "PrepareOK", author |-> r, view |-> s.view, id |-> h.id]

\* The primary counts its own durable copy; a backup sends it, again when the
\* prepare is repeated, also for an op that has been executed.
acknowledgeDurablePrepares(r, s) ==
    IF canAcknowledge(s)
    THEN [s EXCEPT !.out = @ \cup {PrepareOK(r, s, localHeaderEvidence(s, op).h) :
                                      op \in {x \in 1 .. s.headOp : Clean(s, x)}}]
    ELSE s

StartCommit(s) == [s EXCEPT !.inflight = TRUE]

\* The first entry is executed once it is durable and the primary's commit
\* covers it, or the canonical suffix being installed does. A primary in
\* normal operation waits for a quorum: HandlePrepareOK.
advanceCommit(r, s) ==
    IF /\ s.pipe # << >> /\ s.pipe[1].durable
       /\ IF s.repair.valid /\ s.repair.rebuilt
          THEN IF isPrimary(r, s) THEN s.repair.commit >= s.pipe[1].h.op
               ELSE s.commitMax >= s.pipe[1].h.op
          ELSE s.status = "Normal" /\ ~isPrimary(r, s) /\ s.commitMax >= s.pipe[1].h.op
    THEN StartCommit(s)
    ELSE s

validateReplicaSnapshot(r, s) ==
    /\ s.durableView <= s.view /\ s.logView <= s.view
    /\ s.status = "Normal" => s.view = s.logView /\ s.view = s.durableView
    /\ s.commitMin <= s.headOp /\ s.commitMin <= s.commitMax
    /\ s.headOp <= s.commitMax + PipelineMax
    /\ s.status = "Normal" /\ isPrimary(r, s)
          => s.commitMin = s.commitMax /\ s.headOp - s.commitMin = Len(s.pipe)

\* What the timers send: Ping with the durable view; the primary's Commit of
\* what it has executed; ExitView from a backup that suspects the primary, or
\* from a primary whose oldest prepare has no quorum.
Heartbeats(r, s) ==
    {[type |-> "Ping", author |-> r, view |-> s.durableView]}
    \cup (IF s.status = "Normal" /\ isPrimary(r, s)
          THEN {[type |-> "Commit", view |-> s.view, commit |-> s.commitMin,
                 id |-> localHeaderEvidence(s, s.commitMin).h.id]}
          ELSE {})
    \cup (IF s.status = "Normal" /\ s.view < MaxView /\ (isPrimary(r, s) => s.pipe # << >>)
          THEN {[type |-> "ExitView", author |-> r, view |-> s.view]}
          ELSE {})

Settle(s) ==
    IF s.pendingView > s.view /\ ~s.viewIO.busy /\ ~s.inflight THEN resumePendingViewChange(s) ELSE s

Checked(r, s) ==
    IF s.status = "Failed" \/ ~validateReplicaSnapshot(r, s) THEN Fail(s)
    ELSE [s EXCEPT !.out = @ \cup Heartbeats(r, s)]

Publish(r, s) ==
    /\ rep' = [rep EXCEPT ![r] = [s EXCEPT !.out = {}]]
    /\ net' = net \cup s.out

\* One event of replica r: the handler, and then what Process does after it.
Step(r, handled) ==
    \E s \in {handled} :
        IF s.status = "Failed" THEN Publish(r, s)
        ELSE \E settled \in {Settle(s)} :
             \E repaired \in {continueRecoveringView(r, settled)} :
             \E acknowledged \in {acknowledgeDurablePrepares(r, repaired)} :
             \E advanced \in {advanceCommit(r, acknowledged)} : Publish(r, Checked(r, advanced))

Up(r) == rep[r].status # "Failed"

---------------------------------------------------------------------------
(* Normal operation. *)

Push(s, h) ==
    [s EXCEPT !.pipe = Append(@, [h |-> h, durable |-> FALSE]),
              !.headOp = h.op, !.headId = h.id]

createPrepare(s) == Header(Cardinality(Prepares) + 2, s.headOp + 1, s.view, s.headId, s.commitMin)

\* MUTANT of HandleRequest: a full pipeline is not checked.
HandleRequestUnbounded(r) ==
    LET s == rep[r]
        h == createPrepare(s)
    IN  /\ Cardinality(Prepares) < MaxPrepares
        /\ s.status = "Normal" /\ s.durableView = s.view /\ isPrimary(r, s)
        /\ Step(r, Send(Push(s, h), [type |-> "Prepare", header |-> h]))
        /\ UNCHANGED <<history, crashes>>

\* handleRequest and createPrepare (a pulse or upgrade is created alike).
HandleRequest(r) ==
    LET s == rep[r]
        h == createPrepare(s)
    IN  /\ Cardinality(Prepares) < MaxPrepares
        /\ s.status = "Normal" /\ s.durableView = s.view /\ isPrimary(r, s)
        /\ Len(s.pipe) < PipelineMax
        /\ Step(r, Send(Push(s, h), [type |-> "Prepare", header |-> h]))
        /\ UNCHANGED <<history, crashes>>

Extends(s, h) == h.op = s.headOp + 1 /\ h.parent = s.headId /\ h.commit <= s.commitMin

\* A prepare of the current view that extends the log is appended.
AcceptPrepare(r, h) ==
    LET s == rep[r]
    IN  /\ s.status = "Normal" /\ s.durableView = s.view /\ h.view = s.view
        /\ InPipe(s, h.op) = {} /\ h.op > s.commitMin
        /\ Extends(s, h) /\ Len(s.pipe) < PipelineMax
        /\ Step(r, Push(s, h))
        /\ UNCHANGED <<history, crashes>>

\* The append of a pipeline entry completes; appends complete in any order.
FinishAppend(r, i) ==
    LET s == rep[r]
    IN  /\ Up(r) /\ i \in DOMAIN s.pipe /\ ~s.pipe[i].durable
        /\ Step(r, [s EXCEPT !.pipe[i].durable = TRUE,
                             !.disk[s.pipe[i].h.op] = s.pipe[i].h,
                             !.faulty = @ \ {s.pipe[i].h.op}])
        /\ UNCHANGED <<history, crashes>>

Acks(s, h) ==
    {m.author : m \in {x \in net : x.type = "PrepareOK" /\ x.view = s.view /\ x.id = h.id}}

\* The PrepareOK that completes the quorum of the primary's oldest prepare. The
\* ones before it, and those of later prepares, only set a bit.
HandlePrepareOK(r) ==
    LET s == rep[r]
    IN  /\ s.status = "Normal" /\ s.durableView = s.view /\ isPrimary(r, s)
        /\ s.pipe # << >> /\ s.pipe[1].durable /\ ~s.inflight
        /\ Cardinality(Acks(s, s.pipe[1].h)) >= ReplicationQuorum
        /\ Step(r, StartCommit(s))
        /\ UNCHANGED <<history, crashes>>

\* The primary's commit heartbeat. The order check (lastPrimaryCommit) is left
\* out: a heartbeat it would drop carries a commit that is already learned.
HandleCommit(r, m) ==
    LET s == rep[r]
        local == localHeaderEvidence(s, m.commit)
        differs == local.present /\ local.h.id # m.id
        lost == m.commit > s.headOp /\ ~s.inflight
    IN  /\ s.status = "Normal" /\ ~isPrimary(r, s) /\ m.view = s.view
        /\ IF differs THEN m.commit > s.commitMin ELSE m.commit > s.commitMax
        /\ Step(r, [s EXCEPT !.status = IF differs \/ lost THEN "RecoveringHead" ELSE @,
                             !.commitMax = IF differs THEN @ ELSE Max({@, m.commit})])
        /\ UNCHANGED <<history, crashes>>

\* What follows the execution of an op (completeCommitEntry).
Committed(r, s) ==
    IF s.pendingView > s.view THEN resumePendingViewChange(s)
    ELSE IF s.pipe = << >> /\ s.status = "Normal" /\ s.commitMin < s.commitMax
    THEN beginRepairWindow(r, s, s.view, s.commitMax)
    ELSE s

\* Prefetch, execution and the reply write of the first entry complete.
FinishCommit(r) ==
    LET s == rep[r]
        h == s.pipe[1].h
    IN  /\ Up(r) /\ s.inflight
        /\ Step(r, Committed(r, [s EXCEPT !.pipe = Tail(@), !.inflight = FALSE,
                                          !.commitMin = h.op, !.commitMax = Max({@, h.op}),
                                          !.executed = Append(@, h.id)]))
        /\ history' = history \cup {<<h.op, h.id>>}
        /\ UNCHANGED crashes

---------------------------------------------------------------------------
(* View change. *)

\* The ExitView that completes the quorum; the ones before it set a bit.
HandleExitView(r) ==
    LET s == rep[r]
    IN  /\ s.status = "Normal" /\ s.view < MaxView
        /\ Cardinality({m \in net : m.type = "ExitView" /\ m.view = s.view}) >= ViewChangeQuorum
        /\ s.pendingView <= s.view
        /\ Step(r, beginViewChange(s, s.view + 1))
        /\ UNCHANGED <<history, crashes>>

\* Ping, Pong, ExitView or JoinView of a higher view.
HandleHigherView(r, view) ==
    LET s == rep[r]
    IN  /\ s.status \in {"Normal", "ViewChange"} /\ view > s.view /\ view > s.pendingView
        /\ Step(r, beginViewChange(s, view))
        /\ UNCHANGED <<history, crashes>>

\* What a durable superblock leads to: a join, or normal operation. A view
\* change that waited for it comes first.
Joining(r, s) ==
    IF s.pendingView > s.view THEN resumePendingViewChange(s)
    ELSE sendJoinView(r, [s EXCEPT !.pendingView = 0])

Installed(r, s) ==
    IF s.pendingView > s.view THEN resumePendingViewChange(s)
    ELSE LET t == [s EXCEPT !.pendingView = 0]
         IN  IF isPrimary(r, t) THEN Send(t, buildView(t)) ELSE t

\* The superblock that records a view is durable, or was refused.
HandleViewPersistence(r) ==
    LET s == rep[r]
        t == [s EXCEPT !.viewIO = NoIO, !.durableView = s.view, !.sb = s.viewIO.sb]
        u == [t EXCEPT !.logView = s.view, !.status = "Normal",
                       !.commitMax = Max({@, s.viewIO.sb.commit})]
    IN  /\ Up(r) /\ s.viewIO.busy
        /\ Step(r, IF s.viewIO.refused THEN Fail([s EXCEPT !.viewIO = NoIO])
                   ELSE IF s.viewIO.install THEN Installed(r, acknowledgeDurablePrepares(r, u))
                   ELSE Joining(r, t))
        /\ UNCHANGED <<history, crashes>>

\* The join timer repeats the JoinView, then gives the view up.
JoinTimeout(r) ==
    LET s == rep[r]
    IN  /\ s.status = "ViewChange" /\ s.durableView = s.view
        /\ \/ Step(r, sendJoinView(r, s))
           \/ s.view < MaxView /\ Step(r, beginViewChange(s, s.view + 1))
        /\ UNCHANGED <<history, crashes>>

HandleJoinView(r, m) ==
    LET s == rep[r]
    IN  /\ Up(r) /\ m.view = s.view /\ isPrimary(r, s) /\ s.durableView = s.view
        /\ \/ /\ s.status = "Normal" /\ s.logView = s.view /\ buildView(s) \notin net
              /\ Step(r, Send(s, buildView(s)))
           \/ /\ s.status = "ViewChange" /\ s.joins[m.author] = NoJoin
              /\ Step(r, recordJoinView(s, m))
        /\ UNCHANGED <<history, crashes>>

---------------------------------------------------------------------------
(* Catching up. A GetView carries a random nonce, and the View that        *)
(* answers it is accepted only while that nonce is outstanding. An answer  *)
(* is delivered at once, or stays in flight in answers[r].                 *)

MessageViews(types) ==
    {m.view : m \in {x \in net : x.type \in types}}

PrepareViews == {h.view : h \in Prepares}

\* What makes a replica ask for the View of a view: a prepare or commit of a
\* later view, or of its own while it has no log to apply it to; a prepare of
\* its view that does not extend the log; a lost head; the repair timer.
ViewEvidence(s, view) ==
    \/ view > s.view /\ view \in PrepareViews \cup MessageViews({"Commit"})
    \/ s.status = "RecoveringHead" /\ view > s.view /\ view \in MessageViews({"Ping", "ExitView", "JoinView"})
    \/ s.status = "RecoveringHead" /\ view = s.view
    \/ s.status = "ViewChange" /\ view = s.view /\ view \in PrepareViews \cup MessageViews({"Commit"})
    \/ s.status # "RecoveringHead" /\ view = s.view /\ s.headOp < s.commitMax
    \/ /\ s.status = "Normal" /\ view = s.view
       /\ \E h \in Prepares : /\ h.view = view /\ InPipe(s, h.op) = {} /\ h.op > s.commitMin
                              /\ ~Extends(s, h)

\* Replica r asks the primary of a view, and p, a primary by now of that view
\* or a later one, answers.
HandleGetView(r, p, view) ==
    /\ Up(r) /\ ViewEvidence(rep[r], view) /\ p = Primary(view) /\ p # r
    /\ rep[p].status = "Normal" /\ isPrimary(p, rep[p]) /\ rep[p].durableView = rep[p].view
    /\ rep[p].view >= view

DelayView(r, p, view) ==
    /\ HandleGetView(r, p, view)
    /\ Cardinality(UNION {{x} \X rep[x].answers : x \in Replicas}) < MaxDelayed
    /\ rep' = [rep EXCEPT ![r].answers = @ \cup {buildView(rep[p])}]
    /\ UNCHANGED <<net, history, crashes>>

\* A View broadcast by its primary (matched is FALSE) or one that answers the
\* outstanding nonce. No head passes the WAL's prepareMaximum here.
HandleView(r, m, matched) ==
    LET s == rep[r]
        count == Len(m.headers)
        far == m.commit > s.commitMin /\ m.head - s.commitMin > PipelineMax
    IN  /\ Up(r) /\ m.view >= s.view
        /\ ~s.viewIO.busy /\ s.repairWrite = Blank /\ ~s.repair.valid
        /\ m.commit >= s.commitMax /\ m.head >= m.commit /\ m.head >= s.commitMin
        /\ m.view = s.view /\ s.status \in {"Normal", "RecoveringHead"} => matched
        /\ \A i \in DOMAIN m.headers : m.headers[i].view <= m.view
        /\ validViewProof(m.head, m.headers)
        /\ (IF count > 1 THEN m.headers[count - 1] ELSE Root).op <= m.commit + 1
        /\ far \/ validRecoveringView(s, m.view, m.commit, m.head, Proof(m.headers))
        /\ LET t == [s EXCEPT !.answers = {}]
           IN  Step(r, IF far THEN beginRepairWindow(r, t, m.view, m.commit)
                       ELSE recordRecoveringView(t, m.view, m.commit, m.head, m.headers))
        /\ UNCHANGED <<history, crashes>>

\* What the WAL's slots may show while a repair write is out: the worker is at it,
\* has not begun, or has finished and its completion is not polled yet.
SlotViews(s) ==
    IF s.repairWrite = Blank THEN {s}
    ELSE {s, [s EXCEPT !.repairWrite = Blank],
          [s EXCEPT !.repairWrite = Blank, !.disk[s.repairWrite.op] = s.repairWrite,
                    !.faulty = @ \ {s.repairWrite.op}]}

\* Any replica serves the clean headers of a range, in whatever view it is.
HandleGetHeaders(r, m) ==
    \E s \in SlotViews(rep[r]) :
    LET served == SelectSeq([i \in 1 .. (m.end + 1 - m.start) |-> m.start + i - 1],
                            LAMBDA op : op <= s.headOp /\ Clean(s, op))
        reply == [type |-> "Headers", author |-> r, to |-> m.author,
                  headers |-> [i \in DOMAIN served |-> localHeaderEvidence(s, served[i]).h]]
    IN  /\ Up(r) /\ m.start <= m.end /\ served # << >> /\ reply \notin net
        /\ Step(r, Send(rep[r], reply))
        /\ UNCHANGED <<history, crashes>>

\* The headers of a repair window: a chain from the committed op to its head.
handleRepairWindowHeaders(r, m) ==
    LET s == rep[r]
        hs == m.headers
        Before(i) == IF i = 1 THEN localHeaderEvidence(s, s.commitMin).h ELSE hs[i - 1]
    IN  /\ Up(r) /\ s.repairWrite = Blank /\ s.repair.window
        /\ m.author = Primary(s.repair.view) /\ Len(hs) <= PipelineMax + 1
        /\ Clean(s, s.commitMin)
        /\ \A i \in DOMAIN hs : /\ hs[i].op = s.commitMin + i /\ hs[i].view <= s.repair.view
                                /\ hs[i].parent = Before(i).id
        /\ Last(hs).op = s.repair.head
        /\ Step(r, [s EXCEPT !.repair.window = FALSE, !.repair.headers = Reverse(hs)])
        /\ UNCHANGED <<history, crashes>>

\* The prepare asked for arrives and its write to the WAL starts.
handleRepairPrepare(r) ==
    LET s == rep[r]
    IN  /\ s.status = "RecoveringHead" /\ Repairing(s) /\ repairHeader(s) \in Prepares
        /\ repairHeader(s).op > s.commitMin
        /\ Step(r, [s EXCEPT !.repairWrite = repairHeader(s)])
        /\ UNCHANGED <<history, crashes>>

\* MUTANT of finishRepairWrite: the repaired prepare is not ticked off.
RepairWriteForgotten(r) ==
    LET s == rep[r]
        h == s.repairWrite
    IN  /\ Up(r) /\ h # Blank
        /\ Step(r, [s EXCEPT !.repairWrite = Blank, !.disk[h.op] = h, !.faulty = @ \ {h.op}])
        /\ UNCHANGED <<history, crashes>>

finishRepairWrite(r) ==
    LET s == rep[r]
        h == s.repairWrite
    IN  /\ Up(r) /\ h # Blank
        /\ Step(r, [s EXCEPT !.repairWrite = Blank, !.disk[h.op] = h, !.faulty = @ \ {h.op},
                             !.repair.frames = IF s.repair.valid THEN @ \cup {h.op} ELSE @])
        /\ UNCHANGED <<history, crashes>>

---------------------------------------------------------------------------
(* Crash and restart. WAL appends are serialised, so a crash finds some    *)
(* done, at most one in progress and the others not begun. Recovery cannot *)
(* use a torn prepare, nor one that overwrites another whose redundant     *)
(* header is still in place: the slot is faulty. An obsolete header is no  *)
(* obstacle (the whole prepare is used), and writing the same bytes again  *)
(* tears nothing.                                                          *)

\* The longest chain of usable slots from the root.
RecoveredHead(disk, faulty, sb) ==
    LET Usable(op) == disk[op] # Blank /\ op \notin faulty /\ ~obsoleteWALCandidate(disk[op], sb)
        Linked(op) == Usable(op) /\ disk[op].parent = (IF op = 1 THEN Root ELSE disk[op - 1]).id
    IN  Max({0} \cup {op \in Ops : \A x \in 1 .. op : Linked(x)})

\* The fields of a replica that storage does not determine.
Fresh(s) ==
    [s EXCEPT !.pipe = << >>, !.inflight = FALSE, !.pendingView = 0, !.joins = NoJoins,
              !.viewIO = NoIO, !.repair = NoRepair, !.repairWrite = Blank, !.answers = {}]

recoveredCommitTarget(head, header, sb) ==
    Max({sb.commit, header.commit, IF head > PipelineMax THEN head - PipelineMax ELSE 0})

\* MUTANT of replayCommitted: the replay stops at the superblock's commit.
ReplayDurable(s, target) == [op \in 1 .. Min({target, s.sb.commit}) |-> s.disk[op].id]

replayCommitted(s, target) == [op \in 1 .. target |-> s.disk[op].id]

loadRecoveredSuffix(s, first, last) ==
    [i \in 1 .. (last + 1 - first) |-> [h |-> s.disk[first + i - 1], durable |-> TRUE]]

persistRecoveredView(sb, head, view) == [sb EXCEPT !.view = view, !.head = head]

\* MUTANT of OpenAt: a primary resumes the view it led.
PrimaryResumes(r, s, head, header, target, sb) ==
    [s EXCEPT !.status = IF sb.view > sb.logView THEN "ViewChange" ELSE "Normal",
              !.view = sb.view, !.durableView = sb.view, !.logView = sb.logView, !.sb = sb,
              !.headOp = head, !.headId = header.id,
              !.commitMin = target, !.commitMax = Max({sb.commit, target}),
              !.executed = replayCommitted(s, target),
              !.pipe = loadRecoveredSuffix(s, target + 1, head)]

\* Open: what a replica restarts as from its WAL and superblock. A faulty slot
\* leaves the head uncertain and nothing is replayed; otherwise everything
\* known to be committed is, and a primary leaves its view.
OpenAt(r, s, head, header, target, sb) ==
    LET leave == sb.view = sb.logView /\ Primary(sb.view) = r
        view  == IF leave THEN sb.view + 1 ELSE sb.view
    IN  [s EXCEPT !.status = IF view > sb.logView THEN "ViewChange" ELSE "Normal",
                  !.view = view, !.durableView = view, !.logView = sb.logView,
                  !.sb = IF leave THEN persistRecoveredView(sb, head, view) ELSE sb,
                  !.headOp = head, !.headId = header.id,
                  !.commitMin = target, !.commitMax = Max({sb.commit, target}),
                  !.executed = replayCommitted(s, target),
                  !.pipe = loadRecoveredSuffix(s, target + 1, head)]

OpenUncertain(s, head, header, sb) ==
    [s EXCEPT !.status = "RecoveringHead", !.view = sb.view, !.durableView = sb.view,
              !.logView = sb.logView, !.sb = sb,
              !.headOp = Max({head, sb.commit}), !.headId = header.id,
              !.commitMin = 0, !.commitMax = sb.commit, !.executed = << >>]

OpenFrom(r, s, head, header, sb) ==
    IF s.faulty # {} THEN OpenUncertain(s, head, header, sb)
    ELSE IF recoveredCommitTarget(head, header, sb) > head THEN Fail([s EXCEPT !.view = sb.view])
    ELSE OpenAt(r, s, head, header, recoveredCommitTarget(head, header, sb), sb)

Open(r, s, sb) ==
    LET head == RecoveredHead(s.disk, s.faulty, sb)
    IN  OpenFrom(r, s, head, IF head = 0 THEN Root ELSE s.disk[head], sb)

\* The appends that a crash may interrupt.
Writes(s) ==
    {h \in Prepares : h = s.repairWrite \/ \E i \in DOMAIN s.pipe : s.pipe[i] = [h |-> h, durable |-> FALSE]}

Reopened(r, s) ==
    /\ s.view <= MaxView
    /\ Step(r, s)
    /\ history' = history \cup {<<op, s.executed[op]>> : op \in DOMAIN s.executed}

\* Replica r crashes with the writes in done complete and those in torn in
\* progress, and opens again.
Restart(r, done, torn, sb) ==
    LET s == rep[r]
        faulty == (s.faulty \ {h.op : h \in done}) \cup {h.op : h \in torn}
        disk == [op \in Ops |->
                    LET D == {h \in done : h.op = op}
                    IN  IF op \in faulty THEN Blank
                        ELSE IF D # {} THEN CHOOSE h \in D : TRUE ELSE s.disk[op]]
    IN  /\ crashes' = crashes + 1
        /\ Cardinality(torn) <= 1
        /\ \A h \in torn :
              LET old == s.disk[h.op]
              IN  old # h /\ (TornWrites \/ (old # Blank /\ ~obsoleteWALCandidate(old, sb)))
        /\ Reopened(r, Open(r, [Fresh(s) EXCEPT !.disk = disk, !.faulty = faulty], sb))

---------------------------------------------------------------------------

Init ==
    /\ rep = [r \in Replicas |->
          [status |-> "Normal", view |-> 0, durableView |-> 0, logView |-> 0,
           headOp |-> 0, headId |-> Root.id, commitMin |-> 0, commitMax |-> 0,
           pipe |-> << >>, inflight |-> FALSE, pendingView |-> 0, joins |-> NoJoins,
           viewIO |-> NoIO, repair |-> NoRepair, repairWrite |-> Blank,
           disk |-> [op \in Ops |-> Blank], faulty |-> {}, sb |-> NoIO.sb,
           answers |-> {}, executed |-> << >>, out |-> {}]]
    /\ net = {} /\ history = {} /\ crashes = 0

OfType(type) == {m \in net : m.type = type}
Crash(r) ==
    /\ crashes < MaxCrashes
    /\ \E done \in SUBSET Writes(rep[r]) : \E torn \in SUBSET (Writes(rep[r]) \ done) :
         \E sb \in {rep[r].sb} \cup (IF rep[r].viewIO.busy /\ ~rep[r].viewIO.refused
                                    THEN {rep[r].viewIO.sb} ELSE {}) :
             Restart(r, done, torn, sb)

\* Storage and the state machine answer.
Completion(r) ==
    \/ \E i \in DOMAIN rep[r].pipe : FinishAppend(r, i)
    \/ FinishCommit(r)
    \/ HandleViewPersistence(r)
    \/ finishRepairWrite(r)

\* A message that the network delivers, or that a timer repeats until it does.
Delivery(r) ==
    \/ \E h \in Prepares : AcceptPrepare(r, h)
    \/ HandlePrepareOK(r)
    \/ \E m \in OfType("Commit") : HandleCommit(r, m)
    \/ \E m \in OfType("Ping") \cup OfType("ExitView") \cup OfType("JoinView") :
          HandleHigherView(r, m.view)
    \/ \E m \in OfType("JoinView") : HandleJoinView(r, m)
    \/ \E m \in OfType("View") : HandleView(r, m, FALSE)
    \/ \E p \in Replicas, view \in 0 .. MaxView :
          HandleGetView(r, p, view) /\ \E m \in {buildView(rep[p])} : HandleView(r, m, TRUE)
    \/ \E m \in OfType("GetHeaders") : m.to = r /\ HandleGetHeaders(r, m)
    \/ \E m \in OfType("Headers") : m.to = r /\ handleRepairWindowHeaders(r, m)
    \/ handleRepairPrepare(r)

\* What need not happen: requests, suspicion of the primary, answers that come
\* late, and crashes.
Chance(r) ==
    \/ HandleRequest(r)
    \/ HandleExitView(r)
    \/ JoinTimeout(r)
    \/ \E p \in Replicas, view \in 0 .. MaxView : DelayView(r, p, view)
    \/ \E m \in rep[r].answers : HandleView(r, m, TRUE)
    \/ Crash(r)

Next == \E r \in Replicas : Completion(r) \/ Delivery(r) \/ Chance(r)

Spec == Init /\ [][Next]_vars

\* The event loop handles whatever keeps reaching it.
Fairness == \A r \in Replicas : WF_vars(Completion(r) \/ Delivery(r))

FairSpec == Spec /\ Fairness

---------------------------------------------------------------------------
(* Properties. *)

Headers ==
    [id : 0 .. MaxPrepares + 1, op : 0 .. MaxPrepares, view : 0 .. MaxView,
     parent : 0 .. MaxPrepares + 1, commit : 0 .. MaxPrepares]
Superblocks ==
    [view : 0 .. MaxView, logView : 0 .. MaxView, commit : 0 .. MaxPrepares, head : 0 .. MaxPrepares]

\* The types of the Replica struct's fields and of its storage: the pipeline
\* never exceeds PipelineMax, and every slot holds a prepare of its own op.
TypeOK ==
    /\ crashes \in 0 .. MaxCrashes
    /\ history \subseteq Ops \X (0 .. MaxPrepares + 1)
    /\ \A r \in Replicas :
         LET s == rep[r]
         IN  /\ s.status \in {"Normal", "ViewChange", "RecoveringHead", "Failed"}
             /\ {s.view, s.durableView, s.logView, s.pendingView} \subseteq 0 .. MaxView
             /\ {s.headOp, s.commitMin, s.commitMax} \subseteq 0 .. MaxPrepares
             /\ Len(s.pipe) <= PipelineMax
             /\ \A i \in DOMAIN s.pipe : s.pipe[i] \in [h : Headers, durable : BOOLEAN]
             /\ s.viewIO \in [busy : BOOLEAN, install : BOOLEAN, refused : BOOLEAN, sb : Superblocks]
             /\ s.sb \in Superblocks /\ s.repairWrite \in Headers
             /\ s.disk \in [Ops -> Headers] /\ \A op \in Ops : s.disk[op].op \in {0, op}
             /\ s.faulty \subseteq Ops /\ s.out = {}
             /\ DOMAIN s.joins = Replicas /\ ToSet(s.repair.headers) \subseteq Headers

\* State machines apply one history: no two replicas, and no replica before
\* and after a restart, execute different prepares at one op.
Agreement ==
    \A x, y \in history : x[1] = y[1] => x = y

\* commitMin counts what the state machine executed: executeEntry skips no op
\* and repeats none on the way to it.
ExecutedPrefix ==
    \A r \in Replicas : Len(rep[r].executed) = rep[r].commitMin

\* No sequence of legal events leads a replica into fail-stop: the snapshot
\* check after every event passes, canonical selection finds no conflict, and
\* Open succeeds on what a crash leaves.
NeverFailStop ==
    \A r \in Replicas : rep[r].status # "Failed"

\* Replica r's storage would return prepare id after a restart.
Retained(r, id) ==
    \E op \in Ops : /\ rep[r].disk[op].id = id /\ op \notin rep[r].faulty
                    /\ ~obsoleteWALCandidate(rep[r].disk[op], rep[r].sb)

\* An executed prepare stays durable at a replication quorum, so that every
\* later view-change quorum meets it, whatever canonical suffixes are installed
\* and however replicas restart.
CommittedOnQuorum ==
    \A x \in history : Cardinality({r \in Replicas : Retained(r, x[2])}) >= ReplicationQuorum

Joins == OfType("JoinView") \cup ({rep[r].joins[x] : r, x \in Replicas} \ {NoJoin})

\* A PrepareOK is a promise that the next primary hears of: the JoinView by which
\* its author leaves the view, unless it has installed a later log since, reports
\* the prepare within its head, and never as missing or replaced by any but a
\* later view's prepare. A slot in doubt after a crash is blank and not missing.
JoinReportsAcknowledged ==
    \A j \in Joins, m \in OfType("PrepareOK"), h \in Prepares :
        m.author = j.author /\ m.id = h.id /\ m.view < j.view /\ j.logView <= m.view
            => /\ h.op <= j.head
               /\ j.head - h.op < Len(j.evidence) =>
                     LET e == j.evidence[j.head - h.op + 1]
                     IN  ~e.nack /\ (e.h \in {h, Blank} \/ e.h.view > m.view)

\* A view has at most one prepare at an op: a primary that restarts never
\* creates another in the view in which it already did (deriveRecoveredStatus).
OnePreparePerViewOp ==
    \A g, h \in Prepares : g.view = h.view /\ g.op = h.op => g = h

\* A JoinView tells a new primary what its author's log is, and the author then
\* acknowledges nothing until that log is settled: a new PrepareOK is never of an
\* earlier view than a join of its author, and one of the same view comes only once
\* the superblock that installs the view's log is durable. An append that finishes
\* between the join and the installation (sendPrepareOK), a repeated prepare and a
\* restart all leave it silent.
NoAckAfterJoin ==
    [][\A m \in net' \ net, j \in Joins :
          m.type = "PrepareOK" /\ j.author = m.author /\ j.view >= m.view
              => j.view = m.view /\ rep'[m.author].sb.logView = m.view]_vars

\* With the views bounded (no more suspicion) and the requests bounded, the
\* cluster settles: every replica is in normal operation of one view and has
\* executed the whole of one log.
Converges ==
    <>[](\A r, x \in Replicas :
            /\ rep[r].status = "Normal" /\ rep[r].view = rep[x].view
            /\ rep[r].commitMin = rep[r].headOp /\ rep[r].executed = rep[x].executed)

=============================================================================
