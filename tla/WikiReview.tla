------------------------------ MODULE WikiReview ------------------------------
(***************************************************************************)
(* The publication gate of the wiki, for one topic.  `wiki draft` writes   *)
(* an article from its evidence, `wiki review-draft` has it audited in one *)
(* or more passes, an agent rules on what the passes found, and            *)
(* `wiki check-draft --review` says whether the article may be published.  *)
(* Everything they know of each other is a set of files beside the draft,  *)
(* and each call takes minutes, in which the article, the rulings, the     *)
(* topic and the store may change.                                         *)
(*                                                                         *)
(* A file is written in one step, a command reads its inputs in one step,  *)
(* and a hash stands for what it is taken of.  One drafter, one reviewer   *)
(* and any number of short commands run at the same time.                  *)
(***************************************************************************)
EXTENDS Integers, Sequences, FiniteSets, FiniteSetsExt

CONSTANTS Article,      \* the texts an article may have
          Ref,          \* the evidence of the topic
          Claim,        \* ids of claim packets
          Cites,        \* [article |-> the refs it cites]
          Packets,      \* [article |-> the claim ids its passages get]
          Spelled,      \* articles in which the sensitive value appears
          Sensitive,    \* refs whose text contains the sensitive value
          Topic,        \* versions of the accepted topic
          None,
          Remark,       \* an omission or scope finding, beside the claims
          MaxRank,      \* verdicts by severity, 0 is "supported"
          MaxPasses,    \* the largest --passes
          Coverage,     \* the sets of claims one pass may review
          MaxFindings,  \* bound on what one pass finds
          MaxCalls,     \* bound on answered review calls
          MaxDrafts,    \* bound on draft calls
          MaxEdits      \* bound on changes made by hand and in the store

(* What the files hold.  No file is None.                                  *)
Evidence == [refs : SUBSET Ref, raw : BOOLEAN]
Sidecar == [unused : SUBSET Ref]
MaterialType == [article : Article, evidence : Evidence, claims : Sidecar \cup {None},
                 topic : Topic \cup {None}]
Rank == 0..MaxRank
Finding == (Claim \cup {Remark}) \X Nat \X Rank
Report == [about : MaterialType, provenance : Seq(Nat),
           verdict : UNION {[D -> Rank] : D \in SUBSET Claim},
           flagged : SUBSET Finding, broken : SUBSET Nat]

ASSUME WikiReviewAssumption ==
    /\ Cites \in [Article -> SUBSET Ref] /\ Packets \in [Article -> SUBSET Claim]
    /\ Coverage \subseteq SUBSET Claim /\ Spelled \subseteq Article /\ Sensitive \subseteq Ref
    /\ Remark \notin Claim
    /\ None \notin Article \cup Topic \cup Evidence \cup Sidecar \cup MaterialType \cup Report
    /\ {MaxRank, MaxPasses} \subseteq Nat \ {0}
    /\ {MaxCalls, MaxDrafts, MaxEdits} \subseteq Nat

VARIABLES
    store,          \* the refs that resolve
    ruling,         \* sanitization-review.json on the value: open, redact, cleared
    topic,          \* the topic in accepted-topics.jsonl, or None
    draft,          \* <slug>.md
    bundle,         \* <slug>.bundle.json: [refs, raw]
    claims,         \* <slug>.claims.json: [unused]
    compiled,       \* <slug>.review-bundle.json
    report,         \* <slug>.review.json
    adjudication,   \* <slug>.adjudication.json: [report, decision]
    drafter,        \* the draft command: [pc, unused]
    reviewer,       \* the review command: [pc, about, prior, replies, left]
    \* History.
    calls,          \* review calls that came back
    basis,          \* the calls the report on disk counts: [about, reply]
    drafts, edits   \* bounded counters

inputVars == <<store, ruling, topic>>
draftVars == <<draft, bundle, claims>>
reviewVars == <<compiled, report, adjudication>>
histVars == <<calls, basis, drafts, edits>>
vars == <<inputVars, draftVars, reviewVars, drafter, reviewer, histVars>>

NoDrafter == [pc |-> "idle", unused |-> {}]
NoReviewer == [pc |-> "idle", about |-> None, prior |-> None, replies |-> <<>>, left |-> 0]

(***************************************************************************)
(* verify: the questions a program can answer about a draft.               *)
(***************************************************************************)
VerifyClean(article, refs, sidecar) ==
    /\ Cites[article] \subseteq refs
    /\ sidecar # None =>
          /\ sidecar.unused \subseteq refs
          /\ Cites[article] \cap sidecar.unused = {}
          /\ refs \subseteq Cites[article] \cup sidecar.unused

(***************************************************************************)
(* What is reviewed: the draft, its evidence under the present rulings,    *)
(* the claims sidecar and the approved topic.                              *)
(***************************************************************************)
(* The bundle is taken as it was written, under the rulings of that day.   *)
Scrub_AsWritten(b) == b

Scrub(b) == [b EXCEPT !.raw = b.raw /\ ruling # "redact"]

Leaks == ruling = "redact" /\ draft \in Spelled

(* What the topic key finds among the accepted topics.                     *)
ApprovedTopic == topic

(* A packet for each passage that cites something, with the evidence its   *)
(* references resolve to.                                                  *)
ClaimPackets(article) == Packets[article]

HasArtifacts == draft # None /\ bundle # None

Material(approved) ==
    [article |-> draft, evidence |-> Scrub(bundle), claims |-> claims, topic |-> approved]

(***************************************************************************)
(* Grading one pass and merging several.                                   *)
(***************************************************************************)
Reply == [reviews : UNION {[D -> Rank] : D \in Coverage}, remark : BOOLEAN]

ValidReply(reply, material) == DOMAIN reply.reviews = ClaimPackets(material.article)

(* The index of the pass in its run, and not its number in the report.     *)
Found_FromZero(reply, pass) ==
    {<<c, pass - 1, reply.reviews[c]>> : c \in DOMAIN reply.reviews}

(* Findings of the pass with this number: <<source, pass, rank>>.          *)
Found(reply, pass) ==
    {<<c, pass, reply.reviews[c]>> : c \in {d \in DOMAIN reply.reviews : reply.reviews[d] > 0}}
    \cup (IF reply.remark THEN {<<Remark, pass, 0>>} ELSE {})

Strictest(ranks) == Max({0} \cup ranks)

NoReport == [about |-> None, provenance |-> <<>>, verdict |-> <<>>,
             flagged |-> {}, broken |-> {}]

MergeReviews(prior, about, replies) ==
    LET offset == Len(prior.provenance)
        seen == DOMAIN prior.verdict
                \cup UNION {DOMAIN replies[i].reply.reviews : i \in DOMAIN replies}
        ranks(c) == {replies[i].reply.reviews[c] :
                        i \in {j \in DOMAIN replies : c \in DOMAIN replies[j].reply.reviews}}
    IN  [about |-> about,
         provenance |-> prior.provenance \o [i \in DOMAIN replies |-> replies[i].call],
         verdict |-> [c \in seen |->
                         Strictest(ranks(c) \cup (IF c \in DOMAIN prior.verdict
                                                     THEN {prior.verdict[c]} ELSE {}))],
         flagged |-> prior.flagged
                     \cup UNION {Found(replies[i].reply, offset + i) : i \in DOMAIN replies},
         broken |-> prior.broken
                    \cup {offset + i : i \in {j \in DOMAIN replies :
                                                 ~ValidReply(replies[j].reply, about)}}]

RanksOf(rep, c) == {f[3] : f \in {g \in rep.flagged : g[1] = c}}

(* validate_merged_review_report: the report is about this bundle, every   *)
(* pass kept the contract, every packet is reviewed, and each verdict is   *)
(* the strictest of its findings.                                          *)
ValidReport(rep, material) ==
    /\ rep.about = material
    /\ Len(rep.provenance) > 0
    /\ rep.broken = {}
    /\ DOMAIN rep.verdict = ClaimPackets(material.article)
    /\ \A c \in DOMAIN rep.verdict : rep.verdict[c] = Strictest(RanksOf(rep, c))

(***************************************************************************)
(* Adjudication.                                                           *)
(***************************************************************************)
FindingIds(rep) == {<<f[1], f[2]>> : f \in rep.flagged}

Template(rep) == [report |-> rep, decision |-> [f \in FindingIds(rep) |-> "pending"]]

(* Finding ids say nothing about the report they come from.                *)
CleanAdjudication_AnyReport(adj, rep) ==
    IF adj = None THEN FindingIds(rep) = {}
    ELSE /\ DOMAIN adj.decision = FindingIds(rep)
         /\ \A f \in DOMAIN adj.decision : adj.decision[f] = "non_blocking"

CleanAdjudication(adj, rep) ==
    IF adj = None THEN FindingIds(rep) = {}
    ELSE /\ adj.report = rep
         /\ DOMAIN adj.decision = FindingIds(rep)
         /\ \A f \in DOMAIN adj.decision : adj.decision[f] = "non_blocking"

ValidArtifact(rep, material, adj) ==
    /\ ValidReport(rep, material)
    /\ VerifyClean(material.article, material.evidence.refs, material.claims)
    /\ CleanAdjudication(adj, rep)

-----------------------------------------------------------------------------
(* Nothing is drafted yet, or a draft was written from all the evidence.   *)
Init ==
    /\ store = Ref /\ ruling \in {"open", "redact", "cleared"} /\ topic \in Topic
    /\ \/ draft = None /\ bundle = None /\ claims = None
       \/ /\ draft \in Article \ Spelled
          /\ bundle \in [refs : {Ref}, raw : {ruling = "cleared"}]
          /\ claims = [unused |-> Ref \ Cites[draft]]
    /\ compiled = None /\ report = None /\ adjudication = None
    /\ drafter = NoDrafter /\ reviewer = NoReviewer
    /\ calls = 0 /\ basis = <<>> /\ drafts = 0 /\ edits = 0

(***************************************************************************)
(* wiki draft.  The bundle is on disk before the call, the article after   *)
(* it, the claims last.                                                    *)
(***************************************************************************)
(* review_flags finds the value in the evidence.                           *)
Flagged == store \cap Sensitive # {}

Built == [refs |-> store, raw |-> ruling = "cleared" /\ Flagged]

UnruledValue == ruling = "open" /\ Flagged

StartDraft(force) ==
    /\ drafter.pc = "idle" /\ drafts < MaxDrafts
    /\ topic # None
    /\ force \/ draft = None
    /\ ~UnruledValue
    /\ bundle' = Built
    /\ drafter' = [NoDrafter EXCEPT !.pc = "call"]
    /\ drafts' = drafts + 1
    /\ UNCHANGED <<inputVars, draft, claims, reviewVars, reviewer, calls, basis, edits>>

(* The writer has only the bundle to copy the value from; it says of what  *)
(* it does not cite that it is unused, or says nothing.                    *)
DraftAnswered(a, tells) ==
    /\ drafter.pc = "call"
    /\ a \in Spelled => bundle.raw
    /\ draft' = a
    /\ drafter' = [pc |-> "claims", unused |-> IF tells THEN bundle.refs \ Cites[a] ELSE {}]
    /\ UNCHANGED <<inputVars, bundle, claims, reviewVars, reviewer, calls, basis,
                   drafts, edits>>

DraftClaims ==
    /\ drafter.pc = "claims"
    /\ claims' = [unused |-> drafter.unused]
    /\ drafter' = NoDrafter
    /\ UNCHANGED <<inputVars, draft, bundle, reviewVars, reviewer, histVars>>

(* No endpoint answers, the answer lacks a field, or the command is killed.*)
DraftEnds ==
    /\ drafter.pc # "idle"
    /\ drafter' = NoDrafter
    /\ UNCHANGED <<inputVars, draftVars, reviewVars, reviewer, histVars>>

(***************************************************************************)
(* wiki prepare-review and wiki review-draft.                              *)
(***************************************************************************)
PrepareReview ==
    /\ HasArtifacts /\ ~Leaks
    /\ compiled' = Material(ApprovedTopic)
    /\ UNCHANGED <<inputVars, draftVars, report, adjudication, drafter, reviewer, histVars>>

(* A report of this very article and packet, if the passes are to be added.*)
LoadPrior_AnyPacket(material) ==
    IF report # None /\ report.about.article = material.article THEN report ELSE NoReport

LoadPrior(material) ==
    IF report # None /\ report.about = material THEN report ELSE NoReport

StartReview(passes, fresh) ==
    /\ reviewer.pc = "idle" /\ calls + passes <= MaxCalls
    /\ HasArtifacts /\ ~Leaks
    /\ compiled' = Material(ApprovedTopic)
    /\ reviewer' = [pc |-> "call", about |-> Material(ApprovedTopic),
                    prior |-> IF fresh \/ passes = 1 THEN NoReport
                              ELSE LoadPrior(Material(ApprovedTopic)),
                    replies |-> <<>>, left |-> passes]
    /\ UNCHANGED <<inputVars, draftVars, report, adjudication, drafter, calls, basis,
                   drafts, edits>>

PassAnswered(reply) ==
    /\ reviewer.pc = "call" /\ reviewer.left > 0
    /\ Cardinality(Found(reply, 1)) <= MaxFindings
    /\ calls' = calls + 1
    /\ reviewer' = [reviewer EXCEPT
                      !.replies = Append(@, [call |-> calls', reply |-> reply]),
                      !.left = @ - 1]
    /\ UNCHANGED <<inputVars, draftVars, reviewVars, drafter, basis, drafts, edits>>

ReviewWritten ==
    /\ reviewer.pc = "call" /\ reviewer.left = 0
    /\ report' = MergeReviews(reviewer.prior, reviewer.about, reviewer.replies)
    /\ reviewer' = NoReviewer
    /\ basis' = (IF reviewer.prior = NoReport THEN <<>> ELSE basis)
                \o [i \in DOMAIN reviewer.replies |->
                      [about |-> reviewer.about, reply |-> reviewer.replies[i].reply]]
    /\ UNCHANGED <<inputVars, draftVars, compiled, adjudication, drafter, calls,
                   drafts, edits>>

(* A pass finds no endpoint or is refused, or the command is killed: what  *)
(* its earlier passes answered is gone.                                    *)
ReviewEnds ==
    /\ reviewer.pc = "call"
    /\ reviewer' = NoReviewer
    /\ UNCHANGED <<inputVars, draftVars, reviewVars, drafter, histVars>>

(***************************************************************************)
(* wiki prepare-adjudication, and the agent that fills the template in.    *)
(***************************************************************************)
PrepareAdjudication(force) ==
    /\ report # None /\ compiled # None
    /\ force \/ adjudication = None
    /\ ValidReport(report, compiled)
    /\ adjudication' = Template(report)
    /\ UNCHANGED <<inputVars, draftVars, compiled, report, drafter, reviewer, histVars>>

Decide(f, d) ==
    /\ adjudication # None /\ f \in DOMAIN adjudication.decision
    /\ adjudication.decision[f] = "pending"
    /\ adjudication' = [adjudication EXCEPT !.decision[f] = d]
    /\ UNCHANGED <<inputVars, draftVars, compiled, report, drafter, reviewer,
                   calls, basis, drafts, edits>>

(***************************************************************************)
(* wiki check-draft, which only reads.                                     *)
(***************************************************************************)
Rebuilt == Material(IF ApprovedTopic # None THEN ApprovedTopic ELSE compiled.topic)

(* The exit code of check-draft --review --strict is zero.                 *)
GateClean ==
    /\ HasArtifacts /\ compiled # None /\ report # None /\ ~Leaks
    /\ Rebuilt = compiled
    /\ ValidArtifact(report, compiled, adjudication)

(***************************************************************************)
(* People and the store.                                                   *)
(***************************************************************************)
EditDraft(a) ==
    /\ edits < MaxEdits /\ draft # None /\ a # draft
    /\ draft' = a /\ edits' = edits + 1
    /\ UNCHANGED <<inputVars, bundle, claims, reviewVars, drafter, reviewer,
                   calls, basis, drafts>>

EditInputs ==
    /\ edits < MaxEdits
    /\ \/ ruling' \in {"redact", "cleared"} \ {ruling} /\ UNCHANGED <<store, topic>>
       \/ topic' \in (Topic \cup {None}) \ {topic} /\ UNCHANGED <<store, ruling>>
       \/ (\E r \in store : store' = store \ {r}) /\ UNCHANGED <<ruling, topic>>
    /\ edits' = edits + 1
    /\ UNCHANGED <<draftVars, reviewVars, drafter, reviewer, calls, basis,
                   drafts>>

Next ==
    \/ \E force \in BOOLEAN : StartDraft(force) \/ PrepareAdjudication(force)
    \/ \E a \in Article, tells \in BOOLEAN : DraftAnswered(a, tells)
    \/ DraftClaims \/ DraftEnds
    \/ PrepareReview
    \/ \E passes \in 1..MaxPasses, fresh \in BOOLEAN : StartReview(passes, fresh)
    \/ \E reply \in Reply : PassAnswered(reply)
    \/ ReviewWritten \/ ReviewEnds
    \/ \E f \in (Claim \cup {Remark}) \X (1..MaxCalls) :
          \E d \in {"blocking", "non_blocking"} : Decide(f, d)
    \/ \E a \in Article : EditDraft(a)
    \/ EditInputs

Spec == Init /\ [][Next]_vars

-----------------------------------------------------------------------------
IsReport(rep) ==
    /\ rep \in Report /\ rep.provenance \in Seq(1..calls)
    /\ \A f \in rep.flagged : f[2] \in DOMAIN rep.provenance
    /\ rep.broken \subseteq DOMAIN rep.provenance

(* Every file has the form its readers expect, a sidecar is never without  *)
(* the files written before it, and a report counts calls that were made.  *)
TypeOK ==
    /\ store \subseteq Ref /\ ruling \in {"open", "redact", "cleared"}
    /\ topic \in Topic \cup {None} /\ draft \in Article \cup {None}
    /\ bundle \in Evidence \cup {None} /\ claims \in Sidecar \cup {None}
    /\ draft # None => bundle # None
    /\ claims # None => draft # None
    /\ compiled \in MaterialType \cup {None}
    /\ report # None => compiled # None /\ IsReport(report)
    /\ adjudication # None =>
          /\ report # None /\ IsReport(adjudication.report)
          /\ DOMAIN adjudication = {"report", "decision"}
    /\ drafter.pc \in {"idle", "call", "claims"}
    /\ reviewer.pc \in {"idle", "call"} /\ reviewer.left \in 0..MaxPasses

(* An article passes the gate only if some review read exactly this        *)
(* article, evidence, claims sidecar and topic, kept the contract in every *)
(* pass it counts, and every finding of every one of those passes was      *)
(* ruled not to matter by somebody who had this set of passes before him   *)
(* (wiki check-draft --review; adjudication.py:150-233).                   *)
GateMeansReviewed ==
    GateClean =>
        /\ basis # <<>>
        /\ VerifyClean(draft, bundle.refs, claims)
        /\ \A i \in DOMAIN basis :
              LET call == basis[i]
              IN  /\ call.about.article = draft
                  /\ call.about.evidence.refs = bundle.refs
                  /\ call.about.claims = claims
                  /\ topic \in {call.about.topic, None}
                  /\ ValidReply(call.reply, call.about)
                  /\ \A f \in Found(call.reply, i) :
                        /\ adjudication.report.provenance = report.provenance
                        /\ adjudication.decision[<<f[1], f[2]>>] = "non_blocking"

(* "No finding may disappear merely because another pass missed it": the   *)
(* report on disk is exactly the union of the passes it counts, all of     *)
(* them about one packet, and the validator accepts it exactly when each   *)
(* of its passes kept the contract (merge_reviews against                  *)
(* validate_merged_review_report).                                         *)
NoFindingDisappears ==
    report # None =>
        /\ report.flagged = UNION {Found(basis[i].reply, i) : i \in DOMAIN basis}
        /\ \A i \in DOMAIN basis : basis[i].about = report.about
        /\ ValidReport(report, report.about)
              <=> \A i \in DOMAIN basis : ValidReply(basis[i].reply, report.about)

DraftLeaves == drafter.pc = "idle" /\ drafter'.pc = "call"
ReviewLeaves == reviewer.pc = "idle" /\ reviewer'.pc = "call"

(* Nothing leaves unruled: evidence goes out with the value in it only if  *)
(* the value is cleared when the command begins, though the bundle may be  *)
(* older than the ruling, and no article that spells it goes out while it  *)
(* is ruled for redaction (draft.py:9-15, _sanitize_review_artifacts).     *)
NothingUnruledLeaves ==
    [][/\ DraftLeaves /\ bundle'.raw => ruling = "cleared"
       /\ ReviewLeaves /\ reviewer'.about.evidence.raw => ruling = "cleared"
       /\ ReviewLeaves /\ reviewer'.about.article \in Spelled => ruling # "redact"]_vars

(***************************************************************************)
(* What makes them inductive.                                              *)
(***************************************************************************)
RanksIn(b, c) == {b[i].reply.reviews[c] :
                     i \in {j \in DOMAIN b : c \in DOMAIN b[j].reply.reviews}}

(* A report is what the calls of b make, taken one after the other.        *)
Sums(rep, b) ==
    /\ b # <<>> /\ Len(rep.provenance) = Len(b)
    /\ \A i \in DOMAIN b : b[i].about = rep.about
    /\ rep.flagged = UNION {Found(b[i].reply, i) : i \in DOMAIN b}
    /\ rep.broken = {i \in DOMAIN b : ~ValidReply(b[i].reply, rep.about)}
    /\ DOMAIN rep.verdict = UNION {DOMAIN b[i].reply.reviews : i \in DOMAIN b}
    /\ \A c \in DOMAIN rep.verdict : rep.verdict[c] = Strictest(RanksIn(b, c))

HistoryOK ==
    /\ basis \in Seq([about : MaterialType, reply : Reply]) /\ calls \in Nat
    /\ reviewer.replies \in Seq([call : 1..calls, reply : Reply])
    /\ report # None => Sums(report, basis)

(* The reviewer alone writes reports, so the one it adds to is still there,*)
(* and what it has not asked yet it will ask before it writes.             *)
ReviewerOK ==
    /\ DOMAIN reviewer = DOMAIN NoReviewer
    /\ reviewer.pc = "call" =>
          /\ reviewer.about \in MaterialType /\ compiled # None
          /\ reviewer.left = 0 => reviewer.replies # <<>>
          /\ reviewer.prior # NoReport =>
                report # None /\ reviewer.prior = report /\ report.about = reviewer.about

DrafterOK ==
    /\ drafter.unused \subseteq Ref
    /\ drafter.pc # "idle" => bundle # None
    /\ drafter.pc = "claims" => draft # None

(* A value that was ruled on is never open again.                          *)
RawIsRuled == bundle # None /\ bundle.raw => ruling # "open"

ReviewInv == TypeOK /\ HistoryOK /\ ReviewerOK /\ DrafterOK /\ RawIsRuled

=============================================================================
