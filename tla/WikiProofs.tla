------------------------------ MODULE WikiProofs ------------------------------
(***************************************************************************)
(* Proofs about the wiki: the review of an article (WikiReview) first, a   *)
(* compile run (WikiCompile) after it.  The two share the induction on     *)
(* numbers that opens the module and no variable.                          *)
(***************************************************************************)
EXTENDS WikiReview, WikiCompile, SequenceTheorems, FiniteSetTheorems,
        WellFoundedInduction, TLAPS

(* Induction on numbers, in the form of a least element.                   *)
LEMMA LeastOf ==
  ASSUME NEW T \in SUBSET Nat, T # {}
  PROVE  \E x \in T : \A y \in T : x <= y
<1> DEFINE R == OpToRel(<, Nat)
<1>1. IsWellFoundedOn(R, Nat)
  BY NatLessThanWellFounded
<1>2. \A x, y \in Nat : <<x, y>> \in R <=> x < y
  BY DEF OpToRel
<1> HIDE DEF R
<1>3. PICK x \in T : \A y \in T : ~(<<y, x>> \in R)
  BY <1>1, WFMin
<1>4. \A y \in T : x <= y
  <2> TAKE y \in T
  <2>1. ~(<<y, x>> \in R) /\ x \in Nat /\ y \in Nat
    BY <1>3
  <2>2. ~(y < x)
    BY <1>2, <2>1
  <2> QED BY <2>2, <2>1, SMT
<1> QED BY <1>4

LEMMA WiderSeq ==
  ASSUME NEW S, NEW T, S \subseteq T, NEW s \in Seq(S)
  PROVE  s \in Seq(T)
OBVIOUS

-------------------------------------------------------------------------------
(* The strictest of several verdicts.                                      *)

LEMMA MaxRankIsRank == MaxRank \in Nat /\ Rank \subseteq Nat
BY WikiReviewAssumption DEF Rank

(* A set of ranks has a largest one.                                       *)
LEMMA MaxOfRanks ==
  ASSUME NEW S \in SUBSET Rank, S # {}
  PROVE  Max(S) \in S /\ \A y \in S : Max(S) >= y
<1> DEFINE T == {n \in Nat : \A y \in S : n >= y}
<1>1. T \in SUBSET Nat /\ MaxRank \in T
  BY MaxRankIsRank DEF Rank
<1>2. PICK n \in T : \A k \in T : n <= k
  BY <1>1, LeastOf
<1>3. n \in Nat /\ \A y \in S : n >= y
  OBVIOUS
<1>4. n \in S
  <2> SUFFICES ASSUME n \notin S PROVE FALSE
    OBVIOUS
  <2>1. PICK z \in S : TRUE
    OBVIOUS
  <2>2. n > z /\ z \in Nat
    BY <1>3, MaxRankIsRank
  <2>3. n - 1 \in Nat
    BY <1>3, <2>2
  <2>4. \A y \in S : n - 1 >= y
    BY <1>3, MaxRankIsRank
  <2>5. n - 1 \in T
    BY <2>3, <2>4
  <2> QED BY <2>5, <1>2, <1>3
<1>5. \E x \in S : \A y \in S : x >= y
  BY <1>3, <1>4
<1> QED BY <1>5 DEF Max

LEMMA StrictestBounds ==
  ASSUME NEW R \in SUBSET Rank
  PROVE  /\ Strictest(R) \in Rank
         /\ Strictest(R) \in {0} \cup R
         /\ \A r \in R : Strictest(R) >= r
<1>1. {0} \cup R \in SUBSET Rank /\ {0} \cup R # {}
  BY MaxRankIsRank DEF Rank
<1> DEFINE S == {0} \cup R
<1> HIDE DEF S
<1>2. Max(S) \in S /\ \A y \in S : Max(S) >= y
  BY <1>1, MaxOfRanks DEF S
<1>3. Strictest(R) = Max(S)
  BY DEF Strictest, S
<1> QED BY <1>1, <1>2, <1>3 DEF S

(* Taking the strictest as the passes come in, or of all of them at once.  *)
LEMMA StrictestJoins ==
  ASSUME NEW Q \in SUBSET Rank, NEW R \in SUBSET Rank
  PROVE  Strictest(Q \cup {Strictest(R)}) = Strictest(Q \cup R)
<1> DEFINE a == Strictest(R)
           b == Strictest(Q \cup {a})
           c == Strictest(Q \cup R)
<1>1. a \in Rank /\ a \in {0} \cup R /\ \A r \in R : a >= r
  BY StrictestBounds
<1> HIDE DEF a
<1>2. /\ b \in Rank /\ b \in {0} \cup Q \cup {a}
      /\ \A r \in Q \cup {a} : b >= r
  <2>1. Q \cup {a} \in SUBSET Rank
    BY <1>1
  <2> QED BY <2>1, StrictestBounds
<1>3. c \in Rank /\ c \in {0} \cup Q \cup R /\ \A r \in Q \cup R : c >= r
  <2>1. Q \cup R \in SUBSET Rank
    OBVIOUS
  <2> QED BY <2>1, StrictestBounds
<1> HIDE DEF b, c
<1>4. a \in Nat /\ b \in Nat /\ c \in Nat /\ Q \subseteq Nat /\ R \subseteq Nat
  BY <1>1, <1>2, <1>3, MaxRankIsRank
<1>5. b <= c
  BY <1>1, <1>2, <1>3, <1>4
<1>6. c <= b
  BY <1>1, <1>2, <1>3, <1>4
<1>7. b = c
  BY <1>4, <1>5, <1>6
<1> QED BY <1>7 DEF a, b, c

-------------------------------------------------------------------------------
(* One reply, and what the validator reads of it.                          *)

LEMMA ReplyFields ==
  ASSUME NEW reply \in Reply
  PROVE  /\ DOMAIN reply.reviews \subseteq Claim
         /\ \A c \in DOMAIN reply.reviews : reply.reviews[c] \in Rank
         /\ reply.remark \in BOOLEAN
<1>1. reply.reviews \in UNION {[D -> Rank] : D \in Coverage} /\ reply.remark \in BOOLEAN
  BY DEF Reply
<1>2. PICK D \in Coverage : reply.reviews \in [D -> Rank]
  BY <1>1
<1>3. D \subseteq Claim
  BY <1>2, WikiReviewAssumption
<1> QED BY <1>1, <1>2, <1>3

(* A finding carries its source, the number of its pass, and its rank.     *)
LEMMA FoundFields ==
  ASSUME NEW reply \in Reply, NEW number, NEW f \in Found(reply, number)
  PROVE  /\ f[1] \in Claim \cup {Remark} /\ f[2] = number /\ f[3] \in Rank
         /\ number \in Nat => f \in Finding
         /\ f[1] # Remark => /\ f[1] \in DOMAIN reply.reviews
                             /\ f[3] = reply.reviews[f[1]]
<1>1. CASE \E c \in DOMAIN reply.reviews :
              f = <<c, number, reply.reviews[c]>> /\ reply.reviews[c] > 0
  <2>1. PICK c \in DOMAIN reply.reviews : f = <<c, number, reply.reviews[c]>>
    BY <1>1
  <2>2. c \in Claim /\ reply.reviews[c] \in Rank
    BY ReplyFields
  <2>3. f[1] = c /\ f[2] = number /\ f[3] = reply.reviews[c]
    BY <2>1
  <2>4. number \in Nat => f \in Finding
    BY <2>1, <2>2 DEF Finding
  <2> QED BY <2>2, <2>3, <2>4
<1>2. CASE f = <<Remark, number, 0>>
  <2>1. f[1] = Remark /\ f[2] = number /\ f[3] = 0
    BY <1>2
  <2>2. 0 \in Rank
    BY MaxRankIsRank DEF Rank
  <2>3. number \in Nat => f \in Finding
    BY <1>2, <2>2 DEF Finding
  <2> QED BY <2>1, <2>2, <2>3
<1> QED BY <1>1, <1>2 DEF Found

(* A verdict that is not "supported" is found.                             *)
LEMMA VerdictIsFound ==
  ASSUME NEW reply \in Reply, NEW number, NEW c \in DOMAIN reply.reviews,
         reply.reviews[c] # 0
  PROVE  <<c, number, reply.reviews[c]>> \in Found(reply, number)
<1>1. reply.reviews[c] \in Nat
  BY ReplyFields, MaxRankIsRank
<1>2. reply.reviews[c] > 0
  BY <1>1
<1> QED BY <1>2 DEF Found

(* Calls as the history keeps them.                                        *)
Call == [about : MaterialType, reply : Reply]

LEMMA CallReply ==
  ASSUME NEW b \in Seq(Call), NEW i \in DOMAIN b
  PROVE  b[i].reply \in Reply /\ b[i].about \in MaterialType
<1>1. b[i] \in Call
  OBVIOUS
<1> QED BY <1>1 DEF Call

LEMMA RanksInType ==
  ASSUME NEW b \in Seq(Call), NEW c
  PROVE  RanksIn(b, c) \in SUBSET Rank
<1> SUFFICES ASSUME NEW i \in DOMAIN b, c \in DOMAIN b[i].reply.reviews
             PROVE b[i].reply.reviews[c] \in Rank
  BY DEF RanksIn
<1>1. b[i].reply \in Reply
  BY CallReply
<1> QED BY <1>1, ReplyFields

(* The strictest finding of a claim is the strictest verdict on it.        *)
LEMMA FindingsTellTheVerdict ==
  ASSUME NEW b \in Seq(Call), NEW rep, Sums(rep, b), NEW c \in DOMAIN rep.verdict
  PROVE  Strictest(RanksOf(rep, c)) = rep.verdict[c]
<1>1. c \in Claim
  <2>1. PICK i \in DOMAIN b : c \in DOMAIN b[i].reply.reviews
    BY DEF Sums
  <2>2. b[i].reply \in Reply
    BY CallReply
  <2> QED BY <2>1, <2>2, ReplyFields
<1>2. \A r \in RanksOf(rep, c) : r \in RanksIn(b, c)
  <2> SUFFICES ASSUME NEW f \in rep.flagged, f[1] = c
               PROVE f[3] \in RanksIn(b, c)
    BY DEF RanksOf
  <2>1. PICK i \in DOMAIN b : f \in Found(b[i].reply, i)
    BY DEF Sums
  <2>2. b[i].reply \in Reply
    BY CallReply
  <2>3. f[1] # Remark
    BY <1>1, WikiReviewAssumption
  <2>4. f[1] \in DOMAIN b[i].reply.reviews /\ f[3] = b[i].reply.reviews[f[1]]
    BY <2>1, <2>2, <2>3, FoundFields
  <2> QED BY <2>4 DEF RanksIn
<1>3. \A r \in RanksIn(b, c) : r = 0 \/ r \in RanksOf(rep, c)
  <2> SUFFICES ASSUME NEW i \in DOMAIN b, c \in DOMAIN b[i].reply.reviews,
                      b[i].reply.reviews[c] # 0
               PROVE b[i].reply.reviews[c] \in RanksOf(rep, c)
    BY DEF RanksIn
  <2>1. b[i].reply \in Reply
    BY CallReply
  <2> DEFINE f == <<c, i, b[i].reply.reviews[c]>>
  <2>2. f \in Found(b[i].reply, i)
    BY <2>1, VerdictIsFound
  <2>3. f \in rep.flagged
    BY <2>2 DEF Sums
  <2>4. f[1] = c /\ f[3] = b[i].reply.reviews[c]
    OBVIOUS
  <2> HIDE DEF f
  <2> QED BY <2>3, <2>4 DEF RanksOf
<1>4. {0} \cup RanksOf(rep, c) = {0} \cup RanksIn(b, c)
  BY <1>2, <1>3
<1>5. Strictest(RanksOf(rep, c)) = Strictest(RanksIn(b, c))
  BY <1>4 DEF Strictest
<1> QED BY <1>5 DEF Sums

-------------------------------------------------------------------------------
(* Merging.                                                                *)

Answer == [call : Nat, reply : Reply]

(* The calls of a command that reviewed `about`.                           *)
CallsOf(about, replies) ==
    [i \in DOMAIN replies |-> [about |-> about, reply |-> replies[i].reply]]

LEMMA CallsOfType ==
  ASSUME NEW about \in MaterialType, NEW replies \in Seq(Answer)
  PROVE  /\ CallsOf(about, replies) \in Seq(Call)
         /\ Len(CallsOf(about, replies)) = Len(replies)
         /\ \A i \in 1..Len(replies) : /\ CallsOf(about, replies)[i].about = about
                                       /\ CallsOf(about, replies)[i].reply = replies[i].reply
<1>1. \A i \in 1..Len(replies) : replies[i].reply \in Reply
  <2> TAKE i \in 1..Len(replies)
  <2>1. replies[i] \in Answer
    OBVIOUS
  <2> QED BY <2>1 DEF Answer
<1>2. \A i \in 1..Len(replies) : [about |-> about, reply |-> replies[i].reply] \in Call
  BY <1>1 DEF Call
<1>3. DOMAIN replies = 1..Len(replies) /\ Len(replies) \in Nat
  OBVIOUS
<1> QED BY <1>2, <1>3 DEF CallsOf

(* What follows of two runs of calls, one after the other.                 *)
LEMMA Joined ==
  ASSUME NEW b \in Seq(Call), NEW n \in Seq(Call)
  PROVE  /\ b \o n \in Seq(Call) /\ Len(b \o n) = Len(b) + Len(n)
         /\ DOMAIN (b \o n) = 1..(Len(b) + Len(n))
         /\ \A i \in DOMAIN b : (b \o n)[i] = b[i] /\ i \in DOMAIN (b \o n)
         /\ \A i \in DOMAIN n : /\ (b \o n)[Len(b) + i] = n[i]
                                /\ Len(b) + i \in DOMAIN (b \o n)
         /\ \A i \in DOMAIN (b \o n) :
               i \in DOMAIN b \/ (i - Len(b) \in DOMAIN n /\ i = Len(b) + (i - Len(b)))
OBVIOUS

(* Sums without its first conjunct: what holds of no report and no calls.  *)
Adds(rep, about, b) ==
    /\ Len(rep.provenance) = Len(b)
    /\ \A i \in DOMAIN b : b[i].about = about
    /\ rep.flagged = UNION {Found(b[i].reply, i) : i \in DOMAIN b}
    /\ rep.broken = {i \in DOMAIN b : ~ValidReply(b[i].reply, about)}
    /\ DOMAIN rep.verdict = UNION {DOMAIN b[i].reply.reviews : i \in DOMAIN b}
    /\ \A c \in DOMAIN rep.verdict : rep.verdict[c] = Strictest(RanksIn(b, c))

LEMMA NoReportAdds ==
  ASSUME NEW about
  PROVE  Adds(NoReport, about, <<>>)
<1>1. DOMAIN << >> = {}
  OBVIOUS
<1> QED BY <1>1 DEF Adds, NoReport

LEMMA MergeAdds ==
  ASSUME NEW about \in MaterialType, NEW replies \in Seq(Answer),
         NEW b \in Seq(Call), NEW prior, prior.provenance \in Seq(Nat), Adds(prior, about, b)
  PROVE  Adds(MergeReviews(prior, about, replies), about, b \o CallsOf(about, replies))
<1> DEFINE n == CallsOf(about, replies)
           all == b \o n
           rep == MergeReviews(prior, about, replies)
           k == Len(b)
<1>n. /\ n \in Seq(Call) /\ Len(n) = Len(replies) /\ DOMAIN n = DOMAIN replies
      /\ \A i \in DOMAIN replies : n[i].about = about /\ n[i].reply = replies[i].reply
  BY CallsOfType
<1> HIDE DEF n
<1>a. /\ all \in Seq(Call) /\ Len(all) = k + Len(n)
      /\ \A i \in DOMAIN b : all[i] = b[i] /\ i \in DOMAIN all
      /\ \A i \in DOMAIN n : all[k + i] = n[i] /\ k + i \in DOMAIN all
      /\ \A i \in DOMAIN all : i \in DOMAIN b \/ (i - k \in DOMAIN n /\ i = k + (i - k))
  BY <1>n, Joined
<1> HIDE DEF all
<1>k. k = Len(prior.provenance) /\ k \in Nat
  BY DEF Adds
<1>m. /\ rep.provenance = prior.provenance \o [i \in DOMAIN replies |-> replies[i].call]
      /\ rep.flagged = prior.flagged
                       \cup UNION {Found(replies[i].reply, k + i) : i \in DOMAIN replies}
      /\ rep.broken = prior.broken
                      \cup {k + i : i \in {j \in DOMAIN replies :
                                              ~ValidReply(replies[j].reply, about)}}
      /\ DOMAIN rep.verdict = DOMAIN prior.verdict
             \cup UNION {DOMAIN replies[i].reply.reviews : i \in DOMAIN replies}
      /\ \A c \in DOMAIN rep.verdict :
            rep.verdict[c] =
               Strictest({replies[i].reply.reviews[c] :
                             i \in {j \in DOMAIN replies : c \in DOMAIN replies[j].reply.reviews}}
                         \cup (IF c \in DOMAIN prior.verdict THEN {prior.verdict[c]} ELSE {}))
  BY <1>k DEF MergeReviews
<1> HIDE DEF rep
<1>1. Len(rep.provenance) = Len(all)
  <2>1. [i \in DOMAIN replies |-> replies[i].call] \in Seq(Nat)
    <3>1. \A i \in 1..Len(replies) : replies[i].call \in Nat
      <4> TAKE i \in 1..Len(replies)
      <4>1. replies[i] \in Answer
        OBVIOUS
      <4> QED BY <4>1 DEF Answer
    <3> QED BY <3>1
  <2>2. Len([i \in DOMAIN replies |-> replies[i].call]) = Len(replies)
    OBVIOUS
  <2> DEFINE tail == [i \in DOMAIN replies |-> replies[i].call]
  <2>3. tail \in Seq(Nat) /\ Len(tail) = Len(replies)
    BY <2>1, <2>2
  <2> HIDE DEF tail
  <2>4. Len(prior.provenance \o tail) = Len(prior.provenance) + Len(tail)
    BY <2>3, ConcatProperties
  <2> QED BY <2>3, <2>4, <1>m, <1>k, <1>a, <1>n DEF tail
<1>2. \A i \in DOMAIN all : all[i].about = about
  BY <1>a, <1>n DEF Adds
<1>3. rep.flagged = UNION {Found(all[i].reply, i) : i \in DOMAIN all}
  <2>1. \A f \in rep.flagged : \E i \in DOMAIN all : f \in Found(all[i].reply, i)
    <3> TAKE f \in rep.flagged
    <3>1. CASE f \in prior.flagged
      <4>1. PICK i \in DOMAIN b : f \in Found(b[i].reply, i)
        BY <3>1 DEF Adds
      <4> QED BY <4>1, <1>a
    <3>2. CASE \E i \in DOMAIN replies : f \in Found(replies[i].reply, k + i)
      <4>1. PICK i \in DOMAIN replies : f \in Found(replies[i].reply, k + i)
        BY <3>2
      <4>2. all[k + i].reply = replies[i].reply /\ k + i \in DOMAIN all
        BY <1>a, <1>n
      <4> QED BY <4>1, <4>2
    <3> QED BY <3>1, <3>2, <1>m
  <2>2. \A i \in DOMAIN all : \A f \in Found(all[i].reply, i) : f \in rep.flagged
    <3> TAKE i \in DOMAIN all
    <3> TAKE f \in Found(all[i].reply, i)
    <3>1. CASE i \in DOMAIN b
      <4>1. f \in Found(b[i].reply, i)
        BY <3>1, <1>a
      <4>2. f \in prior.flagged
        BY <3>1, <4>1 DEF Adds
      <4> QED BY <4>2, <1>m
    <3>2. CASE i - k \in DOMAIN n /\ i = k + (i - k)
      <4> DEFINE j == i - k
      <4>1. j \in DOMAIN replies /\ i = k + j
        BY <3>2, <1>n
      <4> HIDE DEF j
      <4>2. f \in Found(replies[j].reply, k + j)
        BY <4>1, <1>a, <1>n
      <4> QED BY <4>1, <4>2, <1>m
    <3> QED BY <3>1, <3>2, <1>a
  <2> QED BY <2>1, <2>2
<1>4. rep.broken = {i \in DOMAIN all : ~ValidReply(all[i].reply, about)}
  <2>1. \A x \in rep.broken : x \in DOMAIN all /\ ~ValidReply(all[x].reply, about)
    <3> TAKE x \in rep.broken
    <3>1. CASE x \in prior.broken
      <4>1. x \in DOMAIN b /\ ~ValidReply(b[x].reply, about)
        BY <3>1 DEF Adds
      <4> QED BY <4>1, <1>a
    <3>2. CASE \E j \in DOMAIN replies : x = k + j /\ ~ValidReply(replies[j].reply, about)
      <4>1. PICK j \in DOMAIN replies : x = k + j /\ ~ValidReply(replies[j].reply, about)
        BY <3>2
      <4>2. all[k + j].reply = replies[j].reply /\ k + j \in DOMAIN all
        BY <1>a, <1>n
      <4> QED BY <4>1, <4>2
    <3> QED BY <3>1, <3>2, <1>m
  <2>2. \A i \in DOMAIN all : ~ValidReply(all[i].reply, about) => i \in rep.broken
    <3> SUFFICES ASSUME NEW i \in DOMAIN all, ~ValidReply(all[i].reply, about)
                 PROVE i \in rep.broken
      OBVIOUS
    <3>1. CASE i \in DOMAIN b
      <4>1. i \in prior.broken
        BY <3>1, <1>a DEF Adds
      <4> QED BY <4>1, <1>m
    <3>2. CASE i - k \in DOMAIN n /\ i = k + (i - k)
      <4> DEFINE j == i - k
      <4>1. j \in DOMAIN replies /\ i = k + j
        BY <3>2, <1>n
      <4> HIDE DEF j
      <4>2. ~ValidReply(replies[j].reply, about)
        BY <4>1, <1>a, <1>n
      <4> QED BY <4>1, <4>2, <1>m
    <3> QED BY <3>1, <3>2, <1>a
  <2> QED BY <2>1, <2>2
<1>5. DOMAIN rep.verdict = UNION {DOMAIN all[i].reply.reviews : i \in DOMAIN all}
  <2>1. \A c \in DOMAIN rep.verdict : \E i \in DOMAIN all : c \in DOMAIN all[i].reply.reviews
    <3> TAKE c \in DOMAIN rep.verdict
    <3>1. CASE c \in DOMAIN prior.verdict
      <4>1. PICK i \in DOMAIN b : c \in DOMAIN b[i].reply.reviews
        BY <3>1 DEF Adds
      <4> QED BY <4>1, <1>a
    <3>2. CASE \E i \in DOMAIN replies : c \in DOMAIN replies[i].reply.reviews
      <4>1. PICK i \in DOMAIN replies : c \in DOMAIN replies[i].reply.reviews
        BY <3>2
      <4>2. all[k + i].reply = replies[i].reply /\ k + i \in DOMAIN all
        BY <1>a, <1>n
      <4> QED BY <4>1, <4>2
    <3> QED BY <3>1, <3>2, <1>m
  <2>2. \A i \in DOMAIN all : \A c \in DOMAIN all[i].reply.reviews : c \in DOMAIN rep.verdict
    <3> TAKE i \in DOMAIN all
    <3> TAKE c \in DOMAIN all[i].reply.reviews
    <3>1. CASE i \in DOMAIN b
      <4>1. c \in DOMAIN prior.verdict
        BY <3>1, <1>a DEF Adds
      <4> QED BY <4>1, <1>m
    <3>2. CASE i - k \in DOMAIN n /\ i = k + (i - k)
      <4> DEFINE j == i - k
      <4>1. j \in DOMAIN replies /\ i = k + j
        BY <3>2, <1>n
      <4> HIDE DEF j
      <4>2. c \in DOMAIN replies[j].reply.reviews
        BY <4>1, <1>a, <1>n
      <4> QED BY <4>1, <4>2, <1>m
    <3> QED BY <3>1, <3>2, <1>a
  <2> QED BY <2>1, <2>2
<1>6. ASSUME NEW c \in DOMAIN rep.verdict
      PROVE  rep.verdict[c] = Strictest(RanksIn(all, c))
  <2> DEFINE Q == {replies[i].reply.reviews[c] :
                      i \in {j \in DOMAIN replies : c \in DOMAIN replies[j].reply.reviews}}
             R == RanksIn(b, c)
  <2>1. Q = RanksIn(n, c)
    BY <1>n DEF RanksIn
  <2>2. Q \in SUBSET Rank /\ R \in SUBSET Rank
    BY <2>1, <1>n, RanksInType
  <2>3. RanksIn(all, c) = Q \cup R
    <3>1. \A r \in RanksIn(all, c) : r \in Q \cup R
      <4> SUFFICES ASSUME NEW i \in DOMAIN all, c \in DOMAIN all[i].reply.reviews
                   PROVE all[i].reply.reviews[c] \in Q \cup R
        BY DEF RanksIn
      <4>1. CASE i \in DOMAIN b
        <5>1. all[i] = b[i]
          BY <4>1, <1>a
        <5> QED BY <4>1, <5>1 DEF RanksIn
      <4>2. CASE i - k \in DOMAIN n /\ i = k + (i - k)
        <5> DEFINE j == i - k
        <5>1. j \in DOMAIN n /\ i = k + j
          BY <4>2
        <5> HIDE DEF j
        <5>2. all[i] = n[j]
          BY <5>1, <1>a
        <5>3. all[i].reply.reviews[c] \in RanksIn(n, c)
          BY <5>1, <5>2 DEF RanksIn
        <5> QED BY <5>3, <2>1
      <4> QED BY <4>1, <4>2, <1>a
    <3>2. \A r \in R : r \in RanksIn(all, c)
      <4> SUFFICES ASSUME NEW i \in DOMAIN b, c \in DOMAIN b[i].reply.reviews
                   PROVE b[i].reply.reviews[c] \in RanksIn(all, c)
        BY DEF RanksIn
      <4>1. i \in DOMAIN all /\ all[i] = b[i]
        BY <1>a
      <4> QED BY <4>1 DEF RanksIn
    <3>3. \A r \in RanksIn(n, c) : r \in RanksIn(all, c)
      <4> SUFFICES ASSUME NEW i \in DOMAIN n, c \in DOMAIN n[i].reply.reviews
                   PROVE n[i].reply.reviews[c] \in RanksIn(all, c)
        BY DEF RanksIn
      <4>1. k + i \in DOMAIN all /\ all[k + i] = n[i]
        BY <1>a
      <4> QED BY <4>1 DEF RanksIn
    <3> QED BY <3>1, <3>2, <3>3, <2>1
  <2>4. c \in DOMAIN prior.verdict => prior.verdict[c] = Strictest(R)
    BY DEF Adds
  <2>5. c \notin DOMAIN prior.verdict => R = {}
    BY DEF Adds, RanksIn
  <2>6. rep.verdict[c] = Strictest(Q \cup (IF c \in DOMAIN prior.verdict
                                              THEN {prior.verdict[c]} ELSE {}))
    BY <1>m
  <2> HIDE DEF Q, R
  <2>7. CASE c \in DOMAIN prior.verdict
    <3>1. rep.verdict[c] = Strictest(Q \cup {Strictest(R)})
      BY <2>4, <2>6, <2>7
    <3>2. Strictest(Q \cup {Strictest(R)}) = Strictest(Q \cup R)
      BY <2>2, StrictestJoins
    <3> QED BY <3>1, <3>2, <2>3
  <2>8. CASE c \notin DOMAIN prior.verdict
    <3>1. Q \cup (IF c \in DOMAIN prior.verdict THEN {prior.verdict[c]} ELSE {}) = Q \cup R
      BY <2>5, <2>8
    <3> QED BY <3>1, <2>3, <2>6
  <2> QED BY <2>7, <2>8
<1>7. Adds(rep, about, all)
  BY <1>1, <1>2, <1>3, <1>4, <1>5, <1>6 DEF Adds
<1> QED BY <1>7 DEF rep, all, n

-------------------------------------------------------------------------------
(* The invariant holds of a wiki that was never compiled, or only drafted. *)

LEMMA NoFile == None \notin MaterialType /\ None \notin Article /\ None \notin Topic
BY WikiReviewAssumption

LEMMA ReviewInit == Init => ReviewInv
<1> SUFFICES ASSUME Init PROVE ReviewInv
  OBVIOUS
<1>1. report = None /\ adjudication = None /\ compiled = None /\ calls = 0 /\ basis = <<>>
  BY DEF Init
<1>2. reviewer.pc = "idle" /\ reviewer.replies = <<>> /\ reviewer.left = 0
      /\ DOMAIN reviewer = DOMAIN NoReviewer
  BY DEF Init, NoReviewer
<1>3. drafter.pc = "idle" /\ drafter.unused = {}
  BY DEF Init, NoDrafter
<1>4. /\ bundle \in Evidence \cup {None} /\ claims \in Sidecar \cup {None}
      /\ draft \in Article \cup {None}
      /\ (draft # None => bundle # None) /\ (claims # None => draft # None)
      /\ (bundle # None /\ bundle.raw => ruling # "open")
  <2>1. CASE draft = None /\ bundle = None /\ claims = None
    BY <2>1
  <2>2. CASE /\ draft \in Article \ Spelled
             /\ bundle \in [refs : {Ref}, raw : {ruling = "cleared"}]
             /\ claims = [unused |-> Ref \ Cites[draft]]
    <3>1. bundle \in Evidence /\ bundle.raw = (ruling = "cleared")
      BY <2>2 DEF Evidence
    <3>2. claims \in Sidecar
      BY <2>2 DEF Sidecar
    <3>3. draft \in Article /\ draft # None /\ bundle # None
      BY <2>2, <3>1, WikiReviewAssumption
    <3>4. bundle.raw => ruling # "open"
      BY <3>1
    <3> QED BY <3>1, <3>2, <3>3, <3>4
  <2> QED BY <2>1, <2>2 DEF Init
<1>5. TypeOK
  <2>1. 0 \in 0..MaxPasses
    BY WikiReviewAssumption
  <2> QED BY <1>1, <1>2, <1>3, <1>4, <2>1 DEF TypeOK, Init
<1>6. HistoryOK /\ ReviewerOK /\ DrafterOK /\ RawIsRuled
  BY <1>1, <1>2, <1>3, <1>4 DEF HistoryOK, ReviewerOK, DrafterOK, RawIsRuled
<1> QED BY <1>5, <1>6 DEF ReviewInv

-------------------------------------------------------------------------------
(* What each command keeps of the files it does not write.                 *)

LEMMA LongerHistory ==
  ASSUME calls \in Nat, calls' \in Nat, calls' >= calls
  PROVE  \A s \in Seq(1..calls) : s \in Seq(1..calls')
<1>1. 1..calls \subseteq 1..calls'
  OBVIOUS
<1> QED BY <1>1

LEMMA ReportStays ==
  ASSUME calls \in Nat, calls' \in Nat, calls' >= calls, NEW rep, IsReport(rep)
  PROVE  IsReport(rep)'
BY LongerHistory DEF IsReport

(* The two halves of the type invariant.                                   *)
DraftTypes ==
    /\ store \subseteq Ref /\ ruling \in {"open", "redact", "cleared"}
    /\ topic \in Topic \cup {None} /\ draft \in Article \cup {None}
    /\ bundle \in Evidence \cup {None} /\ claims \in Sidecar \cup {None}
    /\ draft # None => bundle # None
    /\ claims # None => draft # None
    /\ drafter.pc \in {"idle", "call", "claims"}

ReviewTypes ==
    /\ compiled \in MaterialType \cup {None}
    /\ report # None => compiled # None /\ IsReport(report)
    /\ adjudication # None =>
          /\ report # None /\ IsReport(adjudication.report)
          /\ DOMAIN adjudication = {"report", "decision"}
    /\ reviewer.pc \in {"idle", "call"} /\ reviewer.left \in 0..MaxPasses

LEMMA Halves == ReviewInv <=> /\ DraftTypes /\ DrafterOK /\ RawIsRuled
                              /\ ReviewTypes /\ HistoryOK /\ ReviewerOK
BY DEF ReviewInv, TypeOK, DraftTypes, ReviewTypes

LEMMA HalvesAfter ==
  ASSUME DraftTypes', DrafterOK', RawIsRuled', ReviewTypes', HistoryOK', ReviewerOK'
  PROVE  ReviewInv'
BY DEF ReviewInv, TypeOK, DraftTypes, ReviewTypes

LEMMA DraftFilesStay ==
  ASSUME ReviewInv, UNCHANGED <<inputVars, draftVars, drafter>>
  PROVE  DraftTypes' /\ DrafterOK' /\ RawIsRuled'
BY Halves DEF inputVars, draftVars, DraftTypes, DrafterOK, RawIsRuled

(* The files of the review, and who is reviewing.                          *)
LEMMA ReviewFilesStay ==
  ASSUME ReviewInv, UNCHANGED <<reviewVars, reviewer, calls, basis>>
  PROVE  ReviewTypes' /\ HistoryOK' /\ ReviewerOK'
<1>1. calls \in Nat /\ calls' = calls /\ calls' >= calls
  BY DEF ReviewInv, HistoryOK
<1>2. report # None => IsReport(report)'
  BY DEF ReviewInv, TypeOK, IsReport, reviewVars
<1>3. adjudication # None => IsReport(adjudication.report)'
  BY DEF ReviewInv, TypeOK, IsReport, reviewVars
<1>4. compiled' = compiled /\ report' = report /\ adjudication' = adjudication
      /\ reviewer' = reviewer /\ basis' = basis
  BY DEF reviewVars
<1>5. HistoryOK'
  BY <1>1, <1>4 DEF ReviewInv, HistoryOK
<1>6. ReviewerOK'
  BY <1>4 DEF ReviewInv, ReviewerOK
<1>7. /\ compiled \in MaterialType \cup {None}
      /\ report # None => compiled # None
      /\ adjudication # None => report # None /\ DOMAIN adjudication = {"report", "decision"}
      /\ reviewer.pc \in {"idle", "call"} /\ reviewer.left \in 0..MaxPasses
  BY DEF ReviewInv, TypeOK
<1> QED BY <1>2, <1>3, <1>4, <1>5, <1>6, <1>7 DEF ReviewTypes

(* What is reviewed is a draft with its evidence, and no file is None.     *)
LEMMA MaterialIsTyped ==
  ASSUME ReviewInv, HasArtifacts
  PROVE  Material(ApprovedTopic) \in MaterialType /\ Material(ApprovedTopic) # None
<1>1. /\ draft \in Article /\ bundle \in Evidence /\ claims \in Sidecar \cup {None}
      /\ topic \in Topic \cup {None}
  BY DEF ReviewInv, TypeOK, HasArtifacts
<1>2. Scrub(bundle) \in Evidence
  BY <1>1 DEF Scrub, Evidence
<1>3. Material(ApprovedTopic) \in MaterialType
  BY <1>1, <1>2 DEF Material, ApprovedTopic, MaterialType
<1> QED BY <1>3, NoFile

-------------------------------------------------------------------------------
(* One lemma per command.                                                  *)

LEMMA StartDraftKeeps ==
  ASSUME ReviewInv, NEW force \in BOOLEAN, StartDraft(force)
  PROVE  ReviewInv'
<1>1. bundle' \in Evidence /\ bundle' # None
  <2>1. Built \in Evidence
    BY DEF Built, Evidence, ReviewInv, TypeOK
  <2> QED BY <2>1, WikiReviewAssumption DEF StartDraft
<1>2. drafter'.pc = "call" /\ drafter'.unused = {}
  BY DEF StartDraft, NoDrafter
<1>3. bundle'.raw => ruling # "open"
  BY DEF StartDraft, Built
<1>4. DraftTypes' /\ DrafterOK' /\ RawIsRuled'
  BY <1>1, <1>2, <1>3, Halves
     DEF StartDraft, inputVars, DraftTypes, DrafterOK, RawIsRuled
<1>5. ReviewTypes' /\ HistoryOK' /\ ReviewerOK'
  BY ReviewFilesStay DEF StartDraft
<1> QED BY <1>4, <1>5, HalvesAfter

LEMMA DraftAnsweredKeeps ==
  ASSUME ReviewInv, NEW a \in Article, NEW tells \in BOOLEAN, DraftAnswered(a, tells)
  PROVE  ReviewInv'
<1>1. bundle # None /\ bundle \in Evidence
  BY DEF ReviewInv, TypeOK, DrafterOK, DraftAnswered
<1>2. bundle.refs \subseteq Ref
  BY <1>1 DEF Evidence
<1>3. drafter'.pc = "claims" /\ drafter'.unused \subseteq Ref
  BY <1>2 DEF DraftAnswered
<1>4. draft' = a /\ draft' # None
  BY NoFile DEF DraftAnswered
<1>5. DraftTypes' /\ DrafterOK' /\ RawIsRuled'
  BY <1>1, <1>3, <1>4, Halves
     DEF DraftAnswered, inputVars, DraftTypes, DrafterOK, RawIsRuled
<1>6. ReviewTypes' /\ HistoryOK' /\ ReviewerOK'
  BY ReviewFilesStay DEF DraftAnswered
<1> QED BY <1>5, <1>6, HalvesAfter

LEMMA DraftClaimsKeeps ==
  ASSUME ReviewInv, DraftClaims
  PROVE  ReviewInv'
<1>1. claims' \in Sidecar /\ draft # None
  BY DEF ReviewInv, DrafterOK, DraftClaims, Sidecar
<1>2. drafter'.pc = "idle" /\ drafter'.unused = {}
  BY DEF DraftClaims, NoDrafter
<1>3. DraftTypes' /\ DrafterOK' /\ RawIsRuled'
  BY <1>1, <1>2, Halves
     DEF DraftClaims, inputVars, DraftTypes, DrafterOK, RawIsRuled
<1>4. ReviewTypes' /\ HistoryOK' /\ ReviewerOK'
  BY ReviewFilesStay DEF DraftClaims, histVars
<1> QED BY <1>3, <1>4, HalvesAfter

LEMMA DraftEndsKeeps ==
  ASSUME ReviewInv, DraftEnds
  PROVE  ReviewInv'
<1>1. drafter'.pc = "idle" /\ drafter'.unused = {}
  BY DEF DraftEnds, NoDrafter
<1>2. DraftTypes' /\ DrafterOK' /\ RawIsRuled'
  BY <1>1, Halves
     DEF DraftEnds, inputVars, draftVars, DraftTypes, DrafterOK, RawIsRuled
<1>3. ReviewTypes' /\ HistoryOK' /\ ReviewerOK'
  BY ReviewFilesStay DEF DraftEnds, histVars
<1> QED BY <1>2, <1>3, HalvesAfter

LEMMA PrepareReviewKeeps ==
  ASSUME ReviewInv, PrepareReview
  PROVE  ReviewInv'
<1>1. compiled' \in MaterialType /\ compiled' # None
  BY MaterialIsTyped DEF PrepareReview
<1>2. DraftTypes' /\ DrafterOK' /\ RawIsRuled'
  BY DraftFilesStay DEF PrepareReview
<1>3. UNCHANGED <<report, adjudication, reviewer, calls, basis>>
  BY DEF PrepareReview, histVars
<1>4. ReviewTypes'
  BY <1>1, <1>3, Halves DEF ReviewTypes, IsReport
<1>5. HistoryOK' /\ ReviewerOK'
  BY <1>1, <1>3, Halves DEF HistoryOK, ReviewerOK
<1> QED BY <1>2, <1>4, <1>5, HalvesAfter

LEMMA StartReviewKeeps ==
  ASSUME ReviewInv, NEW passes \in 1..MaxPasses, NEW again \in BOOLEAN,
         StartReview(passes, again)
  PROVE  ReviewInv'
<1> DEFINE m == Material(ApprovedTopic)
<1>1. m \in MaterialType /\ m # None
  BY MaterialIsTyped DEF StartReview
<1> HIDE DEF m
<1>2. DraftTypes' /\ DrafterOK' /\ RawIsRuled'
  BY DraftFilesStay DEF StartReview
<1>3. compiled' = m /\ UNCHANGED <<report, adjudication, calls, basis>>
  BY DEF StartReview, m
<1>4. /\ reviewer'.pc = "call" /\ reviewer'.about = m /\ reviewer'.replies = <<>>
      /\ reviewer'.left = passes /\ DOMAIN reviewer' = DOMAIN NoReviewer
      /\ reviewer'.prior \in {NoReport, LoadPrior(m)}
  BY DEF StartReview, NoReviewer, m
<1>5. LoadPrior(m) # NoReport => report # None /\ LoadPrior(m) = report /\ report.about = m
  BY DEF LoadPrior
<1>6. ReviewTypes'
  BY <1>1, <1>3, <1>4, Halves, WikiReviewAssumption DEF ReviewTypes, IsReport
<1>7. HistoryOK'
  BY <1>3, <1>4, Halves DEF HistoryOK
<1>8. ReviewerOK'
  BY <1>1, <1>3, <1>4, <1>5 DEF ReviewerOK
<1> QED BY <1>2, <1>6, <1>7, <1>8, HalvesAfter

LEMMA PassAnsweredKeeps ==
  ASSUME ReviewInv, NEW reply \in Reply, PassAnswered(reply)
  PROVE  ReviewInv'
<1>1. DraftTypes' /\ DrafterOK' /\ RawIsRuled'
  BY DraftFilesStay DEF PassAnswered
<1>2. calls \in Nat /\ calls' = calls + 1 /\ calls' >= calls /\ calls' \in Nat
  BY DEF ReviewInv, HistoryOK, PassAnswered
<1> DEFINE answer == [call |-> calls', reply |-> reply]
<1>3. /\ reviewer'.pc = "call" /\ reviewer'.about = reviewer.about
      /\ reviewer'.prior = reviewer.prior
      /\ reviewer'.replies = Append(reviewer.replies, answer)
      /\ reviewer'.left = reviewer.left - 1 /\ DOMAIN reviewer' = DOMAIN NoReviewer
  BY DEF PassAnswered, ReviewInv, ReviewerOK, NoReviewer
<1>4. UNCHANGED <<compiled, report, adjudication, basis>>
  BY DEF PassAnswered, reviewVars
<1>5. reviewer.left \in 1..MaxPasses /\ reviewer.pc = "call"
  BY WikiReviewAssumption DEF PassAnswered, ReviewInv, TypeOK
<1>6. reviewer'.replies \in Seq([call : 1..calls', reply : Reply]) /\ reviewer'.replies # <<>>
  <2>1. [call : 1..calls, reply : Reply] \subseteq [call : 1..calls', reply : Reply]
    BY <1>2
  <2>2. reviewer.replies \in Seq([call : 1..calls', reply : Reply])
    <3> DEFINE S == [call : 1..calls, reply : Reply]
               T == [call : 1..calls', reply : Reply]
    <3>1. reviewer.replies \in Seq(S) /\ S \subseteq T
      BY <2>1 DEF ReviewInv, HistoryOK
    <3> HIDE DEF S, T
    <3>2. reviewer.replies \in Seq(T)
      BY <3>1
    <3> QED BY <3>2 DEF T
  <2>3. answer \in [call : 1..calls', reply : Reply]
    BY <1>2
  <2> HIDE DEF answer
  <2> QED BY <2>2, <2>3, <1>3
<1> HIDE DEF answer
<1>7. ReviewTypes'
  <2>1. report # None => IsReport(report)'
    <3>1. report # None => IsReport(report)
      BY Halves DEF ReviewTypes
    <3> QED BY <3>1, <1>2, <1>4, LongerHistory DEF IsReport
  <2>2. adjudication # None => IsReport(adjudication.report)'
    <3>1. adjudication # None => IsReport(adjudication.report)
      BY Halves DEF ReviewTypes
    <3> QED BY <3>1, <1>2, <1>4, LongerHistory DEF IsReport
  <2>3. reviewer'.pc = "call" /\ reviewer'.left \in 0..MaxPasses
    BY <1>3, <1>5, WikiReviewAssumption
  <2> QED BY <2>1, <2>2, <2>3, <1>4, Halves DEF ReviewTypes
<1>8. HistoryOK'
  BY <1>2, <1>4, <1>6, Halves DEF HistoryOK
<1>9. ReviewerOK'
  BY <1>3, <1>4, <1>5, <1>6, Halves DEF ReviewerOK
<1> QED BY <1>1, <1>7, <1>8, <1>9, HalvesAfter

(* What adds up is a report, as the validator expects one.                 *)
LEMMA AddsIsReport ==
  ASSUME NEW n \in Nat, NEW about \in MaterialType, NEW b \in Seq(Call), NEW rep,
         Adds(rep, about, b), rep.provenance \in Seq(1..n)
  PROVE  /\ \A f \in rep.flagged : f \in Finding /\ f[2] \in DOMAIN rep.provenance
         /\ rep.broken \subseteq DOMAIN rep.provenance
         /\ DOMAIN rep.verdict \subseteq Claim
         /\ \A c \in DOMAIN rep.verdict : rep.verdict[c] \in Rank
<1>1. DOMAIN rep.provenance = DOMAIN b
  <2> DEFINE q == rep.provenance
  <2>1. q \in Seq(1..n) /\ Len(q) = Len(b)
    BY DEF Adds
  <2> HIDE DEF q
  <2>2. DOMAIN q = DOMAIN b
    BY <2>1
  <2> QED BY <2>2 DEF q
<1>2. ASSUME NEW f \in rep.flagged
      PROVE  f \in Finding /\ f[2] \in DOMAIN b
  <2>1. PICK i \in DOMAIN b : f \in Found(b[i].reply, i)
    BY DEF Adds
  <2>2. b[i].reply \in Reply /\ i \in Nat
    BY CallReply
  <2> QED BY <2>1, <2>2, FoundFields
<1>3. rep.broken \subseteq DOMAIN b
  BY DEF Adds
<1>4. ASSUME NEW c \in DOMAIN rep.verdict
      PROVE  c \in Claim /\ rep.verdict[c] \in Rank
  <2>1. PICK i \in DOMAIN b : c \in DOMAIN b[i].reply.reviews
    BY DEF Adds
  <2>2. c \in Claim
    BY <2>1, CallReply, ReplyFields
  <2>3. Strictest(RanksIn(b, c)) \in Rank
    BY RanksInType, StrictestBounds
  <2> QED BY <2>2, <2>3 DEF Adds
<1> QED BY <1>1, <1>2, <1>3, <1>4

LEMMA ReviewWrittenKeeps ==
  ASSUME ReviewInv, ReviewWritten
  PROVE  ReviewInv'
<1> DEFINE about == reviewer.about
           replies == reviewer.replies
           prior == reviewer.prior
           b == IF prior = NoReport THEN <<>> ELSE basis
           new == MergeReviews(prior, about, replies)
           all == b \o CallsOf(about, replies)
<1>1. DraftTypes' /\ DrafterOK' /\ RawIsRuled'
  BY DraftFilesStay DEF ReviewWritten
<1>2. /\ report' = new /\ basis' = all /\ reviewer' = NoReviewer
      /\ UNCHANGED <<compiled, adjudication, calls>>
  BY DEF ReviewWritten, CallsOf
<1>3. about \in MaterialType /\ compiled # None /\ replies # <<>>
  BY Halves DEF ReviewerOK, ReviewWritten
<1>4. calls \in Nat /\ replies \in Seq([call : 1..calls, reply : Reply])
  BY Halves DEF HistoryOK
<1>5. prior = NoReport \/ (report # None /\ prior = report /\ report.about = about)
  BY Halves DEF ReviewerOK, ReviewWritten
<1>6. b \in Seq(Call)
  BY Halves DEF HistoryOK, Call
<1>7. prior.provenance \in Seq(1..calls) /\ Adds(prior, about, b)
  <2>1. CASE prior = NoReport
    <3>1. NoReport.provenance = <<>> /\ b = <<>>
      BY <2>1 DEF NoReport
    <3>2. <<>> \in Seq(1..calls)
      OBVIOUS
    <3> QED BY <2>1, <3>1, <3>2, NoReportAdds
  <2>2. CASE prior # NoReport
    <3>1. report # None /\ prior = report /\ report.about = about /\ b = basis
      BY <2>2, <1>5
    <3>2. IsReport(report) /\ Sums(report, basis)
      BY <3>1, Halves DEF ReviewTypes, HistoryOK
    <3> QED BY <3>1, <3>2 DEF Sums, Adds, IsReport
  <2> QED BY <2>1, <2>2
<1> HIDE DEF about, replies, prior, b
<1>8. replies \in Seq(Answer) /\ prior.provenance \in Seq(Nat)
  <2>1. [call : 1..calls, reply : Reply] \subseteq Answer
    BY <1>4 DEF Answer
  <2> DEFINE S == [call : 1..calls, reply : Reply]
  <2>2. S \subseteq Answer /\ replies \in Seq(S)
    BY <2>1, <1>4
  <2> HIDE DEF S
  <2>3. replies \in Seq(Answer)
    BY <2>2
  <2>4. prior.provenance \in Seq(Nat)
    <3> DEFINE T == 1..calls
    <3>1. T \subseteq Nat /\ prior.provenance \in Seq(T)
      BY <1>4, <1>7
    <3> HIDE DEF T
    <3> QED BY <3>1, WiderSeq
  <2> QED BY <2>3, <2>4
<1>9. Adds(new, about, all)
  BY <1>3, <1>6, <1>7, <1>8, MergeAdds
<1>10. all \in Seq(Call) /\ all # <<>>
  <2> DEFINE n == CallsOf(about, replies)
  <2>1. n \in Seq(Call) /\ Len(n) = Len(replies)
    BY <1>3, <1>8, CallsOfType
  <2> HIDE DEF n
  <2>2. Len(replies) > 0
    BY <1>3, <1>8
  <2>3. b \o n \in Seq(Call) /\ Len(b \o n) = Len(b) + Len(n) /\ Len(b) \in Nat
    BY <2>1, <1>6, ConcatProperties, LenProperties
  <2>4. b \o n # <<>>
    BY <2>1, <2>2, <2>3
  <2> QED BY <2>3, <2>4 DEF n
<1>11. new.about = about
  BY DEF MergeReviews
<1>12. new.provenance \in Seq(1..calls)
  <2> DEFINE tail == [i \in DOMAIN replies |-> replies[i].call]
  <2>1. tail \in Seq(1..calls)
    <3> DEFINE S == [call : 1..calls, reply : Reply]
    <3>1. replies \in Seq(S) /\ \A x \in S : x.call \in 1..calls
      BY <1>4 DEF replies
    <3> HIDE DEF S
    <3>2. \A i \in 1..Len(replies) : replies[i].call \in 1..calls
      BY <3>1
    <3>3. Len(replies) \in Nat /\ DOMAIN replies = 1..Len(replies)
      BY <3>1
    <3> QED BY <3>2, <3>3
  <2>2. new.provenance = prior.provenance \o tail
    BY DEF MergeReviews
  <2> HIDE DEF tail
  <2> QED BY <2>1, <2>2, <1>7, ConcatProperties
<1> HIDE DEF new, all
<1>13. IsReport(new)
  <2>1. /\ \A f \in new.flagged : f \in Finding /\ f[2] \in DOMAIN new.provenance
        /\ new.broken \subseteq DOMAIN new.provenance
        /\ DOMAIN new.verdict \subseteq Claim
        /\ \A c \in DOMAIN new.verdict : new.verdict[c] \in Rank
    BY <1>3, <1>4, <1>9, <1>10, <1>12, AddsIsReport
  <2>2. new.verdict = [c \in DOMAIN new.verdict |-> new.verdict[c]]
    BY DEF new, MergeReviews
  <2>3. new.verdict \in UNION {[D -> Rank] : D \in SUBSET Claim}
    <3>1. new.verdict \in [DOMAIN new.verdict -> Rank]
      BY <2>1, <2>2
    <3> QED BY <2>1, <3>1
  <2>4. new.broken \subseteq Nat /\ new.provenance \in Seq(Nat)
    <3> DEFINE q == new.provenance
               T == 1..calls
    <3>1. q \in Seq(T) /\ T \subseteq Nat
      BY <1>4, <1>12
    <3> HIDE DEF q, T
    <3>2. q \in Seq(Nat)
      BY <3>1, WiderSeq
    <3>3. DOMAIN q \subseteq Nat
      BY <3>2
    <3> QED BY <3>2, <3>3, <2>1 DEF q
  <2>5. new = [about |-> new.about, provenance |-> new.provenance, verdict |-> new.verdict,
               flagged |-> new.flagged, broken |-> new.broken]
    BY DEF new, MergeReviews
  <2>6. new \in Report
    BY <2>1, <2>3, <2>4, <2>5, <1>3, <1>11 DEF Report
  <2> QED BY <2>1, <2>6, <1>12 DEF IsReport
<1>14. Sums(new, all)
  BY <1>9, <1>10, <1>11 DEF Adds, Sums
<1>15. ReviewTypes'
  <2>1. IsReport(report)'
    BY <1>2, <1>13 DEF IsReport
  <2>2. adjudication' # None => IsReport(adjudication.report)' /\ DOMAIN adjudication' = {"report", "decision"}
    BY <1>2, Halves DEF ReviewTypes, IsReport
  <2>3. reviewer'.pc = "idle" /\ reviewer'.left \in 0..MaxPasses
    BY <1>2, WikiReviewAssumption DEF NoReviewer
  <2>4. compiled' \in MaterialType \cup {None} /\ compiled' # None
    BY <1>2, <1>3, Halves DEF ReviewTypes
  <2>5. adjudication' # None => report' # None
    <3>1. new \in Report
      BY <1>13 DEF IsReport
    <3> QED BY <3>1, <1>2, WikiReviewAssumption
  <2> QED BY <2>1, <2>2, <2>3, <2>4, <2>5 DEF ReviewTypes
<1>16. HistoryOK'
  <2>1. reviewer'.replies = <<>>
    BY <1>2 DEF NoReviewer
  <2> QED BY <2>1, <1>2, <1>4, <1>10, <1>14 DEF HistoryOK, Call
<1>17. ReviewerOK'
  BY <1>2 DEF ReviewerOK, NoReviewer
<1> QED BY <1>1, <1>15, <1>16, <1>17, HalvesAfter

LEMMA ReviewEndsKeeps ==
  ASSUME ReviewInv, ReviewEnds
  PROVE  ReviewInv'
<1>1. DraftTypes' /\ DrafterOK' /\ RawIsRuled'
  BY DraftFilesStay DEF ReviewEnds
<1>2. reviewer' = NoReviewer /\ UNCHANGED <<compiled, report, adjudication, calls, basis>>
  BY DEF ReviewEnds, reviewVars, histVars
<1>3. ReviewTypes'
  BY <1>2, Halves, WikiReviewAssumption DEF ReviewTypes, IsReport, NoReviewer
<1>4. HistoryOK'
  <2>1. reviewer'.replies = <<>>
    BY <1>2 DEF NoReviewer
  <2> QED BY <2>1, <1>2, Halves DEF HistoryOK
<1>5. ReviewerOK'
  BY <1>2 DEF ReviewerOK, NoReviewer
<1> QED BY <1>1, <1>3, <1>4, <1>5, HalvesAfter

LEMMA AdjudicationKeeps ==
  ASSUME ReviewInv, UNCHANGED <<inputVars, draftVars, drafter>>,
         UNCHANGED <<compiled, report, reviewer, calls, basis>>,
         report # None, IsReport(adjudication'.report),
         DOMAIN adjudication' = {"report", "decision"}
  PROVE  ReviewInv'
<1>1. DraftTypes' /\ DrafterOK' /\ RawIsRuled'
  BY DraftFilesStay
<1>2. ReviewTypes'
  BY Halves DEF ReviewTypes, IsReport
<1>3. HistoryOK' /\ ReviewerOK'
  BY Halves DEF HistoryOK, ReviewerOK
<1> QED BY <1>1, <1>2, <1>3, HalvesAfter

LEMMA PrepareAdjudicationKeeps ==
  ASSUME ReviewInv, NEW force \in BOOLEAN, PrepareAdjudication(force)
  PROVE  ReviewInv'
<1>1. adjudication'.report = report /\ DOMAIN adjudication' = {"report", "decision"}
  BY DEF PrepareAdjudication, Template
<1>2. report # None /\ IsReport(report)
  BY Halves DEF ReviewTypes, PrepareAdjudication
<1>3. /\ UNCHANGED <<inputVars, draftVars, drafter>>
      /\ UNCHANGED <<compiled, report, reviewer, calls, basis>>
  BY DEF PrepareAdjudication, histVars
<1> QED BY <1>1, <1>2, <1>3, AdjudicationKeeps

LEMMA DecideKeeps ==
  ASSUME ReviewInv, NEW f, NEW d, Decide(f, d)
  PROVE  ReviewInv'
<1>1. report # None /\ IsReport(adjudication.report) /\ DOMAIN adjudication = {"report", "decision"}
  BY Halves DEF ReviewTypes, Decide
<1>2. adjudication'.report = adjudication.report /\ DOMAIN adjudication' = {"report", "decision"}
  BY <1>1 DEF Decide
<1>3. /\ UNCHANGED <<inputVars, draftVars, drafter>>
      /\ UNCHANGED <<compiled, report, reviewer, calls, basis>>
  BY DEF Decide
<1> QED BY <1>1, <1>2, <1>3, AdjudicationKeeps

LEMMA EditDraftKeeps ==
  ASSUME ReviewInv, NEW a \in Article, EditDraft(a)
  PROVE  ReviewInv'
<1>1. DraftTypes' /\ DrafterOK' /\ RawIsRuled'
  BY Halves, NoFile DEF EditDraft, inputVars, DraftTypes, DrafterOK, RawIsRuled
<1>2. ReviewTypes' /\ HistoryOK' /\ ReviewerOK'
  BY ReviewFilesStay DEF EditDraft
<1> QED BY <1>1, <1>2, HalvesAfter

LEMMA EditInputsKeeps ==
  ASSUME ReviewInv, EditInputs
  PROVE  ReviewInv'
<1>1. /\ store' \subseteq Ref /\ ruling' \in {"open", "redact", "cleared"}
      /\ topic' \in Topic \cup {None} /\ (ruling' = ruling \/ ruling' # "open")
  BY Halves DEF EditInputs, DraftTypes
<1>2. DraftTypes' /\ DrafterOK' /\ RawIsRuled'
  BY <1>1, Halves DEF EditInputs, draftVars, DraftTypes, DrafterOK, RawIsRuled
<1>3. ReviewTypes' /\ HistoryOK' /\ ReviewerOK'
  BY ReviewFilesStay DEF EditInputs
<1> QED BY <1>2, <1>3, HalvesAfter

LEMMA NextKeeps == ReviewInv /\ [Next]_vars => ReviewInv'
<1> SUFFICES ASSUME ReviewInv, [Next]_vars PROVE ReviewInv'
  OBVIOUS
<1>1. CASE UNCHANGED vars
  BY <1>1, DraftFilesStay, ReviewFilesStay, HalvesAfter DEF vars, histVars
<1>2. ASSUME NEW force \in BOOLEAN, StartDraft(force) \/ PrepareAdjudication(force)
      PROVE ReviewInv'
  BY <1>2, StartDraftKeeps, PrepareAdjudicationKeeps
<1>3. ASSUME NEW a \in Article, NEW tells \in BOOLEAN, DraftAnswered(a, tells)
      PROVE ReviewInv'
  BY <1>3, DraftAnsweredKeeps
<1>4. ASSUME NEW passes \in 1..MaxPasses, NEW again \in BOOLEAN, StartReview(passes, again)
      PROVE ReviewInv'
  BY <1>4, StartReviewKeeps
<1>5. ASSUME NEW reply \in Reply, PassAnswered(reply)
      PROVE ReviewInv'
  BY <1>5, PassAnsweredKeeps
<1>6. ASSUME NEW f, NEW d, Decide(f, d)
      PROVE ReviewInv'
  BY <1>6, DecideKeeps
<1>7. ASSUME NEW a \in Article, EditDraft(a)
      PROVE ReviewInv'
  BY <1>7, EditDraftKeeps
<1> QED BY <1>1, <1>2, <1>3, <1>4, <1>5, <1>6, <1>7, DraftClaimsKeeps, DraftEndsKeeps,
           PrepareReviewKeeps, ReviewWrittenKeeps, ReviewEndsKeeps, EditInputsKeeps
        DEF Next

-------------------------------------------------------------------------------
(* What follows.                                                           *)

LEMMA NothingIsLost == ReviewInv => NoFindingDisappears
<1> SUFFICES ASSUME ReviewInv, report # None
             PROVE  /\ report.flagged = UNION {Found(basis[i].reply, i) : i \in DOMAIN basis}
                    /\ \A i \in DOMAIN basis : basis[i].about = report.about
                    /\ ValidReport(report, report.about)
                          <=> \A i \in DOMAIN basis : ValidReply(basis[i].reply, report.about)
  BY DEF NoFindingDisappears
<1>1. Sums(report, basis) /\ basis \in Seq(Call)
  BY Halves DEF HistoryOK, Call
<1>2. report.broken = {} <=> \A i \in DOMAIN basis : ValidReply(basis[i].reply, report.about)
  BY <1>1 DEF Sums
<1>3. Len(report.provenance) > 0 /\ 1 \in DOMAIN basis
  <2>1. Len(basis) > 0 /\ Len(basis) = Len(report.provenance)
    BY <1>1 DEF Sums
  <2> QED BY <1>1, <2>1
<1>4. report.broken = {} => DOMAIN report.verdict = ClaimPackets(report.about.article)
  <2> SUFFICES ASSUME report.broken = {}
               PROVE DOMAIN report.verdict = ClaimPackets(report.about.article)
    OBVIOUS
  <2>1. \A i \in DOMAIN basis :
           DOMAIN basis[i].reply.reviews = ClaimPackets(report.about.article)
    BY <1>2 DEF ValidReply
  <2>2. DOMAIN report.verdict = UNION {DOMAIN basis[i].reply.reviews : i \in DOMAIN basis}
    BY <1>1 DEF Sums
  <2> QED BY <2>1, <2>2, <1>3
<1>5. \A c \in DOMAIN report.verdict : report.verdict[c] = Strictest(RanksOf(report, c))
  BY <1>1, FindingsTellTheVerdict
<1>6. ValidReport(report, report.about) <=> report.broken = {}
  BY <1>3, <1>4, <1>5 DEF ValidReport
<1> QED BY <1>1, <1>2, <1>6 DEF Sums

LEMMA GateIsReviewed == ReviewInv => GateMeansReviewed
<1> SUFFICES ASSUME ReviewInv, GateClean
             PROVE  /\ basis # <<>>
                    /\ VerifyClean(draft, bundle.refs, claims)
                    /\ \A i \in DOMAIN basis :
                          LET call == basis[i]
                          IN  /\ call.about.article = draft
                              /\ call.about.evidence.refs = bundle.refs
                              /\ call.about.claims = claims
                              /\ topic \in {call.about.topic, None}
                              /\ ValidReply(call.reply, call.about)
                              /\ \A f \in Found(call.reply, i) :
                                    /\ adjudication.report.provenance = report.provenance
                                    /\ adjudication.decision[<<f[1], f[2]>>] = "non_blocking"
  BY DEF GateMeansReviewed
<1>1. report # None /\ Sums(report, basis) /\ basis \in Seq(Call)
  BY Halves DEF HistoryOK, Call, GateClean
<1>2. /\ ValidReport(report, compiled) /\ CleanAdjudication(adjudication, report)
      /\ VerifyClean(compiled.article, compiled.evidence.refs, compiled.claims)
  BY DEF GateClean, ValidArtifact
<1>3. /\ compiled.article = draft /\ compiled.evidence.refs = bundle.refs
      /\ compiled.claims = claims /\ topic \in {compiled.topic, None}
  <2>1. bundle \in Evidence
    BY Halves DEF DraftTypes, GateClean, HasArtifacts
  <2>2. Scrub(bundle).refs = bundle.refs
    BY <2>1 DEF Scrub, Evidence
  <2>3. compiled = Material(IF topic # None THEN topic ELSE compiled.topic)
    BY DEF GateClean, Rebuilt, ApprovedTopic
  <2>4. /\ compiled.article = draft /\ compiled.evidence = Scrub(bundle)
        /\ compiled.claims = claims
        /\ compiled.topic = IF topic # None THEN topic ELSE compiled.topic
    BY <2>3 DEF Material
  <2> QED BY <2>2, <2>4
<1>4. basis # <<>> /\ VerifyClean(draft, bundle.refs, claims)
  BY <1>1, <1>2, <1>3 DEF Sums
<1>5. ASSUME NEW i \in DOMAIN basis
      PROVE  /\ basis[i].about = compiled /\ ValidReply(basis[i].reply, compiled)
             /\ \A f \in Found(basis[i].reply, i) : f \in report.flagged
  <2>1. report.about = compiled /\ report.broken = {}
    BY <1>2 DEF ValidReport
  <2> QED BY <2>1, <1>1 DEF Sums
<1>6. ASSUME NEW f \in report.flagged
      PROVE  /\ adjudication.report.provenance = report.provenance
             /\ adjudication.decision[<<f[1], f[2]>>] = "non_blocking"
  <2>1. <<f[1], f[2]>> \in FindingIds(report)
    BY DEF FindingIds
  <2> QED BY <2>1, <1>2 DEF CleanAdjudication
<1> QED BY <1>3, <1>4, <1>5, <1>6

LEMMA LeavesRuled ==
  ReviewInv /\ [Next]_vars =>
      /\ DraftLeaves /\ bundle'.raw => ruling = "cleared"
      /\ ReviewLeaves /\ reviewer'.about.evidence.raw => ruling = "cleared"
      /\ ReviewLeaves /\ reviewer'.about.article \in Spelled => ruling # "redact"
<1> SUFFICES ASSUME ReviewInv, [Next]_vars
             PROVE  /\ DraftLeaves /\ bundle'.raw => ruling = "cleared"
                    /\ ReviewLeaves /\ reviewer'.about.evidence.raw => ruling = "cleared"
                    /\ ReviewLeaves /\ reviewer'.about.article \in Spelled => ruling # "redact"
  OBVIOUS
<1>1. DraftLeaves => \E force \in BOOLEAN : StartDraft(force)
  BY DEF DraftLeaves, Next, vars, DraftAnswered, DraftClaims, DraftEnds, PrepareReview,
         StartReview, PassAnswered, ReviewWritten, ReviewEnds, PrepareAdjudication, Decide,
         EditDraft, EditInputs, NoDrafter
<1>2. ReviewLeaves => \E passes \in 1..MaxPasses, again \in BOOLEAN : StartReview(passes, again)
  BY DEF ReviewLeaves, Next, vars, StartDraft, DraftAnswered, DraftClaims, DraftEnds,
         PrepareReview, PassAnswered, ReviewWritten, ReviewEnds, PrepareAdjudication, Decide,
         EditDraft, EditInputs, NoReviewer
<1>3. ASSUME NEW force \in BOOLEAN, StartDraft(force)
      PROVE  bundle'.raw => ruling = "cleared"
  <2>1. bundle' = Built
    BY <1>3 DEF StartDraft
  <2>2. Built.raw => ruling = "cleared"
    BY DEF Built
  <2> QED BY <2>1, <2>2
<1>4. ASSUME NEW passes \in 1..MaxPasses, NEW again \in BOOLEAN, StartReview(passes, again)
      PROVE  /\ reviewer'.about.evidence.raw => ruling = "cleared"
             /\ reviewer'.about.article \in Spelled => ruling # "redact"
  <2>1. reviewer'.about = Material(ApprovedTopic) /\ HasArtifacts /\ ~Leaks
    BY <1>4 DEF StartReview
  <2>2. reviewer'.about.article = draft /\ reviewer'.about.evidence = Scrub(bundle)
    BY <2>1 DEF Material
  <2>3. bundle \in Evidence /\ bundle # None
    BY <2>1, Halves DEF DraftTypes, HasArtifacts
  <2>4. Scrub(bundle).raw = (bundle.raw /\ ruling # "redact")
    BY <2>3 DEF Scrub, Evidence
  <2>5. bundle.raw => ruling # "open"
    BY <2>3, Halves DEF RawIsRuled
  <2>6. ruling \in {"open", "redact", "cleared"}
    BY Halves DEF DraftTypes
  <2> QED BY <2>1, <2>2, <2>4, <2>5, <2>6 DEF Leaks
<1> QED BY <1>1, <1>2, <1>3, <1>4

(* Whatever is drafted, reviewed, ruled and edited, the report on disk is  *)
(* the sum of the calls the history counts for it.                         *)
THEOREM ReviewIsSound == Spec => []ReviewInv
BY ReviewInit, NextKeeps, PTL DEF Spec

(* Every file of a topic has the form its readers expect.                  *)
THEOREM ReviewTypeCorrect == Spec => []TypeOK
<1>1. ReviewInv => TypeOK
  BY DEF ReviewInv
<1> QED BY <1>1, ReviewIsSound, PTL

(* An article that passes the gate was read by a review as it is, and all  *)
(* that any pass found in it was ruled not to matter.                      *)
THEOREM PublishedIsReviewed == Spec => []GateMeansReviewed
BY GateIsReviewed, ReviewIsSound, PTL

(* Merging passes, in one run or over several, drops no finding, and the   *)
(* strictest verdicts it keeps are those the validator computes again.     *)
THEOREM FindingsAreKept == Spec => []NoFindingDisappears
BY NothingIsLost, ReviewIsSound, PTL

(* No model is sent a value that is not cleared.                           *)
THEOREM OnlyClearedLeaves == Spec => NothingUnruledLeaves
<1>1. ReviewInv /\ [Next]_vars =>
         [/\ DraftLeaves /\ bundle'.raw => ruling = "cleared"
          /\ ReviewLeaves /\ reviewer'.about.evidence.raw => ruling = "cleared"
          /\ ReviewLeaves /\ reviewer'.about.article \in Spelled => ruling # "redact"]_vars
  BY LeavesRuled
<1> QED BY <1>1, ReviewIsSound, PTL DEF Spec, NothingUnruledLeaves

-------------------------------------------------------------------------------
(* The store, read by position.                                            *)

LEMMA MemoryIsFinite ==
  /\ Memories \in Nat /\ Memory \subseteq Nat /\ IsFiniteSet(Memory)
  /\ \A S \in SUBSET Memory : IsFiniteSet(S) /\ Cardinality(S) \in Nat
<1>1. Memories \in Nat /\ Memory \subseteq Nat
  BY WikiCompileAssumption DEF Memory
<1>2. IsFiniteSet(Memory)
  BY <1>1, FS_Interval DEF Memory
<1> QED BY <1>1, <1>2, FS_Subset, FS_CardinalityType

LEMMA Sizes ==
  /\ PageSize \in Nat \ {0} /\ MaxMemories \in Nat \ {0} /\ PackThreshold \in Nat \ {0}
  /\ Concurrency \in Nat \ {0} /\ MaxRuns \in Nat \ {0} /\ MaxTime \in Nat /\ MaxWrites \in Nat
  /\ Existing \subseteq Memory /\ DOMAIN SessionOf = Memory
BY WikiCompileAssumption

(* How many ids of S are up to m: its place in a listing of S.             *)
UpTo(S, m) == {x \in S : x <= m}

LEMMA PlaceInBounds ==
  ASSUME NEW S \in SUBSET Memory, NEW m \in S
  PROVE  Cardinality(UpTo(S, m)) \in 1..Cardinality(S)
<1>0. m \in Nat
  BY MemoryIsFinite
<1>1. m \in UpTo(S, m)
  BY <1>0 DEF UpTo
<1>5. UpTo(S, m) \subseteq S
  BY DEF UpTo
<1>2. IsFiniteSet(S) /\ IsFiniteSet(UpTo(S, m))
      /\ Cardinality(S) \in Nat /\ Cardinality(UpTo(S, m)) \in Nat
  BY <1>5, MemoryIsFinite
<1>3. Cardinality(UpTo(S, m)) <= Cardinality(S)
  BY <1>5, <1>2, FS_Subset
<1>4. Cardinality(UpTo(S, m)) # 0
  BY <1>1, <1>2, FS_EmptySet
<1> QED BY <1>2, <1>3, <1>4

(* Later ids come later.                                                   *)
LEMMA PlacesIncrease ==
  ASSUME NEW S \in SUBSET Memory, NEW x \in S, NEW y \in S, x < y
  PROVE  Cardinality(UpTo(S, x)) < Cardinality(UpTo(S, y))
<1>1. x \in Nat /\ y \in Nat /\ S \subseteq Nat
  BY MemoryIsFinite
<1>2. y \in UpTo(S, y) /\ y \notin UpTo(S, x)
  BY <1>1 DEF UpTo
<1>3. \A z \in S : z <= x => z <= y
  BY <1>1
<1>4. UpTo(S, x) \subseteq UpTo(S, y) /\ UpTo(S, y) \subseteq S
  BY <1>3 DEF UpTo
<1>5. /\ IsFiniteSet(UpTo(S, y)) /\ Cardinality(UpTo(S, y)) \in Nat
      /\ Cardinality(UpTo(S, x)) \in Nat
  BY <1>4, MemoryIsFinite
<1>6. Cardinality(UpTo(S, x)) <= Cardinality(UpTo(S, y))
      /\ Cardinality(UpTo(S, x)) # Cardinality(UpTo(S, y))
  BY <1>2, <1>4, <1>5, FS_Subset
<1> QED BY <1>5, <1>6

(* An insertion moves rows down only.                                      *)
LEMMA PlacesGrow ==
  ASSUME NEW S \in SUBSET Memory, NEW T \in SUBSET Memory, S \subseteq T, NEW m
  PROVE  Cardinality(UpTo(S, m)) <= Cardinality(UpTo(T, m))
<1>1. UpTo(S, m) \in SUBSET UpTo(T, m) /\ UpTo(T, m) \in SUBSET Memory
  BY DEF UpTo
<1> QED BY <1>1, MemoryIsFinite, FS_Subset

(* A deletion moves the later rows up, by one.                             *)
LEMMA PlacesShift ==
  ASSUME NEW S \in SUBSET Memory, NEW d \in S, NEW m \in S \ {d}
  PROVE  Cardinality(UpTo(S \ {d}, m)) =
            IF d < m THEN Cardinality(UpTo(S, m)) - 1 ELSE Cardinality(UpTo(S, m))
<1>0. d \in Nat /\ m \in Nat
  BY MemoryIsFinite
<1>1. UpTo(S \ {d}, m) = UpTo(S, m) \ {d} /\ (d \in UpTo(S, m) <=> d < m)
  BY <1>0 DEF UpTo
<1>2. UpTo(S, m) \in SUBSET Memory
  BY DEF UpTo
<1>3. IsFiniteSet(UpTo(S, m))
  BY <1>2, MemoryIsFinite
<1>4. Cardinality(UpTo(S, m) \ {d}) = IF d \in UpTo(S, m) THEN Cardinality(UpTo(S, m)) - 1
                                       ELSE Cardinality(UpTo(S, m))
  BY <1>3, FS_RemoveElement
<1> QED BY <1>1, <1>4

LEMMA Positions ==
  /\ Live \in SUBSET Memory /\ Cardinality(Live) \in Nat
  /\ \A m : Position(m) = Cardinality(UpTo(Live, m))
  /\ \A m \in Live : Position(m) \in 1..Cardinality(Live)
<1>1. Live \in SUBSET Memory
  BY DEF Live
<1>2. \A m : Position(m) = Cardinality(UpTo(Live, m))
  BY DEF Position, UpTo
<1> QED BY <1>1, <1>2, MemoryIsFinite, PlaceInBounds

LEMMA PositionsAfter ==
  /\ Live' \in SUBSET Memory /\ Cardinality(Live') \in Nat
  /\ \A m : Position(m)' = Cardinality(UpTo(Live', m))
  /\ \A m \in Live' : Position(m)' \in 1..Cardinality(Live')
<1>1. Live' \in SUBSET Memory
  BY DEF Live
<1>2. \A m : Position(m)' = Cardinality(UpTo(Live', m))
  BY DEF Position, UpTo
<1> QED BY <1>1, <1>2, MemoryIsFinite, PlaceInBounds

(* While the store stays, so does the listing.                             *)
LEMMA StoreStays ==
  ASSUME row' = row
  PROVE  /\ Live' = Live
         /\ \A m : Position(m)' = Position(m)
         /\ \A m, start : RowOf(m, start)' = RowOf(m, start)
<1>1. Live' = Live
  BY DEF Live
<1>2. \A m, start : RowOf(m, start)' = RowOf(m, start)
  BY DEF RowOf
<1> QED BY <1>1, <1>2 DEF Position

(* Once a page is short, every row is on a page that has been read.        *)
LEMMA LastPageIsLast ==
  ASSUME LastPage, NEW m \in Live, reader.start \in Nat, Position(m) > reader.start
  PROVE  m \in Listed(reader.start)
<1>1. Position(m) \in 1..Cardinality(Live) /\ Cardinality(Live) \in Nat
  BY Positions
<1>2. PageSize \in Nat
  BY Sizes
<1> QED BY <1>1, <1>2 DEF LastPage, Listed

-------------------------------------------------------------------------------
(* The inductive invariant.                                                *)

Planned == UNION {Named(plan.batches[s].ids) : s \in DOMAIN plan.batches}

(* Nothing is stamped later than now, and what is gone does not come back. *)
ClockOK ==
    /\ cursor.at <= now /\ plan.readAt <= now /\ reader.began <= now
    /\ \A m \in Live : row[m].touched <= now
    /\ \A m \in Memory \ Live : row[m] \in {Unwritten, Deleted}

(* Rows read are told apart by their id and page, and what nobody changed  *)
(* since has been read as it is.                                           *)
ReaderOK ==
    /\ pass = NoPass \/ reader = Idle
    /\ IsFiniteSet(reader.rows)
    /\ \A r \in reader.rows : r.page < reader.start /\ row[r.id] # Unwritten
    /\ \A r, q \in reader.rows : r.id = q.id /\ r.page = q.page => r = q
    /\ \A m \in reader.fresh : m \in Live /\ \E r \in reader.rows : r = RowOf(m, r.page)

(* What a command has not read lies ahead of it, or has moved behind it.   *)
AheadOfPlan ==
    reader.cmd = "plan" =>
        \A m \in Live : row[m].touched < reader.began =>
            m \in reader.fresh \cup excused["plan"] \/ Position(m) > reader.start

AheadOfProfile ==
    reader.cmd = "profile" =>
        \A m \in Live \cap Planned :
            m \in {r.id : r \in reader.rows} \cup excused["profile"]
            \/ Position(m) > reader.start

(* What the plan knows of the store.                                       *)
PlanOK ==
    /\ \A s \in DOMAIN plan.batches : IsFiniteSet(plan.batches[s].ids)
    /\ \A m \in Planned : row[m] # Unwritten
    /\ \A m \in Live : row[m].touched < plan.readAt => m \in fresh \cup excused["plan"]
    /\ \A m \in fresh : /\ m \in Live
                        /\ cursor.at = Never \/ row[m].touched > cursor.at => m \in Named(selected)

(* A batch that needs no call.                                             *)
Done(s) ==
    /\ s \in DOMAIN art
    /\ \/ art[s].status = "refused"
       \/ /\ art[s].covers = CoverageDigest(plan.batches[s])
          /\ art[s].blank \cap Live \subseteq excused["profile"]

PassOK ==
    /\ pass.todo \subseteq Candidates(plan)
    /\ pass.todo = {} => pass = NoPass
    /\ pass.todo # {} =>
          /\ ~finished
          /\ Live \cap Planned \subseteq pass.texts \cup excused["profile"]
          /\ pass.failed \/ \A s \in Candidates(plan) \ pass.todo : Done(s)
    /\ \A s \in pass.todo \cap DOMAIN art : <<s, art[s].covers>> \in kept

(* What an artifact does not know of a memory that exists, it never could. *)
ArtOK ==
    \A s \in DOMAIN art :
        /\ \A m \in art[s].blank : row[m] # Unwritten
        /\ art[s].blank \cap Live \subseteq excused["profile"]

FinishedOK == finished => \A s \in Candidates(plan) : Done(s)

CursorOK ==
    cursor.at # Never =>
        \A m \in Live : \/ m \in retired \cup excused["second"] \cup excused["plan"]
                        \/ row[m].touched > cursor.at

(* What is done in the store, what is read and what is in the run.         *)
ReadInv == ClockOK /\ ReaderOK /\ AheadOfPlan /\ AheadOfProfile
RunInv == PlanOK /\ PassOK /\ ArtOK /\ FinishedOK /\ CursorOK
PlanInv == PlanIsAPartition /\ SessionsAreWhole
CompileInv == CompileTypeOK /\ ReadInv /\ RunInv /\ PlanInv /\ EveryReadingIsKept

-------------------------------------------------------------------------------
(* What each step keeps.                                                   *)

LEMMA Reasons ==
  {"plan", "profile", "second"} = {"plan"} \cup {"profile"} \cup {"second"}
OBVIOUS

LEMMA ReaderTypes ==
  ASSUME CompileTypeOK
  PROVE  /\ reader.cmd \in {"none", "plan", "profile"} /\ reader.began \in Stamp
         /\ reader.start \in Nat /\ reader.rows \in SUBSET RowRead
         /\ reader.fresh \in SUBSET Memory
BY DEF CompileTypeOK

LEMMA PlanTypes ==
  ASSUME CompileTypeOK
  PROVE  /\ plan.readAt \in Stamp /\ plan.batches \in Seq(BatchType)
         /\ cursor.at \in Stamp /\ cursor.run \in Nat \ {0}
BY DEF CompileTypeOK

LEMMA PassTypes ==
  ASSUME CompileTypeOK
  PROVE  /\ pass.texts \in SUBSET Memory /\ pass.todo \in SUBSET DOMAIN plan.batches
         /\ pass.failed \in BOOLEAN
BY DEF CompileTypeOK

LEMMA ExcusedTypes ==
  ASSUME CompileTypeOK
  PROVE  /\ DOMAIN excused = {"plan", "profile", "second"}
         /\ excused["plan"] \in SUBSET Memory /\ excused["profile"] \in SUBSET Memory
         /\ excused["second"] \in SUBSET Memory
BY DEF CompileTypeOK

LEMMA RowTypes ==
  ASSUME CompileTypeOK
  PROVE  /\ now \in 0..MaxTime
         /\ \A m \in Memory : row[m] \in [born : Stamp, touched : Stamp]
         /\ \A m \in Memory : row[m].born \in Stamp /\ row[m].touched \in Stamp
         /\ \A x \in Stamp : x \in Int
         /\ 0..MaxTime \subseteq Stamp /\ Never \in Stamp /\ MaxTime + 1 \in Stamp
BY Sizes DEF CompileTypeOK, Stamp, Never

(* The batches of a plan, and the memories they name.                      *)
LEMMA NamedTypes ==
  ASSUME CompileTypeOK
  PROVE  /\ \A s \in DOMAIN plan.batches :
               plan.batches[s] \in BatchType /\ plan.batches[s].ids \in SUBSET RowIds
               /\ Named(plan.batches[s].ids) \in SUBSET Planned /\ s \in Nat
         /\ Planned \in SUBSET Memory
<1>1. plan.batches \in Seq(BatchType)
  BY PlanTypes
<1>2. \A s \in DOMAIN plan.batches : plan.batches[s] \in BatchType /\ s \in Nat
  BY <1>1
<1>3. \A b \in BatchType : b.ids \in SUBSET RowIds
  BY DEF BatchType
<1>4. \A ids \in SUBSET RowIds : Named(ids) \in SUBSET Memory
  BY DEF Named, RowIds
<1>5. \A s \in DOMAIN plan.batches : Named(plan.batches[s].ids) \in SUBSET Planned
  BY DEF Planned
<1>6. Planned \in SUBSET Memory
  BY <1>2, <1>3, <1>4 DEF Planned
<1> QED BY <1>2, <1>3, <1>5, <1>6

(* Parts of the invariant that a step leaves alone.                        *)
LEMMA ClockStays ==
  ASSUME ClockOK, UNCHANGED <<now, row, cursor, plan>>, reader'.began <= now
  PROVE  ClockOK'
BY DEF ClockOK, Live

LEMMA ReaderStays ==
  ASSUME ReaderOK, AheadOfPlan, AheadOfProfile,
         UNCHANGED <<row, reader, pass, excused>>, plan'.batches = plan.batches
  PROVE  ReaderOK' /\ AheadOfPlan' /\ AheadOfProfile'
<1>1. Planned' = Planned /\ (\A m : Position(m)' = Position(m)) /\ Live' = Live
  BY StoreStays DEF Planned
<1>2. ReaderOK'
  BY <1>1 DEF ReaderOK, RowOf
<1>3. AheadOfPlan' /\ AheadOfProfile'
  BY <1>1 DEF AheadOfPlan, AheadOfProfile
<1> QED BY <1>2, <1>3

LEMMA PlanStays ==
  ASSUME PlanOK, PlanInv, UNCHANGED <<row, cursor, plan, selected, fresh, excused>>
  PROVE  PlanOK' /\ PlanInv'
<1>1. Planned' = Planned /\ Live' = Live
  BY StoreStays DEF Planned
<1> QED BY <1>1 DEF PlanOK, PlanInv, PlanIsAPartition, SessionsAreWhole

LEMMA RunStays ==
  ASSUME PassOK, ArtOK, FinishedOK, EveryReadingIsKept,
         UNCHANGED <<row, plan, pass, finished, art, kept, answered, excused>>
  PROVE  PassOK' /\ ArtOK' /\ FinishedOK' /\ EveryReadingIsKept'
<1>1. Planned' = Planned /\ Live' = Live /\ Candidates(plan)' = Candidates(plan)
      /\ \A s : CoverageDigest(plan.batches[s])' = CoverageDigest(plan.batches[s])
  BY StoreStays DEF Planned, Candidates, CoverageDigest
<1>2. \A s : Done(s)' <=> Done(s)
  BY <1>1 DEF Done
<1> QED BY <1>1, <1>2 DEF PassOK, ArtOK, FinishedOK, EveryReadingIsKept

LEMMA CursorStays ==
  ASSUME CursorOK, UNCHANGED <<row, cursor, retired, excused>>
  PROVE  CursorOK'
BY DEF CursorOK, Live

-------------------------------------------------------------------------------
(* Reading.                                                                *)

LEMMA RowIsRead ==
  ASSUME CompileTypeOK, NEW m \in Memory, NEW start \in Nat
  PROVE  /\ RowOf(m, start) \in RowRead /\ RowOf(m, start).id = m
         /\ RowOf(m, start).page = start
         /\ RowOf(m, start).born = row[m].born /\ RowOf(m, start).touched = row[m].touched
BY RowTypes DEF RowOf, RowRead

LEMMA LiveIsWritten ==
  ASSUME NEW m \in Live
  PROVE  row[m] # Unwritten
BY DEF Live, Unwritten

LEMMA ListedAreLive == \A start : Listed(start) \subseteq Live /\ Listed(start) \in SUBSET Memory
BY DEF Listed, Live

LEMMA PageIsFinite == IsFiniteSet(Page)
<1> DEFINE L == Listed(reader.start)
           f == [m \in L |-> RowOf(m, reader.start)]
<1>1. IsFiniteSet(L)
  BY ListedAreLive, MemoryIsFinite
<1>2. f \in [L -> Page] /\ \A r \in Page : \E m \in L : f[m] = r
  BY DEF Page
<1> HIDE DEF f, L
<1>3. f \in Surjection(L, Page)
  BY <1>2 DEF Surjection
<1> QED BY <1>1, <1>3, FS_Surjection

(* What has been read once the present page is read too.                   *)
LEMMA ReadOn ==
  ASSUME CompileTypeOK, ReaderOK
  PROVE  /\ AllRows \in SUBSET RowRead /\ IsFiniteSet(AllRows)
         /\ \A r \in AllRows : r.page < reader.start + PageSize /\ row[r.id] # Unwritten
         /\ \A r, q \in AllRows : r.id = q.id /\ r.page = q.page => r = q
         /\ AllFresh \in SUBSET Memory
         /\ \A m \in AllFresh : m \in Live /\ \E r \in AllRows : r = RowOf(m, r.page)
         /\ Listed(reader.start) \subseteq {r.id : r \in AllRows}
<1> DEFINE L == Listed(reader.start)
<1>1. reader.start \in Nat /\ PageSize \in Nat \ {0} /\ reader.rows \in SUBSET RowRead
      /\ reader.fresh \in SUBSET Memory
  BY ReaderTypes, Sizes
<1>2. \A m \in L : m \in Memory /\ m \in Live
  BY ListedAreLive
<1>3. \A r \in Page : \E m \in L : r = RowOf(m, reader.start)
  BY DEF Page
<1>4. \A m \in L : RowOf(m, reader.start) \in Page
  BY DEF Page
<1> HIDE DEF L
<1>5. \A r \in Page : r \in RowRead /\ r.id \in L /\ r.page = reader.start
                      /\ r = RowOf(r.id, r.page)
  BY <1>1, <1>2, <1>3, RowIsRead
<1>6. AllRows \in SUBSET RowRead
  BY <1>1, <1>5 DEF AllRows
<1>7. IsFiniteSet(AllRows)
  BY PageIsFinite, FS_Union DEF AllRows, ReaderOK
<1>8. \A r \in reader.rows : r.page \in Nat /\ r.page < reader.start /\ row[r.id] # Unwritten
  BY <1>1 DEF ReaderOK, RowRead
<1>9. \A r \in Page : r.page < reader.start + PageSize /\ row[r.id] # Unwritten
  BY <1>1, <1>2, <1>5, LiveIsWritten
<1>10. \A r \in AllRows : r.page < reader.start + PageSize /\ row[r.id] # Unwritten
  BY <1>1, <1>8, <1>9 DEF AllRows
<1>11. \A r, q \in AllRows : r.id = q.id /\ r.page = q.page => r = q
  <2>1. \A r \in reader.rows, q \in Page : r.page # q.page
    BY <1>1, <1>5, <1>8
  <2>2. \A r, q \in Page : r.id = q.id => r = q
    BY <1>5
  <2> QED BY <2>1, <2>2 DEF AllRows, ReaderOK
<1>12. AllFresh \in SUBSET Memory
  BY <1>1, <1>2 DEF AllFresh, L
<1>13. \A m \in AllFresh : m \in Live /\ \E r \in AllRows : r = RowOf(m, r.page)
  <2>1. \A m \in reader.fresh : m \in Live /\ \E r \in AllRows : r = RowOf(m, r.page)
    BY DEF ReaderOK, AllRows
  <2>2. ASSUME NEW m \in L PROVE m \in Live /\ \E r \in AllRows : r = RowOf(m, r.page)
    <3>1. RowOf(m, reader.start) \in AllRows /\ RowOf(m, reader.start).page = reader.start
      BY <1>1, <1>2, <1>4, RowIsRead DEF AllRows
    <3> QED BY <1>2, <3>1
  <2> QED BY <2>1, <2>2 DEF AllFresh, L
<1>14. L \subseteq {r.id : r \in AllRows}
  <2>1. \A m \in L : RowOf(m, reader.start) \in AllRows /\ RowOf(m, reader.start).id = m
    BY <1>1, <1>2, <1>4, RowIsRead DEF AllRows
  <2> QED BY <2>1
<1> QED BY <1>6, <1>7, <1>10, <1>11, <1>12, <1>13, <1>14 DEF L

(* A row that is not on this page and not before it lies behind it.        *)
LEMMA Beyond ==
  ASSUME CompileTypeOK, NEW m \in Live, Position(m) > reader.start
  PROVE  m \in Listed(reader.start) \/ Position(m) > reader.start + PageSize
<1>1. Position(m) \in Nat /\ reader.start \in Nat /\ PageSize \in Nat
  BY Positions, ReaderTypes, Sizes
<1> QED BY <1>1 DEF Listed

LEMMA IdleTypes ==
  /\ Idle.cmd = "none" /\ Idle.began = Never /\ Idle.start = 0 /\ Idle.rows = {}
  /\ Idle.fresh = {}
  /\ NoPass.texts = {} /\ NoPass.todo = {} /\ NoPass.failed = FALSE
  /\ NoPlan.readAt = Never /\ NoPlan.batches = <<>>
BY DEF Idle, NoPass, NoPlan

(* With no command reading, nothing is promised of a reader.               *)
LEMMA IdleReader ==
  ASSUME reader' = Idle, ClockOK, UNCHANGED <<now, row>>, cursor'.at <= now, plan'.readAt <= now,
         now \in Nat
  PROVE  ReadInv'
<1>1. reader'.rows = {} /\ reader'.fresh = {} /\ reader'.cmd = "none" /\ reader'.began <= now
  BY IdleTypes DEF Never
<1>2. ClockOK'
  BY <1>1, StoreStays DEF ClockOK
<1>3. ReaderOK'
  BY <1>1, FS_EmptySet DEF ReaderOK
<1>4. AheadOfPlan' /\ AheadOfProfile'
  BY <1>1 DEF AheadOfPlan, AheadOfProfile
<1> QED BY <1>2, <1>3, <1>4 DEF ReadInv

LEMMA Parts ==
  ASSUME CompileInv
  PROVE  /\ CompileTypeOK /\ ClockOK /\ ReaderOK /\ AheadOfPlan /\ AheadOfProfile
         /\ PlanOK /\ PassOK /\ ArtOK /\ FinishedOK /\ CursorOK /\ PlanInv /\ EveryReadingIsKept
BY DEF CompileInv, ReadInv, RunInv

LEMMA Together ==
  ASSUME CompileTypeOK', ClockOK', ReaderOK', AheadOfPlan', AheadOfProfile',
         PlanOK', PassOK', ArtOK', FinishedOK', CursorOK', PlanInv', EveryReadingIsKept'
  PROVE  CompileInv'
BY DEF CompileInv, ReadInv, RunInv

LEMMA TickKeeps == CompileInv /\ Tick => CompileInv'
<1> SUFFICES ASSUME CompileInv, Tick PROVE CompileInv'
  OBVIOUS
<1>0. /\ CompileTypeOK /\ ClockOK /\ ReaderOK /\ AheadOfPlan /\ AheadOfProfile
      /\ PlanOK /\ PassOK /\ ArtOK /\ FinishedOK /\ CursorOK /\ PlanInv /\ EveryReadingIsKept
  BY Parts
<1>01. /\ now < MaxTime /\ now' = now + 1
       /\ UNCHANGED <<row, cursor, reader, plan, pass, finished, art, kept,
                      writes, selected, fresh, retired, excused, answered>>
  BY DEF Tick
<1>1. CompileTypeOK'
  <2>1. now' \in 0..MaxTime
    BY <1>0, <1>01, RowTypes, Sizes
  <2> QED BY <1>0, <1>01, <2>1 DEF CompileTypeOK
<1>2. ReaderOK' /\ AheadOfPlan' /\ AheadOfProfile' /\ PlanOK' /\ PlanInv'
      /\ PassOK' /\ ArtOK' /\ FinishedOK' /\ EveryReadingIsKept' /\ CursorOK'
  BY <1>0, <1>01, ReaderStays, PlanStays, RunStays, CursorStays
<1>3. ClockOK'
  <2>1. /\ now \in Nat /\ cursor.at \in Int /\ plan.readAt \in Int /\ reader.began \in Int
        /\ Live \subseteq Memory /\ \A m \in Live : row[m].touched \in Int
    BY <1>0, RowTypes, PlanTypes, ReaderTypes, Positions
  <2>2. Live' = Live
    BY <1>01, StoreStays
  <2> QED BY <1>0, <1>01, <2>1, <2>2 DEF ClockOK
<1> QED BY <1>1, <1>2, <1>3, Together

LEMMA StartKeeps ==
  ASSUME CompileInv, NEW cmd \in {"plan", "profile"}, Start(cmd)
  PROVE  CompileInv'
<1>0. /\ CompileTypeOK /\ ClockOK /\ ReaderOK /\ AheadOfPlan /\ AheadOfProfile
      /\ PlanOK /\ PassOK /\ ArtOK /\ FinishedOK /\ CursorOK /\ PlanInv /\ EveryReadingIsKept
  BY Parts
<1>01. /\ UNCHANGED <<now, row, writes, cursor, plan, art, kept>>
       /\ UNCHANGED <<pass, finished, selected, fresh, retired, excused, answered>>
       /\ pass = NoPass
  BY DEF Start, Quiet, storeVars, diskVars
<1>1. reader' = [cmd |-> cmd, began |-> IF cmd = "plan" THEN now ELSE Never, start |-> 0,
                 rows |-> {}, fresh |-> {}]
  BY DEF Start, Idle
<1>2. now \in 0..MaxTime /\ now \in Stamp /\ Never \in Stamp
  BY <1>0, RowTypes
<1>3. CompileTypeOK'
  BY <1>0, <1>01, <1>1, <1>2 DEF CompileTypeOK
<1>4. PlanOK' /\ PlanInv' /\ PassOK' /\ ArtOK' /\ FinishedOK' /\ EveryReadingIsKept' /\ CursorOK'
  BY <1>0, <1>01, PlanStays, RunStays, CursorStays
<1>5. reader'.rows = {} /\ reader'.fresh = {} /\ reader'.start = 0 /\ reader'.began <= now
  BY <1>1, <1>2 DEF Never
<1>6. ClockOK'
  BY <1>0, <1>01, <1>5, ClockStays
<1>7. ReaderOK'
  BY <1>01, <1>5, FS_EmptySet DEF ReaderOK
<1>8. \A m \in Live' : Position(m)' > reader'.start
  BY <1>5, PositionsAfter
<1>9. AheadOfPlan' /\ AheadOfProfile'
  BY <1>8 DEF AheadOfPlan, AheadOfProfile
<1> QED BY <1>3, <1>4, <1>6, <1>7, <1>9, Together

LEMMA NextPageKeeps == CompileInv /\ NextPage => CompileInv'
<1> SUFFICES ASSUME CompileInv, NextPage PROVE CompileInv'
  OBVIOUS
<1>0. /\ CompileTypeOK /\ ClockOK /\ ReaderOK /\ AheadOfPlan /\ AheadOfProfile
      /\ PlanOK /\ PassOK /\ ArtOK /\ FinishedOK /\ CursorOK /\ PlanInv /\ EveryReadingIsKept
  BY Parts
<1>01. /\ UNCHANGED <<now, row, writes, cursor, plan, art, kept>>
       /\ UNCHANGED <<pass, finished, selected, fresh, retired, excused, answered>>
       /\ reader.cmd # "none"
       /\ reader' = [reader EXCEPT !.start = @ + PageSize, !.rows = AllRows, !.fresh = AllFresh]
  BY DEF NextPage, storeVars, diskVars
<1>1. reader' = [cmd |-> reader.cmd, began |-> reader.began, start |-> reader.start + PageSize,
                 rows |-> AllRows, fresh |-> AllFresh]
  <2>1. DOMAIN reader = {"cmd", "began", "start", "rows", "fresh"}
    BY <1>0 DEF CompileTypeOK
  <2> QED BY <1>01, <2>1
<1>2. reader.start + PageSize \in Nat
  BY <1>0, ReaderTypes, Sizes
<1>3. CompileTypeOK'
  <2>1. reader' \in [cmd : {"none", "plan", "profile"}, began : Stamp, start : Nat,
                     rows : SUBSET RowRead, fresh : SUBSET Memory]
    BY <1>0, <1>1, <1>2, ReadOn, ReaderTypes
  <2> QED BY <1>0, <1>01, <2>1 DEF CompileTypeOK
<1>4. PlanOK' /\ PlanInv' /\ PassOK' /\ ArtOK' /\ FinishedOK' /\ EveryReadingIsKept' /\ CursorOK'
  BY <1>0, <1>01, PlanStays, RunStays, CursorStays
<1>5. ClockOK'
  BY <1>0, <1>01, <1>1, ClockStays DEF ClockOK
<1>6. ReaderOK'
  <2>1. reader # Idle
    BY <1>01, IdleTypes
  <2>2. pass' = NoPass
    BY <1>0, <1>01, <2>1 DEF ReaderOK
  <2>3. \A m, start : RowOf(m, start)' = RowOf(m, start)
    BY <1>01, StoreStays
  <2>4. reader'.rows = AllRows /\ reader'.fresh = AllFresh /\ Live' = Live /\ row' = row
        /\ reader'.start = reader.start + PageSize
    BY <1>01, <1>1, StoreStays
  <2> QED BY <1>0, <2>2, <2>3, <2>4, ReadOn DEF ReaderOK
<1>7. Live' = Live /\ (\A m : Position(m)' = Position(m)) /\ Planned' = Planned
      /\ reader'.start = reader.start + PageSize /\ excused' = excused
  BY <1>01, <1>1, StoreStays DEF Planned
<1>8. \A m \in Live : Position(m) > reader.start =>
         m \in Listed(reader.start) \/ Position(m) > reader.start + PageSize
  BY <1>0, Beyond
<1>9. AheadOfPlan'
  <2>1. reader'.fresh = reader.fresh \cup Listed(reader.start) /\ reader'.began = reader.began
        /\ reader'.cmd = reader.cmd
    BY <1>1 DEF AllFresh
  <2> QED BY <1>0, <1>01, <1>7, <1>8, <2>1 DEF AheadOfPlan
<1>10. AheadOfProfile'
  <2>1. {r.id : r \in reader.rows} \cup Listed(reader.start) \subseteq {r.id : r \in reader'.rows}
    <3>1. Listed(reader.start) \subseteq {r.id : r \in AllRows}
      BY <1>0, ReadOn
    <3>2. reader.rows \subseteq AllRows
      BY DEF AllRows
    <3> QED BY <1>1, <3>1, <3>2
  <2>2. reader'.cmd = reader.cmd
    BY <1>1
  <2> QED BY <1>0, <1>01, <1>7, <1>8, <2>1, <2>2 DEF AheadOfProfile
<1> QED BY <1>3, <1>4, <1>5, <1>6, <1>9, <1>10, Together

-------------------------------------------------------------------------------
(* The store changes.                                                      *)

(* What a write and a deletion have in common, seen from the rest.         *)
Changed(m) ==
    /\ row' \in [Memory -> [born : Stamp, touched : Stamp]]
    /\ \A x \in Memory \ {m} : row'[x] = row[x]
    /\ row'[m] # Unwritten
    /\ Live' \ {m} = Live \ {m}
    /\ m \in Live' => row'[m].touched = now
    /\ m \notin Live' => row'[m] = Deleted
    /\ m \in Live' /\ m \notin Live => row[m] = Unwritten
    /\ excused' \in [{"plan", "profile", "second"} -> SUBSET Memory]
    /\ excused["plan"] \ {m} \subseteq excused'["plan"]
    /\ excused["second"] \ {m} \subseteq excused'["second"]
    /\ excused["profile"] \cap Live' \subseteq excused'["profile"]
    /\ m \in Live' /\ now = cursor.at => m \in excused'["second"]
    /\ \A x \in Live \cap Live' :
          Position(x) > reader.start =>
              \/ Position(x)' > reader.start
              \/ reader.cmd = "plan" /\ x \in excused'["plan"]
              \/ reader.cmd = "profile" /\ x \in excused'["profile"]
              \/ reader.cmd = "none"

LEMMA ChangesKeep ==
  ASSUME CompileInv, NEW m \in Memory, Changes(m), Changed(m)
  PROVE  CompileInv'
<1>0. /\ CompileTypeOK /\ ClockOK /\ ReaderOK /\ AheadOfPlan /\ AheadOfProfile
      /\ PlanOK /\ PassOK /\ ArtOK /\ FinishedOK /\ CursorOK /\ PlanInv /\ EveryReadingIsKept
  BY Parts
<1>1. /\ UNCHANGED <<now, cursor, plan, pass, finished, art, kept, selected, answered>>
      /\ writes < MaxWrites /\ writes' = writes + 1
      /\ fresh' = fresh \ {m} /\ retired' = retired \ {m}
  BY DEF Changes
<1>2. reader' = [cmd |-> reader.cmd, began |-> reader.began, start |-> reader.start,
                 rows |-> reader.rows, fresh |-> reader.fresh \ {m}]
  <2>1. reader' = [reader EXCEPT !.fresh = @ \ {m}]
    BY DEF Changes
  <2>2. DOMAIN reader = {"cmd", "began", "start", "rows", "fresh"}
    BY <1>0 DEF CompileTypeOK
  <2> QED BY <1>0, <2>1, <2>2 DEF CompileTypeOK
<1>3. /\ reader'.cmd = reader.cmd /\ reader'.began = reader.began /\ reader'.start = reader.start
      /\ reader'.rows = reader.rows /\ reader'.fresh = reader.fresh \ {m}
  BY <1>2
<1>4. Live \subseteq Memory /\ Live' \subseteq Memory
  BY Positions, PositionsAfter
<1>5. /\ now \in Nat /\ cursor.at \in Int /\ plan.readAt \in Int /\ reader.began \in Int
      /\ \A x \in Memory : row[x].touched \in Int
  BY <1>0, RowTypes, PlanTypes, ReaderTypes
<1>6. Planned' = Planned /\ Candidates(plan)' = Candidates(plan)
      /\ \A s : CoverageDigest(plan.batches[s])' = CoverageDigest(plan.batches[s])
  BY <1>1 DEF Planned, Candidates, CoverageDigest
(* A memory that somebody has once written stays known.                    *)
<1>7. \A x \in Memory : row[x] # Unwritten => row'[x] # Unwritten /\ (x \in Live' => x \in Live)
  BY DEF Changed
<1>8. \A x \in Live' \ {m} : x \in Live /\ row'[x] = row[x]
  BY <1>4 DEF Changed
<1>9. CompileTypeOK'
  <2>1. writes' \in 0..MaxWrites
    BY <1>0, <1>1, Sizes DEF CompileTypeOK
  <2>2. reader' \in [cmd : {"none", "plan", "profile"}, began : Stamp, start : Nat,
                     rows : SUBSET RowRead, fresh : SUBSET Memory]
    BY <1>0, <1>2, ReaderTypes
  <2>3. row' \in [Memory -> [born : Stamp, touched : Stamp]]
        /\ excused' \in [{"plan", "profile", "second"} -> SUBSET Memory]
    BY DEF Changed
  <2>4. fresh' \cup retired' \subseteq Memory
    BY <1>0, <1>1 DEF CompileTypeOK
  <2> QED BY <1>0, <1>1, <2>1, <2>2, <2>3, <2>4 DEF CompileTypeOK
<1>10. ClockOK'
  <2>1. \A x \in Live' : row'[x].touched <= now
    BY <1>0, <1>5, <1>8 DEF ClockOK, Changed
  <2>2. \A x \in Memory \ Live' : row'[x] \in {Unwritten, Deleted}
    BY <1>0, <1>4 DEF ClockOK, Changed
  <2> QED BY <1>0, <1>1, <1>3, <2>1, <2>2 DEF ClockOK
<1>11. ReaderOK'
  <2>1. \A x \in reader'.fresh : x \in Live' /\ \E r \in reader.rows : r = RowOf(x, r.page)'
    <3> SUFFICES ASSUME NEW x \in reader'.fresh
                 PROVE  x \in Live' /\ \E r \in reader.rows : r = RowOf(x, r.page)'
      OBVIOUS
    <3>1. x \in Live /\ x # m /\ \E r \in reader.rows : r = RowOf(x, r.page)
      BY <1>0, <1>3 DEF ReaderOK
    <3>2. x \in Live' /\ row'[x] = row[x]
      BY <1>4, <3>1 DEF Changed
    <3>3. \A start : RowOf(x, start)' = RowOf(x, start)
      BY <3>2 DEF RowOf
    <3> QED BY <3>1, <3>2, <3>3
  <2>2. \A r \in reader.rows : r.page < reader.start /\ row'[r.id] # Unwritten
    <3>1. \A r \in reader.rows : r.id \in Memory
      BY <1>0, ReaderTypes DEF RowRead
    <3> QED BY <1>0, <1>7, <3>1 DEF ReaderOK
  <2>3. pass' = NoPass \/ reader' = Idle
    <3>1. reader = Idle => reader' = Idle
      BY <1>2 DEF Idle
    <3> QED BY <1>0, <1>1, <3>1 DEF ReaderOK
  <2> QED BY <1>0, <1>3, <2>1, <2>2, <2>3 DEF ReaderOK
<1>12. AheadOfPlan'
  <2> SUFFICES ASSUME reader.cmd = "plan", NEW x \in Live', row'[x].touched < reader.began
               PROVE  x \in reader'.fresh \cup excused'["plan"] \/ Position(x)' > reader.start
    BY <1>3 DEF AheadOfPlan
  <2>1. x # m
    BY <1>0, <1>5 DEF ClockOK, Changed
  <2>2. x \in Live /\ row'[x] = row[x]
    BY <1>8, <2>1
  <2>3. x \in reader.fresh \cup excused["plan"] \/ Position(x) > reader.start
    BY <1>0, <2>2 DEF AheadOfPlan
  <2> QED BY <1>3, <2>1, <2>2, <2>3 DEF Changed
<1>13. \A x \in Live' \cap Planned : x \in Live
  BY <1>0, <1>4, <1>7 DEF PlanOK
<1>14. AheadOfProfile'
  <2> SUFFICES ASSUME reader.cmd = "profile", NEW x \in Live' \cap Planned
               PROVE  x \in {r.id : r \in reader.rows} \cup excused'["profile"]
                      \/ Position(x)' > reader.start
    BY <1>3, <1>6 DEF AheadOfProfile
  <2>1. x \in {r.id : r \in reader.rows} \cup excused["profile"] \/ Position(x) > reader.start
    BY <1>0, <1>13 DEF AheadOfProfile
  <2> QED BY <1>13, <2>1 DEF Changed
<1>15. PlanOK'
  <2>1. \A x \in Planned : row'[x] # Unwritten
    BY <1>0, <1>7, NamedTypes DEF PlanOK
  <2>2. \A x \in Live' : row'[x].touched < plan.readAt => x \in fresh' \cup excused'["plan"]
    <3> SUFFICES ASSUME NEW x \in Live', row'[x].touched < plan.readAt
                 PROVE  x \in fresh' \cup excused'["plan"]
      OBVIOUS
    <3>1. x # m
      BY <1>0, <1>5 DEF ClockOK, Changed
    <3>2. x \in fresh \cup excused["plan"]
      BY <1>0, <1>8, <3>1 DEF PlanOK
    <3> QED BY <1>1, <3>1, <3>2 DEF Changed
  <2>3. \A x \in fresh' : /\ x \in Live'
                          /\ cursor.at = Never \/ row'[x].touched > cursor.at
                                => x \in Named(selected)
    <3>1. \A x \in fresh' : x \in fresh /\ x # m /\ x \in Live
      BY <1>0, <1>1 DEF PlanOK
    <3>2. \A x \in fresh' : x \in Live' /\ row'[x] = row[x]
      BY <1>4, <3>1 DEF Changed
    <3> QED BY <1>0, <3>1, <3>2 DEF PlanOK
  <2> QED BY <1>0, <1>1, <1>6, <2>1, <2>2, <2>3 DEF PlanOK
<1>16. PlanInv'
  <2>1. fresh' \cap Live' \subseteq fresh \cap Live
    BY <1>1, <1>8
  <2>2. PlanIsAPartition'
    BY <1>0, <1>1 DEF PlanInv, PlanIsAPartition
  <2>3. SessionsAreWhole'
    BY <1>0, <1>1, <2>1 DEF PlanInv, SessionsAreWhole
  <2> QED BY <2>2, <2>3 DEF PlanInv
<1>17. ArtOK'
  <2> SUFFICES ASSUME NEW s \in DOMAIN art, NEW x \in art[s].blank
               PROVE  row'[x] # Unwritten /\ (x \in Live' => x \in excused'["profile"])
    BY <1>1 DEF ArtOK
  <2>1. x \in Memory /\ row[x] # Unwritten
    BY <1>0 DEF ArtOK, CompileTypeOK, Artifact
  <2>2. x \in Live => x \in excused["profile"]
    BY <1>0 DEF ArtOK
  <2> QED BY <1>7, <2>1, <2>2 DEF Changed
<1>18. \A s : Done(s) => Done(s)'
  <2>1. \A s \in DOMAIN art : art[s].blank \cap Live' \subseteq excused'["profile"]
    BY <1>1, <1>17 DEF ArtOK
  <2> QED BY <1>1, <1>6, <2>1 DEF Done
<1>19. PassOK'
  <2>1. Live' \cap Planned \subseteq (Live \cap Planned) \cap Live'
    BY <1>13
  <2>2. pass.todo # {} => Live' \cap Planned \subseteq pass.texts \cup excused'["profile"]
    BY <1>0, <2>1 DEF PassOK, Changed
  <2> QED BY <1>0, <1>1, <1>6, <1>18, <2>2 DEF PassOK
<1>20. FinishedOK'
  BY <1>0, <1>1, <1>6, <1>18 DEF FinishedOK
<1>21. CursorOK'
  <2> SUFFICES ASSUME cursor.at # Never, NEW x \in Live'
               PROVE  \/ x \in retired' \cup excused'["second"] \cup excused'["plan"]
                      \/ row'[x].touched > cursor.at
    BY <1>1 DEF CursorOK
  <2>1. CASE x = m
    BY <1>0, <1>5, <2>1 DEF ClockOK, Changed
  <2>2. CASE x # m
    <3>1. x \in retired \cup excused["second"] \cup excused["plan"] \/ row[x].touched > cursor.at
      BY <1>0, <1>8, <2>2 DEF CursorOK
    <3> QED BY <1>1, <1>8, <2>2, <3>1 DEF Changed
  <2> QED BY <2>1, <2>2
<1>22. EveryReadingIsKept'
  BY <1>0, <1>1 DEF EveryReadingIsKept
<1> QED BY <1>9, <1>10, <1>11, <1>12, <1>14, <1>15, <1>16, <1>17, <1>19, <1>20, <1>21, <1>22,
           Together

LEMMA WriteKeeps ==
  ASSUME CompileInv, NEW m \in Memory, Write(m)
  PROVE  CompileInv'
<1>0. CompileTypeOK /\ ClockOK
  BY Parts
<1>1. /\ now \in Nat /\ now \in Stamp /\ row[m] \in [born : Stamp, touched : Stamp]
      /\ \A x \in Memory : row[x] \in [born : Stamp, touched : Stamp]
  BY <1>0, RowTypes
<1>2. row' = [x \in Memory |-> IF x = m
                 THEN [born |-> IF row[m].born = Never THEN now ELSE row[m].born,
                       touched |-> now]
                 ELSE row[x]]
  <2>1. row' = [row EXCEPT ![m] = [born |-> IF @.born = Never THEN now ELSE @.born,
                                   touched |-> now]]
    BY DEF Write
  <2>2. DOMAIN row = Memory /\ row = [x \in Memory |-> row[x]]
    BY <1>0 DEF CompileTypeOK
  <2> QED BY <2>1, <2>2
<1>3. row'[m].touched = now /\ row'[m].born # Never /\ \A x \in Memory \ {m} : row'[x] = row[x]
  BY <1>1, <1>2 DEF Never
<1>4. row' \in [Memory -> [born : Stamp, touched : Stamp]]
  BY <1>1, <1>2
<1>5. Live' = Live \cup {m}
  BY <1>3 DEF Live
<1>6. excused' = [excused EXCEPT !["plan"] = @ \ {m},
                                  !["second"] = IF now = cursor.at THEN @ \cup {m} ELSE @ \ {m}]
  BY DEF Write
<1>7. /\ excused' \in [{"plan", "profile", "second"} -> SUBSET Memory]
      /\ excused'["plan"] = excused["plan"] \ {m} /\ excused'["profile"] = excused["profile"]
      /\ excused'["second"] = IF now = cursor.at THEN excused["second"] \cup {m}
                              ELSE excused["second"] \ {m}
  BY <1>0, <1>6 DEF CompileTypeOK
<1>8. row[m] # Deleted /\ (m \notin Live => row[m] = Unwritten)
  BY <1>0 DEF Write, ClockOK
<1>9. \A x \in Live : Position(x)' >= Position(x) /\ Position(x)' \in Nat /\ Position(x) \in Nat
  BY <1>5, Positions, PositionsAfter, PlacesGrow
<1>10. \A x \in Live : Position(x) > reader.start => Position(x)' > reader.start
  BY <1>0, <1>9, ReaderTypes
<1>11. Changed(m)
  <2>1. row'[m] # Unwritten
    BY <1>3 DEF Unwritten
  <2>2. m \in Live'
    BY <1>5
  <2> QED BY <1>3, <1>4, <1>5, <1>7, <1>8, <1>10, <2>1, <2>2 DEF Changed
<1> QED BY <1>11, ChangesKeep DEF Write

LEMMA DeleteKeeps ==
  ASSUME CompileInv, NEW m \in Memory, Delete(m)
  PROVE  CompileInv'
<1>0. CompileTypeOK /\ ClockOK
  BY Parts
<1>1. /\ MaxTime + 1 \in Stamp /\ Never \in Stamp
      /\ \A x \in Memory : row[x] \in [born : Stamp, touched : Stamp]
  BY <1>0, RowTypes
<1>2. m \in Live
  BY DEF Delete
<1>3. row' = [x \in Memory |-> IF x = m THEN Deleted ELSE row[x]]
  BY <1>0 DEF Delete, CompileTypeOK
<1>4. row'[m] = Deleted /\ \A x \in Memory \ {m} : row'[x] = row[x]
  BY <1>3
<1>5. row' \in [Memory -> [born : Stamp, touched : Stamp]]
  BY <1>1, <1>3 DEF Deleted
<1>6. Live' = Live \ {m}
  BY <1>4 DEF Live, Deleted
<1> DEFINE moved == {x \in Live : Position(x) = reader.start + 1 /\ m < x}
<1>7. excused' = [why \in DOMAIN excused |->
                     (excused[why] \ {m}) \cup IF why = reader.cmd THEN moved ELSE {}]
  BY DEF Delete
<1>8. moved \subseteq Memory
  BY Positions
<1> HIDE DEF moved
<1>9. /\ excused' \in [{"plan", "profile", "second"} -> SUBSET Memory]
      /\ \A why \in {"plan", "profile", "second"} :
            /\ excused[why] \ {m} \subseteq excused'[why]
            /\ why = reader.cmd => moved \subseteq excused'[why]
  BY <1>0, <1>7, <1>8 DEF CompileTypeOK
<1>10. \A x \in Live' : Position(x) > reader.start => Position(x)' > reader.start \/ x \in moved
  <2> SUFFICES ASSUME NEW x \in Live', Position(x) > reader.start, ~(Position(x)' > reader.start)
               PROVE  x \in moved
    OBVIOUS
  <2>1. x \in Live \ {m} /\ Live \in SUBSET Memory /\ reader.start \in Nat
    BY <1>0, <1>6, Positions, ReaderTypes
  <2>2. Position(x) = Cardinality(UpTo(Live, x)) /\ Position(x)' = Cardinality(UpTo(Live \ {m}, x))
        /\ Position(x) \in Nat
    BY <1>6, <2>1, Positions, PositionsAfter
  <2>3. Position(x)' = IF m < x THEN Position(x) - 1 ELSE Position(x)
    BY <1>2, <2>1, <2>2, PlacesShift
  <2>4. m < x /\ Position(x) = reader.start + 1
    BY <2>1, <2>2, <2>3
  <2> QED BY <2>1, <2>4 DEF moved
<1>11. reader.cmd \in {"none", "plan", "profile"}
  BY <1>0, ReaderTypes
<1>12. Changed(m)
  <2>1. row'[m] # Unwritten
    BY <1>1, <1>4, Sizes DEF Deleted, Unwritten, Never
  <2>2. m \notin Live'
    BY <1>6
  <2>3. \A x \in Live \cap Live' :
          Position(x) > reader.start =>
              \/ Position(x)' > reader.start
              \/ reader.cmd = "plan" /\ x \in excused'["plan"]
              \/ reader.cmd = "profile" /\ x \in excused'["profile"]
              \/ reader.cmd = "none"
    BY <1>9, <1>10, <1>11
  <2>4. /\ excused["plan"] \ {m} \subseteq excused'["plan"]
        /\ excused["second"] \ {m} \subseteq excused'["second"]
        /\ excused["profile"] \cap Live' \subseteq excused'["profile"]
    BY <1>9, <2>2
  <2> QED BY <1>4, <1>5, <1>6, <1>9, <2>1, <2>2, <2>3, <2>4 DEF Changed
<1> QED BY <1>12, ChangesKeep DEF Delete

-------------------------------------------------------------------------------
(* Planning: rows in order.                                                *)

LEMMA Quotient ==
  ASSUME NEW a \in Nat, NEW b \in Nat \ {0}
  PROVE  /\ a \div b \in Nat /\ b * (a \div b) <= a /\ a < b * (a \div b) + b
OBVIOUS

LEMMA Times ==
  ASSUME NEW b \in Nat \ {0}, NEW p \in Nat, NEW q \in Nat, p < q
  PROVE  b * p + b <= b * q
OBVIOUS

LEMMA TimesT ==
  ASSUME NEW b \in Nat \ {0}, NEW p \in Nat
  PROVE  b * p \in Nat
OBVIOUS

LEMMA QuotientIs ==
  ASSUME NEW a \in Nat, NEW b \in Nat \ {0}, NEW q \in Nat, b * q <= a, a < b * q + b
  PROVE  a \div b = q
<1>1. /\ a \div b \in Nat /\ b * (a \div b) <= a /\ a < b * (a \div b) + b
  BY Quotient
<1> DEFINE p == a \div b
<1> HIDE DEF p
<1>2. p \in Nat /\ b * p <= a /\ a < b * p + b
  BY <1>1 DEF p
<1>3. ~(p < q)
  <2> SUFFICES ASSUME p < q PROVE FALSE
    OBVIOUS
  <2>1. b * p + b <= b * q
    BY <1>2, Times
  <2>2. b * p \in Nat /\ b * q \in Nat
    BY <1>2, TimesT
  <2> QED BY <1>2, <2>1, <2>2
<1>4. ~(q < p)
  <2> SUFFICES ASSUME q < p PROVE FALSE
    OBVIOUS
  <2>1. b * q + b <= b * p
    BY <1>2, Times
  <2>2. b * p \in Nat /\ b * q \in Nat
    BY <1>2, TimesT
  <2> QED BY <1>2, <2>1, <2>2
<1>5. p = q
  BY <1>2, <1>3, <1>4
<1> QED BY <1>5 DEF p

(* A set of rows read in which no row is read twice on the same page.      *)
RowsRead(X) ==
    /\ X \in SUBSET RowRead /\ IsFiniteSet(X)
    /\ \A r, q \in X : r.id = q.id /\ r.page = q.page => r = q

LEMMA RowFields ==
  ASSUME NEW r \in RowRead
  PROVE  r.id \in Memory /\ r.id \in Nat /\ r.page \in Nat /\ r.born \in Int /\ r.touched \in Int
<1>1. Stamp \subseteq Int
  BY Sizes DEF Stamp, Never
<1>2. r.id \in Memory /\ r.page \in Nat /\ r.born \in Stamp /\ r.touched \in Stamp
  BY DEF RowRead
<1> QED BY <1>1, <1>2, MemoryIsFinite

LEMMA PartsAreRead ==
  ASSUME NEW W, RowsRead(W), NEW X, X \subseteq W
  PROVE  RowsRead(X) /\ IsFiniteSet(X) /\ Cardinality(X) \in Nat
BY FS_Subset, FS_CardinalityType DEF RowsRead

(* Before is a strict total order on rows read.                            *)
LEMMA BeforeOrders ==
  ASSUME NEW W, RowsRead(W)
  PROVE  /\ \A r \in W : ~Before(r, r)
         /\ \A r, q \in W : r = q \/ Before(r, q) \/ Before(q, r)
         /\ \A r, q, x \in W : Before(x, r) /\ Before(r, q) => Before(x, q)
<1>1. \A r \in W : r.id \in Nat /\ r.page \in Nat /\ r.born \in Int
  BY RowFields DEF RowsRead
<1>2. \A r \in W : ~Before(r, r)
  BY <1>1 DEF Before
<1>3. \A r, q \in W : r = q \/ Before(r, q) \/ Before(q, r)
  BY <1>1 DEF Before, RowsRead
<1>4. \A r, q, x \in W : Before(x, r) /\ Before(r, q) => Before(x, q)
  BY <1>1 DEF Before
<1> QED BY <1>2, <1>3, <1>4

LEMMA Ordinals ==
  ASSUME NEW X, RowsRead(X)
  PROVE  /\ \A r \in X : Ordinal(X, r) \in 0..(Cardinality(X) - 1)
         /\ \A r, q \in X : Before(r, q) => Ordinal(X, r) < Ordinal(X, q)
         /\ \A r, q \in X : Ordinal(X, r) = Ordinal(X, q) => r = q
<1> DEFINE below(r) == {x \in X : Before(x, r)}
<1>1. \A r : below(r) \subseteq X /\ Ordinal(X, r) = Cardinality(below(r))
  BY DEF Ordinal
<1>2. \A r \in X : r \notin below(r)
  BY BeforeOrders
<1>3. \A r, q \in X : Before(r, q) => below(r) \subseteq below(q) /\ r \in below(q)
  BY BeforeOrders
<1> HIDE DEF below
<1>4. IsFiniteSet(X) /\ Cardinality(X) \in Nat
      /\ \A r : IsFiniteSet(below(r)) /\ Cardinality(below(r)) \in Nat
  BY <1>1, PartsAreRead
<1>5. \A r \in X : Cardinality(below(r)) <= Cardinality(X) /\ Cardinality(below(r)) # Cardinality(X)
  <2> TAKE r \in X
  <2>1. below(r) \in SUBSET X /\ below(r) # X
    BY <1>1, <1>2
  <2> QED BY <1>4, <2>1, FS_Subset
<1>6. \A r \in X : Ordinal(X, r) \in 0..(Cardinality(X) - 1)
  BY <1>1, <1>4, <1>5
<1>7. \A r, q \in X : Before(r, q) => Ordinal(X, r) < Ordinal(X, q)
  <2> SUFFICES ASSUME NEW r \in X, NEW q \in X, Before(r, q)
               PROVE  Cardinality(below(r)) < Cardinality(below(q))
    BY <1>1
  <2>1. below(r) \in SUBSET below(q) /\ below(r) # below(q)
    BY <1>2, <1>3
  <2>2. Cardinality(below(r)) <= Cardinality(below(q))
        /\ Cardinality(below(r)) # Cardinality(below(q))
    BY <1>4, <2>1, FS_Subset
  <2> QED BY <1>4, <2>2
<1>8. \A r, q \in X : Ordinal(X, r) = Ordinal(X, q) => r = q
  <2> SUFFICES ASSUME NEW r \in X, NEW q \in X, Ordinal(X, r) = Ordinal(X, q)
               PROVE  r = q
    OBVIOUS
  <2>1. Ordinal(X, r) \in Int /\ Ordinal(X, q) \in Int
    BY <1>6
  <2>2. ~Before(r, q) /\ ~Before(q, r)
    BY <1>7, <2>1
  <2> QED BY <2>2, BeforeOrders
<1> QED BY <1>6, <1>7, <1>8

(* Every place up to the number of rows is taken.                          *)
LEMMA OrdinalsAreAll ==
  ASSUME NEW X, RowsRead(X), NEW n \in 0..(Cardinality(X) - 1)
  PROVE  \E r \in X : Ordinal(X, r) = n
<1> DEFINE c == Cardinality(X)
           f == [r \in X |-> Ordinal(X, r)]
<1>1. IsFiniteSet(X) /\ c \in Nat
  BY PartsAreRead
<1> HIDE DEF c
<1>2. \A r \in X : Ordinal(X, r) \in 0..(c - 1)
  BY Ordinals DEF c
<1>3. f \in [X -> 0..(c - 1)] /\ \A r, q \in X : f[r] = f[q] => r = q
  BY <1>2, Ordinals
<1>4. f \in Injection(X, 0..(c - 1))
  <2> HIDE DEF f
  <2> QED BY <1>3 DEF Injection, IsInjective
<1>5. IsFiniteSet(0..(c - 1)) /\ Cardinality(0..(c - 1)) = c
  <2>1. 0 \in Int /\ c - 1 \in Int
    BY <1>1
  <2>2. IsFiniteSet(0..(c - 1)) /\ Cardinality(0..(c - 1)) = IF 0 > c - 1 THEN 0 ELSE c - 1 - 0 + 1
    BY <2>1, FS_Interval
  <2> QED BY <1>1, <2>2
<1>6. f \in Surjection(X, 0..(c - 1))
  <2> HIDE DEF f
  <2> QED BY <1>4, <1>5, FS_Injection DEF c
<1>7. \E r \in X : f[r] = n
  <2>1. n \in 0..(c - 1)
    BY DEF c
  <2> HIDE DEF f
  <2> QED BY <1>6, <2>1 DEF Surjection
<1> QED BY <1>7

LEMMA FirstIsOne ==
  ASSUME NEW X, RowsRead(X), X # {}
  PROVE  First(X) \in X
<1>1. IsFiniteSet(X) /\ Cardinality(X) \in Nat /\ Cardinality(X) # 0
  BY PartsAreRead, FS_EmptySet
<1>2. 0 \in 0..(Cardinality(X) - 1)
  BY <1>1
<1>3. PICK r \in X : Ordinal(X, r) = 0
  BY <1>2, OrdinalsAreAll
<1>4. \A x \in X : x = r \/ Before(r, x)
  <2> TAKE x \in X
  <2>1. Ordinal(X, x) >= 0 /\ Ordinal(X, x) \in Int
    BY Ordinals
  <2>2. ~Before(x, r)
    BY <1>3, <2>1, Ordinals
  <2> QED BY <2>2, BeforeOrders
<1> QED BY <1>4 DEF First

(* The ids of rows read tell them apart.                                   *)
LEMMA IdsTellApart ==
  ASSUME NEW W, RowsRead(W), NEW X, X \subseteq W, NEW Y, Y \subseteq W
  PROVE  /\ X \cap Y = {} => Ids(X) \cap Ids(Y) = {}
         /\ Ids(X \cup Y) = Ids(X) \cup Ids(Y)
         /\ IsFiniteSet(Ids(X)) /\ Cardinality(Ids(X)) = Cardinality(X)
         /\ Ids(X) \subseteq RowIds
<1> DEFINE f == [r \in X |-> <<r.id, r.page>>]
<1>1. \A r, q \in W : <<r.id, r.page>> = <<q.id, q.page>> => r = q
  BY DEF RowsRead
<1>2. X \cap Y = {} => Ids(X) \cap Ids(Y) = {}
  BY <1>1 DEF Ids
<1>3. Ids(X \cup Y) = Ids(X) \cup Ids(Y)
  BY DEF Ids
<1>4. f \in [X -> Ids(X)] /\ (\A r, q \in X : f[r] = f[q] => r = q)
      /\ \A i \in Ids(X) : \E r \in X : f[r] = i
  BY <1>1 DEF Ids
<1> HIDE DEF f
<1>5. f \in Surjection(X, Ids(X)) /\ f \in Injection(X, Ids(X))
  BY <1>4 DEF Surjection, Injection, IsInjective
<1>6. IsFiniteSet(X)
  BY PartsAreRead
<1>7. IsFiniteSet(Ids(X)) /\ Cardinality(Ids(X)) = Cardinality(X)
  BY <1>5, <1>6, FS_Surjection
<1>8. \A r \in X : r.id \in Memory /\ r.page \in Nat
  BY RowFields DEF RowsRead
<1>9. Ids(X) \subseteq RowIds
  BY <1>8 DEF Ids, RowIds
<1> QED BY <1>2, <1>3, <1>7, <1>9

-------------------------------------------------------------------------------
(* Planning: batches.                                                      *)

(* Batches that a session may be cut into.                                 *)
Whole(b, W) ==
    b.kind = "session-part" \/
    \A i \in b.ids, j \in Ids(W) :
        SessionOf[i[1]] # NoSession /\ SessionOf[j[1]] = SessionOf[i[1]] => j \in b.ids

(* B plans the rows X, of all the rows W that are to be planned.           *)
PlansRows(B, X, W) ==
    /\ B \in Seq(BatchType)
    /\ UNION {B[s].ids : s \in DOMAIN B} = Ids(X)
    /\ \A s, t \in DOMAIN B : s # t => B[s].ids \cap B[t].ids = {}
    /\ \A s \in DOMAIN B : /\ IsFiniteSet(B[s].ids) /\ Cardinality(B[s].ids) \in 1..MaxMemories
                           /\ Whole(B[s], W)

LEMMA NothingPlanned ==
  ASSUME NEW W
  PROVE  PlansRows(<<>>, {}, W)
<1>1. <<>> \in Seq(BatchType) /\ DOMAIN <<>> = {}
  OBVIOUS
<1>2. Ids({}) = {}
  BY DEF Ids
<1> QED BY <1>1, <1>2 DEF PlansRows

(* Two plans, one after the other.                                         *)
LEMMA PlansJoin ==
  ASSUME NEW W, RowsRead(W), NEW X, X \subseteq W, NEW Y, Y \subseteq W, X \cap Y = {},
         NEW B, PlansRows(B, X, W), NEW C, PlansRows(C, Y, W)
  PROVE  PlansRows(B \o C, X \cup Y, W)
<1> DEFINE J == B \o C
<1>1. B \in Seq(BatchType) /\ C \in Seq(BatchType)
  BY DEF PlansRows
<1>2. /\ Len(B) \in Nat /\ Len(C) \in Nat /\ DOMAIN B = 1..Len(B) /\ DOMAIN C = 1..Len(C)
  BY <1>1, LenProperties
<1>3. /\ J \in Seq(BatchType) /\ Len(J) = Len(B) + Len(C) /\ DOMAIN J = 1..Len(J)
      /\ \A i \in 1..(Len(B) + Len(C)) : J[i] = IF i <= Len(B) THEN B[i] ELSE C[i - Len(B)]
  BY <1>1, ConcatProperties, LenProperties
<1> HIDE DEF J
<1>4. /\ Ids(X) \cap Ids(Y) = {} /\ Ids(X \cup Y) = Ids(X) \cup Ids(Y)
  BY IdsTellApart
<1>5. \A s \in DOMAIN J : \/ s \in DOMAIN B /\ J[s] = B[s]
                          \/ s - Len(B) \in DOMAIN C /\ J[s] = C[s - Len(B)] /\ s \notin DOMAIN B
  BY <1>2, <1>3
<1>6. /\ \A s \in DOMAIN B : s \in DOMAIN J /\ J[s] = B[s]
      /\ \A s \in DOMAIN C : s + Len(B) \in DOMAIN J /\ J[s + Len(B)] = C[s]
  <2>1. \A s \in DOMAIN C : s + Len(B) \in 1..(Len(B) + Len(C)) /\ ~(s + Len(B) <= Len(B))
                            /\ s + Len(B) - Len(B) = s
    BY <1>2
  <2>2. \A s \in DOMAIN B : s \in 1..(Len(B) + Len(C)) /\ s <= Len(B)
    BY <1>2
  <2> QED BY <1>3, <2>1, <2>2
<1>7. /\ \A s \in DOMAIN B : B[s].ids \subseteq Ids(X)
      /\ \A s \in DOMAIN C : C[s].ids \subseteq Ids(Y)
  BY DEF PlansRows
<1>8. UNION {J[s].ids : s \in DOMAIN J} = Ids(X) \cup Ids(Y)
  <2>1. \A s \in DOMAIN J : J[s].ids \subseteq Ids(X) \cup Ids(Y)
    BY <1>5, <1>7
  <2>2. \A i \in Ids(X) : \E s \in DOMAIN J : i \in J[s].ids
    <3> TAKE i \in Ids(X)
    <3>1. \E s \in DOMAIN B : i \in B[s].ids
      BY DEF PlansRows
    <3> QED BY <1>6, <3>1
  <2>3. \A i \in Ids(Y) : \E s \in DOMAIN J : i \in J[s].ids
    <3> TAKE i \in Ids(Y)
    <3>1. \E s \in DOMAIN C : i \in C[s].ids
      BY DEF PlansRows
    <3> QED BY <1>6, <3>1
  <2> QED BY <2>1, <2>2, <2>3
<1>9. \A s, t \in DOMAIN J : s # t => J[s].ids \cap J[t].ids = {}
  <2> SUFFICES ASSUME NEW s \in DOMAIN J, NEW t \in DOMAIN J, s # t
               PROVE  J[s].ids \cap J[t].ids = {}
    OBVIOUS
  <2>1. CASE s \in DOMAIN B /\ t \in DOMAIN B
    BY <1>6, <2>1 DEF PlansRows
  <2>2. CASE s \in DOMAIN B /\ t \notin DOMAIN B
    BY <1>4, <1>5, <1>6, <1>7, <2>2
  <2>3. CASE s \notin DOMAIN B /\ t \in DOMAIN B
    BY <1>4, <1>5, <1>6, <1>7, <2>3
  <2>4. CASE s \notin DOMAIN B /\ t \notin DOMAIN B
    <3>1. s - Len(B) # t - Len(B)
      BY <1>2, <1>3
    <3> QED BY <1>5, <2>4, <3>1 DEF PlansRows
  <2> QED BY <2>1, <2>2, <2>3, <2>4
<1>10. \A s \in DOMAIN J : /\ IsFiniteSet(J[s].ids) /\ Cardinality(J[s].ids) \in 1..MaxMemories
                           /\ Whole(J[s], W)
  <2>1. /\ \A s \in DOMAIN B : /\ IsFiniteSet(B[s].ids) /\ Cardinality(B[s].ids) \in 1..MaxMemories
                               /\ Whole(B[s], W)
        /\ \A s \in DOMAIN C : /\ IsFiniteSet(C[s].ids) /\ Cardinality(C[s].ids) \in 1..MaxMemories
                               /\ Whole(C[s], W)
    BY DEF PlansRows
  <2> TAKE s \in DOMAIN J
  <2>2. CASE s \in DOMAIN B
    BY <1>6, <2>1, <2>2
  <2>3. CASE s \notin DOMAIN B
    BY <1>5, <2>1, <2>3
  <2> QED BY <2>2, <2>3
<1>11. UNION {J[s].ids : s \in DOMAIN J} = Ids(X \cup Y)
  BY <1>4, <1>8
<1>12. PlansRows(J, X \cup Y, W)
  BY <1>3, <1>9, <1>10, <1>11 DEF PlansRows
<1> QED BY <1>12 DEF J

(* One batch.                                                              *)
LEMMA OneBatch ==
  ASSUME NEW W, RowsRead(W), NEW X, X \subseteq W,
         NEW b \in BatchType, b.ids = Ids(X), X # {}, Cardinality(X) <= MaxMemories, Whole(b, W)
  PROVE  PlansRows(<<b>>, X, W)
<1> DEFINE S == <<b>>
<1>1. S \in Seq(BatchType) /\ DOMAIN S = {1} /\ S[1] = b
  OBVIOUS
<1> HIDE DEF S
<1>2. IsFiniteSet(X) /\ Cardinality(X) \in Nat /\ Cardinality(X) # 0
  BY PartsAreRead, FS_EmptySet
<1>3. IsFiniteSet(Ids(X)) /\ Cardinality(Ids(X)) = Cardinality(X)
  BY IdsTellApart
<1>4. Cardinality(Ids(X)) \in 1..MaxMemories
  BY <1>2, <1>3, Sizes
<1>5. UNION {S[s].ids : s \in DOMAIN S} = Ids(X)
  BY <1>1
<1>6. PlansRows(S, X, W)
  BY <1>1, <1>3, <1>4, <1>5 DEF PlansRows
<1> QED BY <1>6 DEF S

(* Chunks: at most MaxMemories rows in each, in order.                     *)
LEMMA ChunkFits ==
  ASSUME NEW X, RowsRead(X), NEW q \in Nat
  PROVE  LET C == {r \in X : Ordinal(X, r) \div MaxMemories = q}
         IN  IsFiniteSet(C) /\ Cardinality(C) \in Nat /\ Cardinality(C) <= MaxMemories
<1> DEFINE C == {r \in X : Ordinal(X, r) \div MaxMemories = q}
           f == [r \in C |-> Ordinal(X, r)]
           T == (MaxMemories * q)..(MaxMemories * q + MaxMemories - 1)
<1>1. MaxMemories \in Nat \ {0}
  BY Sizes
<1>2. MaxMemories * q \in Nat
  BY <1>1, TimesT
<1>3. IsFiniteSet(C) /\ Cardinality(C) \in Nat
  BY PartsAreRead
<1>4. \A r \in C : Ordinal(X, r) \in T
  <2> TAKE r \in C
  <2>1. Ordinal(X, r) \in Nat
    BY Ordinals, PartsAreRead
  <2>2. Ordinal(X, r) \div MaxMemories = q
    OBVIOUS
  <2>3. /\ MaxMemories * q <= Ordinal(X, r)
        /\ Ordinal(X, r) < MaxMemories * q + MaxMemories
    BY <1>1, <2>1, <2>2, Quotient
  <2> QED BY <1>1, <1>2, <2>1, <2>3
<1>5. \A r, s \in C : Ordinal(X, r) = Ordinal(X, s) => r = s
  BY Ordinals
<1>6. IsFiniteSet(T) /\ Cardinality(T) = MaxMemories
  <2> DEFINE a == MaxMemories * q
             b == MaxMemories * q + MaxMemories - 1
  <2>1. a \in Int /\ b \in Int /\ ~(a > b) /\ b - a + 1 = MaxMemories
    BY <1>1, <1>2
  <2>2. T = a..b
    OBVIOUS
  <2> HIDE DEF a, b, T
  <2> QED BY <2>1, <2>2, FS_Interval
<1> HIDE DEF T, C
<1>7. f \in [C -> T] /\ \A r, s \in C : f[r] = f[s] => r = s
  BY <1>4, <1>5
<1> HIDE DEF f
<1>8. f \in Injection(C, T)
  BY <1>7 DEF Injection, IsInjective
<1>9. Cardinality(C) <= MaxMemories
  BY <1>6, <1>8, FS_Injection
<1> QED BY <1>3, <1>9 DEF C

LEMMA ChunksPlan ==
  ASSUME NEW W, RowsRead(W), NEW X, X \subseteq W, NEW kind \in {"session-part", "ledger"},
         kind = "ledger" => \A r \in X : SessionOf[r.id] = NoSession
  PROVE  PlansRows(Chunks(kind, X), X, W)
<1> DEFINE c == Cardinality(X)
           last == (c + MaxMemories - 1) \div MaxMemories
           C(n) == {r \in X : Ordinal(X, r) \div MaxMemories = n - 1}
           J == Chunks(kind, X)
<1>1. IsFiniteSet(X) /\ c \in Nat /\ RowsRead(X) /\ MaxMemories \in Nat \ {0}
  BY PartsAreRead, Sizes
<1>2. /\ last \in Nat /\ MaxMemories * last \in Nat
      /\ MaxMemories * last <= c + MaxMemories - 1
      /\ c + MaxMemories - 1 < MaxMemories * last + MaxMemories
  <2>1. c + MaxMemories - 1 \in Nat
    BY <1>1
  <2> HIDE DEF c
  <2>2. /\ last \in Nat
        /\ MaxMemories * last <= c + MaxMemories - 1
        /\ c + MaxMemories - 1 < MaxMemories * last + MaxMemories
    BY <1>1, <2>1, Quotient
  <2> HIDE DEF last
  <2> QED BY <1>1, <2>2, TimesT
<1>3. /\ DOMAIN J = 1..last /\ \A n \in 1..last : J[n] = Batch(kind, C(n))
      /\ J = [n \in 1..last |-> Batch(kind, C(n))]
  BY DEF Chunks
<1>4. \A r \in X : Ordinal(X, r) \in Nat /\ Ordinal(X, r) <= c - 1
  BY <1>1, Ordinals
<1> HIDE DEF last, J
<1>5. \A r \in X : \E n \in 1..last : r \in C(n)
  <2> TAKE r \in X
  <2> DEFINE o == Ordinal(X, r)
             q == o \div MaxMemories
  <2>1. o \in Nat /\ o <= c - 1
    BY <1>4
  <2> HIDE DEF o
  <2>2. q \in Nat /\ MaxMemories * q <= o
    BY <1>1, <2>1, Quotient
  <2>3. q = q + 1 - 1
    BY <2>2
  <2>4. q + 1 \in Nat /\ r \in C(q + 1)
    BY <2>2, <2>3 DEF o
  <2> HIDE DEF q, C, c
  <2>5. MaxMemories * q \in Nat
    BY <1>1, <2>2, TimesT
  <2>6. MaxMemories * q < MaxMemories * last
    BY <1>1, <1>2, <2>1, <2>2, <2>5
  <2>7. q < last
    <3> SUFFICES ASSUME ~(q < last) PROVE FALSE
      OBVIOUS
    <3>1. CASE q = last
      BY <2>6, <3>1, <1>2
    <3>2. CASE last < q
      <4>1. MaxMemories * last + MaxMemories <= MaxMemories * q
        BY <1>1, <1>2, <2>2, <3>2, Times
      <4> QED BY <1>1, <1>2, <2>5, <2>6, <4>1
    <3> QED BY <1>2, <2>2, <3>1, <3>2
  <2>8. q + 1 \in 1..last
    BY <1>2, <2>2, <2>7
  <2> QED BY <2>4, <2>8
<1>6. \A n \in 1..last : C(n) # {}
  <2> TAKE n \in 1..last
  <2>1. n - 1 \in Nat /\ n - 1 < last
    BY <1>2
  <2>2. MaxMemories * (n - 1) + MaxMemories <= MaxMemories * last
    BY <1>1, <1>2, <2>1, Times
  <2>3. MaxMemories * (n - 1) \in Nat
    BY <1>1, <2>1, TimesT
  <2>4. MaxMemories * (n - 1) \in 0..(c - 1)
    <3> HIDE DEF c
    <3> QED BY <1>1, <1>2, <2>2, <2>3
  <2>5. PICK r \in X : Ordinal(X, r) = MaxMemories * (n - 1)
    BY <1>1, <2>4, OrdinalsAreAll
  <2>6. (MaxMemories * (n - 1)) \div MaxMemories = n - 1
    BY <1>1, <2>1, <2>3, QuotientIs
  <2> QED BY <2>5, <2>6
<1>7. \A n \in 1..last : /\ C(n) \subseteq X /\ IsFiniteSet(C(n))
                         /\ Cardinality(C(n)) \in Nat /\ Cardinality(C(n)) <= MaxMemories
  <2> TAKE n \in 1..last
  <2>1. n - 1 \in Nat
    BY <1>2
  <2> QED BY <1>1, <2>1, ChunkFits
<1>8. \A n, m \in 1..last : n # m => C(n) \cap C(m) = {}
  BY <1>2
<1> HIDE DEF C, c
<1>9. \A n \in 1..last :
        /\ Ids(C(n)) \subseteq RowIds /\ Ids(C(n)) \subseteq Ids(X)
        /\ IsFiniteSet(Ids(C(n))) /\ Cardinality(Ids(C(n))) \in 1..MaxMemories
  <2> TAKE n \in 1..last
  <2>1. C(n) \subseteq W
    BY <1>7
  <2>2. /\ IsFiniteSet(Ids(C(n))) /\ Cardinality(Ids(C(n))) = Cardinality(C(n))
        /\ Ids(C(n)) \subseteq RowIds
    BY <2>1, IdsTellApart
  <2>3. Cardinality(C(n)) # 0
    BY <1>6, <1>7, FS_EmptySet
  <2>4. Ids(C(n)) \subseteq Ids(X)
    BY <1>7 DEF Ids
  <2> QED BY <1>1, <1>7, <2>2, <2>3, <2>4
<1>10. \A n \in 1..last : J[n].kind = kind /\ J[n].ids = Ids(C(n)) /\ J[n] \in BatchType
  BY <1>3, <1>9 DEF Batch, BatchType
<1>11. J \in Seq(BatchType)
  BY <1>2, <1>3, <1>10
<1>12. UNION {J[s].ids : s \in DOMAIN J} = Ids(X)
  <2>1. \A s \in DOMAIN J : J[s].ids \subseteq Ids(X)
    BY <1>3, <1>9, <1>10
  <2>2. \A i \in Ids(X) : \E s \in DOMAIN J : i \in J[s].ids
    <3> TAKE i \in Ids(X)
    <3>1. PICK r \in X : i = <<r.id, r.page>>
      BY DEF Ids
    <3>2. PICK n \in 1..last : r \in C(n)
      BY <1>5
    <3>3. i \in Ids(C(n))
      BY <3>1, <3>2 DEF Ids
    <3> QED BY <1>3, <1>10, <3>2, <3>3
  <2> QED BY <2>1, <2>2
<1>13. \A s, t \in DOMAIN J : s # t => J[s].ids \cap J[t].ids = {}
  <2> SUFFICES ASSUME NEW s \in 1..last, NEW t \in 1..last, s # t
               PROVE  J[s].ids \cap J[t].ids = {}
    BY <1>3
  <2>1. C(s) \subseteq W /\ C(t) \subseteq W /\ C(s) \cap C(t) = {}
    BY <1>7, <1>8
  <2>2. Ids(C(s)) \cap Ids(C(t)) = {}
    BY <2>1, IdsTellApart
  <2> QED BY <1>10, <2>2
<1>14. \A s \in DOMAIN J : Whole(J[s], W)
  <2> TAKE s \in DOMAIN J
  <2>1. s \in 1..last
    BY <1>3
  <2>2. CASE kind = "session-part"
    BY <1>10, <2>1, <2>2 DEF Whole
  <2>3. CASE kind = "ledger"
    <3>1. \A i \in Ids(X) : SessionOf[i[1]] = NoSession
      BY <2>3 DEF Ids
    <3>2. \A i \in J[s].ids : SessionOf[i[1]] = NoSession
      BY <1>9, <1>10, <2>1, <3>1
    <3> QED BY <3>2 DEF Whole
  <2> QED BY <2>2, <2>3
<1>15. \A s \in DOMAIN J : IsFiniteSet(J[s].ids) /\ Cardinality(J[s].ids) \in 1..MaxMemories
  BY <1>3, <1>9, <1>10
<1>16. PlansRows(J, X, W)
  BY <1>11, <1>12, <1>13, <1>14, <1>15 DEF PlansRows
<1> QED BY <1>16 DEF J

-------------------------------------------------------------------------------
(* Planning: placing the sessions.                                         *)

Placing(W) == [done : Seq(BatchType), pending : SUBSET SUBSET W, left : SUBSET W]

(* These rows hold their sessions whole.                                   *)
WholeIn(X, W) ==
    /\ X \subseteq W
    /\ \A r \in X : /\ SessionOf[r.id] # NoSession
                    /\ \A x \in W : SessionOf[x.id] = SessionOf[r.id] => x \in X

(* What has been placed, T, is in a batch or waits in the pack.            *)
SoundFor(p, T, W) ==
    /\ T \subseteq W /\ UNION p.pending \subseteq T
    /\ PlansRows(p.done, T \ UNION p.pending, W)
    /\ \A g \in p.pending : g # {} /\ WholeIn(g, W)
    /\ Cardinality(UNION p.pending) <= MaxMemories

LEMMA PlacingFields ==
  ASSUME NEW W, NEW p \in Placing(W), NEW x
  PROVE  /\ p.done \in Seq(BatchType) /\ p.left \in SUBSET W /\ p.pending \in SUBSET SUBSET W
         /\ p = [done |-> p.done, pending |-> p.pending, left |-> p.left]
         /\ [p EXCEPT !.done = x] = [done |-> x, pending |-> p.pending, left |-> p.left]
         /\ [p EXCEPT !.pending = x] = [done |-> p.done, pending |-> x, left |-> p.left]
         /\ [p EXCEPT !.left = x] = [done |-> p.done, pending |-> p.pending, left |-> x]
BY DEF Placing

WithGroup(p, group) == [p EXCEPT !.pending = @ \cup {group}]

LEMMA WithGroupFields ==
  ASSUME NEW W, NEW p \in Placing(W), NEW group \in SUBSET W
  PROVE  /\ WithGroup(p, group) \in Placing(W)
         /\ WithGroup(p, group).done = p.done /\ WithGroup(p, group).left = p.left
         /\ WithGroup(p, group).pending = p.pending \cup {group}
BY DEF Placing, WithGroup

LEMMA WholeBatch ==
  ASSUME NEW W, NEW X, WholeIn(X, W), NEW b, b.ids = Ids(X)
  PROVE  Whole(b, W)
<1> SUFFICES ASSUME NEW i \in Ids(X), NEW j \in Ids(W), SessionOf[j[1]] = SessionOf[i[1]]
             PROVE  j \in Ids(X)
  BY DEF Whole
<1>1. PICK r \in X : i = <<r.id, r.page>>
  BY DEF Ids
<1>2. PICK x \in W : j = <<x.id, x.page>>
  BY DEF Ids
<1>3. i[1] = r.id /\ j[1] = x.id
  BY <1>1, <1>2
<1>4. x \in X
  BY <1>3 DEF WholeIn
<1> QED BY <1>2, <1>4 DEF Ids

LEMMA FlushSound ==
  ASSUME NEW W, RowsRead(W), NEW T, NEW p \in Placing(W), SoundFor(p, T, W)
  PROVE  /\ Flush(p) \in Placing(W) /\ SoundFor(Flush(p), T, W)
         /\ Flush(p).pending = {} /\ Flush(p).left = p.left
         /\ PlansRows(Flush(p).done, T, W)
<1>1. /\ p.done \in Seq(BatchType) /\ p.left \in SUBSET W /\ p.pending \in SUBSET SUBSET W
      /\ p = [done |-> p.done, pending |-> p.pending, left |-> p.left]
  BY DEF Placing
<1>2. CASE p.pending = {}
  <2>1. Flush(p) = p /\ UNION p.pending = {} /\ T \ {} = T
    BY <1>2 DEF Flush
  <2>2. PlansRows(p.done, T, W)
    BY <2>1 DEF SoundFor
  <2> QED BY <1>2, <2>1, <2>2
<1>3. CASE p.pending # {}
  <2> DEFINE U == UNION p.pending
             b == Batch(IF Cardinality(p.pending) > 1 THEN "pack" ELSE "session", U)
             D == p.done \o <<b>>
  <2>1. U \subseteq T /\ T \subseteq W /\ U \subseteq W
    BY DEF SoundFor
  <2>2. U # {}
    BY <1>3 DEF SoundFor
  <2>3. WholeIn(U, W)
    <3>1. \A g \in p.pending : WholeIn(g, W)
      BY DEF SoundFor
    <3> QED BY <3>1 DEF WholeIn
  <2>4. Cardinality(U) <= MaxMemories /\ PlansRows(p.done, T \ U, W)
    BY DEF SoundFor
  <2>5. Flush(p) = [done |-> Append(p.done, b), pending |-> {}, left |-> p.left]
    BY <1>1, <1>3 DEF Flush
  <2> HIDE DEF U
  <2>6. Ids(U) \subseteq RowIds
    BY <2>1, IdsTellApart
  <2>7. b.ids = Ids(U) /\ b \in BatchType
    BY <2>6 DEF Batch, BatchType
  <2> HIDE DEF b
  <2>8. Whole(b, W)
    BY <2>3, <2>7, WholeBatch
  <2>9. PlansRows(<<b>>, U, W)
    BY <2>1, <2>2, <2>4, <2>7, <2>8, OneBatch
  <2>10. PlansRows(D, (T \ U) \cup U, W)
    <3>1. T \ U \subseteq W /\ (T \ U) \cap U = {}
      BY <2>1
    <3> QED BY <2>1, <2>4, <2>9, <3>1, PlansJoin
  <2>11. Append(p.done, b) = D /\ (T \ U) \cup U = T
    BY <1>1, <2>1, <2>7, AppendIsConcat
  <2>12. PlansRows(Append(p.done, b), T, W)
    BY <2>10, <2>11
  <2>13. Append(p.done, b) \in Seq(BatchType)
    BY <2>12 DEF PlansRows
  <2> DEFINE q == [done |-> Append(p.done, b), pending |-> {}, left |-> p.left]
  <2>14. q \in Placing(W)
    BY <1>1, <2>13 DEF Placing
  <2>15. q.done = Append(p.done, b) /\ q.pending = {} /\ q.left = p.left
    OBVIOUS
  <2> HIDE DEF q
  <2>16. SoundFor(q, T, W)
    <3>1. UNION q.pending = {} /\ T \ {} = T /\ Cardinality({}) = 0
      BY <2>15, FS_EmptySet
    <3>2. PlansRows(q.done, T \ UNION q.pending, W)
      BY <2>12, <2>15, <3>1
    <3>3. Cardinality(UNION q.pending) <= MaxMemories
      BY <3>1, Sizes
    <3> QED BY <2>1, <2>15, <3>1, <3>2, <3>3 DEF SoundFor
  <2>17. Flush(p) = q
    BY <2>5 DEF q
  <2> QED BY <2>12, <2>14, <2>15, <2>16, <2>17
<1> QED BY <1>2, <1>3

(* A session that fits joins what waits for a pack.                        *)
LEMMA JoinsPending ==
  ASSUME NEW W, RowsRead(W), NEW T, NEW p \in Placing(W), SoundFor(p, T, W),
         NEW group, group # {}, WholeIn(group, W), group \cap T = {},
         Cardinality(UNION p.pending) + Cardinality(group) <= MaxMemories
  PROVE  /\ WithGroup(p, group) \in Placing(W) /\ WithGroup(p, group).left = p.left
         /\ SoundFor(WithGroup(p, group), T \cup group, W)
<1> DEFINE q == WithGroup(p, group)
           U == UNION p.pending
<1>1. group \in SUBSET W
  BY DEF WholeIn
<1>3. q \in Placing(W) /\ q.done = p.done /\ q.left = p.left /\ q.pending = p.pending \cup {group}
  BY <1>1, WithGroupFields
<1> HIDE DEF q
<1>5. U \subseteq T /\ T \subseteq W /\ PlansRows(p.done, T \ U, W)
  BY DEF SoundFor
<1>6. UNION q.pending = U \cup group
  BY <1>3
<1>7. (T \cup group) \ (U \cup group) = T \ U
  BY <1>5
<1>8. Cardinality(U \cup group) <= MaxMemories
  <2>1. /\ IsFiniteSet(U) /\ IsFiniteSet(group) /\ Cardinality(U) \in Nat /\ Cardinality(group) \in Nat
    BY <1>1, <1>5, PartsAreRead
  <2>2. U \cap group = {} /\ Cardinality({}) = 0
    BY <1>5, FS_EmptySet
  <2> HIDE DEF U
  <2>3. Cardinality(U \cup group) = Cardinality(U) + Cardinality(group) - Cardinality(U \cap group)
    BY <2>1, FS_Union
  <2>5. Cardinality(U \cap group) = 0
    BY <2>2
  <2>4. Cardinality(U \cup group) = Cardinality(U) + Cardinality(group)
    BY <2>1, <2>3, <2>5
  <2> QED BY <2>4 DEF U
<1>9. \A g \in q.pending : g # {} /\ WholeIn(g, W)
  BY <1>3 DEF SoundFor
<1> HIDE DEF U
<1>10. SoundFor(q, T \cup group, W)
  <2>1. T \cup group \subseteq W /\ UNION q.pending \subseteq T \cup group
    BY <1>1, <1>5, <1>6
  <2>2. PlansRows(q.done, (T \cup group) \ UNION q.pending, W)
    BY <1>3, <1>5, <1>6, <1>7
  <2>3. Cardinality(UNION q.pending) <= MaxMemories
    BY <1>6, <1>8
  <2> QED BY <1>9, <2>1, <2>2, <2>3 DEF SoundFor
<1> QED BY <1>3, <1>10 DEF q

LEMMA PlaceSound ==
  ASSUME NEW W, RowsRead(W), NEW T, NEW p \in Placing(W), SoundFor(p, T, W),
         NEW group, group # {}, WholeIn(group, W), group \cap T = {}
  PROVE  /\ Place(p, group) \in Placing(W)
         /\ SoundFor(Place(p, group), T \cup group, W)
         /\ Place(p, group).left = p.left
<1> DEFINE F == Flush(p)
<1>1. /\ F \in Placing(W) /\ SoundFor(F, T, W) /\ F.pending = {} /\ F.left = p.left
      /\ PlansRows(F.done, T, W)
  BY FlushSound
<1>2. T \subseteq W /\ Cardinality({}) = 0 /\ UNION {} = {}
  BY FS_EmptySet DEF SoundFor
<1>3. group \subseteq W /\ Cardinality(group) \in Nat /\ MaxMemories \in Nat /\ PackThreshold \in Nat
  <2>1. group \subseteq W
    BY DEF WholeIn
  <2> QED BY <2>1, PartsAreRead, Sizes
<1> HIDE DEF F
<1>4. CASE Cardinality(group) > MaxMemories
  <2> DEFINE D == F.done \o Chunks("session-part", group)
             q == [F EXCEPT !.done = D]
  <2>1. PlansRows(Chunks("session-part", group), group, W)
    BY <1>3, ChunksPlan
  <2>2. PlansRows(D, T \cup group, W)
    BY <1>1, <1>2, <1>3, <2>1, PlansJoin
  <2> HIDE DEF D
  <2>3. D \in Seq(BatchType)
    BY <2>2 DEF PlansRows
  <2>8. q = [done |-> D, pending |-> F.pending, left |-> F.left]
    BY <1>1, PlacingFields, Zenon
  <2>4. q = [done |-> D, pending |-> {}, left |-> p.left] /\ p.left \in SUBSET W
    BY <1>1, <2>8, PlacingFields, Zenon
  <2>5. q \in Placing(W) /\ q.done = D /\ q.pending = {} /\ q.left = p.left
    BY <2>3, <2>4 DEF Placing
  <2> HIDE DEF q
  <2>6. SoundFor(q, T \cup group, W)
    <3>1. UNION q.pending = {} /\ (T \cup group) \ {} = T \cup group
      BY <1>2, <2>5
    <3>2. PlansRows(q.done, (T \cup group) \ UNION q.pending, W)
      BY <2>2, <2>5, <3>1
    <3>3. Cardinality(UNION q.pending) <= MaxMemories
      <4>1. Cardinality(UNION q.pending) = 0
        BY <1>2, <3>1, Zenon
      <4> QED BY <1>3, <4>1
    <3>4. \A g \in q.pending : g # {} /\ WholeIn(g, W)
      BY <2>5
    <3>5. T \cup group \subseteq W
      BY <1>2, <1>3
    <3> QED BY <3>1, <3>2, <3>3, <3>4, <3>5 DEF SoundFor
  <2>7. Place(p, group) = q
    BY <1>4, <1>1 DEF Place, q, D, F
  <2> QED BY <2>5, <2>6, <2>7
<1>5. CASE ~(Cardinality(group) > MaxMemories)
  <2>1. Cardinality(group) <= MaxMemories
    BY <1>3, <1>5
  <2> DEFINE q == WithGroup(F, group)
  <2>2. q \in Placing(W) /\ SoundFor(q, T \cup group, W) /\ q.left = p.left
    <3>1. Cardinality(UNION F.pending) + Cardinality(group) <= MaxMemories
      BY <1>1, <1>2, <1>3, <2>1
    <3>2. F \in Placing(W) /\ SoundFor(F, T, W)
      BY <1>1
    <3>3. /\ WithGroup(F, group) \in Placing(W) /\ WithGroup(F, group).left = F.left
          /\ SoundFor(WithGroup(F, group), T \cup group, W)
      <4> HIDE DEF q
      <4> QED BY <3>1, <3>2, JoinsPending
    <3> QED BY <1>1, <3>3
  <2>3. q = [F EXCEPT !.pending = {group}]
    <3>1. F.pending \cup {group} = {group}
      BY <1>1
    <3> QED BY <3>1, Zenon DEF WithGroup
  <2> HIDE DEF q
  <2>4. CASE Cardinality(group) >= PackThreshold
    <3>1. Place(p, group) = Flush(q)
      BY <1>5, <2>3, <2>4 DEF Place, F
    <3>2. /\ Flush(q) \in Placing(W) /\ SoundFor(Flush(q), T \cup group, W)
          /\ Flush(q).left = q.left
      BY <2>2, FlushSound
    <3> QED BY <2>2, <3>1, <3>2
  <2>5. CASE /\ ~(Cardinality(group) >= PackThreshold)
             /\ Cardinality(UNION p.pending) + Cardinality(group) > MaxMemories
    <3>1. Place(p, group) = q
      BY <1>5, <2>5 DEF Place, F, q, WithGroup
    <3> QED BY <2>2, <3>1
  <2>6. CASE /\ ~(Cardinality(group) >= PackThreshold)
             /\ ~(Cardinality(UNION p.pending) + Cardinality(group) > MaxMemories)
    <3> DEFINE r == WithGroup(p, group)
    <3>1. Place(p, group) = r
      BY <1>5, <2>6 DEF Place, WithGroup
    <3>2. Cardinality(UNION p.pending) \in Nat
      <4>1. UNION p.pending \subseteq W
        BY DEF SoundFor
      <4> QED BY <4>1, PartsAreRead
    <3>3. Cardinality(UNION p.pending) + Cardinality(group) <= MaxMemories
      BY <1>3, <2>6, <3>2
    <3> HIDE DEF r
    <3>4. /\ WithGroup(p, group) \in Placing(W) /\ WithGroup(p, group).left = p.left
          /\ SoundFor(WithGroup(p, group), T \cup group, W)
      <4> HIDE DEF q
      <4> QED BY <3>3, JoinsPending
    <3> QED BY <3>1, <3>4 DEF r
  <2> QED BY <2>4, <2>5, <2>6
<1> QED BY <1>4, <1>5

-------------------------------------------------------------------------------
(* Functions defined by recursion on Nat.                                  *)

\* The first n steps from a.
IsRun(g, n, S, a, step) ==
  g \in [0..n -> S] /\ g[0] = a /\ \A k \in 0..(n - 1) : g[k + 1] = step[g[k]]

LEMMA RunsExist ==
  ASSUME NEW S, NEW a \in S, NEW step \in [S -> S], NEW n \in Nat
  PROVE  \E g : IsRun(g, n, S, a, step)
<1> DEFINE T == {k \in Nat : ~ \E g : IsRun(g, k, S, a, step)}
<1> SUFFICES ASSUME T # {} PROVE FALSE
  OBVIOUS
<1>1. PICK k \in T : \A j \in T : k <= j
  BY LeastOf
<1>2. CASE k = 0
  <2> DEFINE g == [j \in 0..0 |-> a]
  <2>1. IsRun(g, 0, S, a, step)
    BY DEF IsRun
  <2> QED BY <1>2, <2>1
<1>3. CASE k # 0
  <2>1. k \in Nat /\ k - 1 \in Nat /\ k - 1 \notin T
    BY <1>1, <1>3
  <2>2. PICK g : IsRun(g, k - 1, S, a, step)
    BY <2>1
  <2> DEFINE h == [j \in 0..k |-> IF j = k THEN step[g[k - 1]] ELSE g[j]]
  <2>3. g \in [0..(k - 1) -> S] /\ k - 1 \in 0..(k - 1)
    BY <2>1, <2>2 DEF IsRun
  <2>4. h \in [0..k -> S]
    BY <2>1, <2>3
  <2>5. h[0] = a
    BY <1>3, <2>1, <2>2 DEF IsRun
  <2>6. \A j \in 0..(k - 1) : h[j + 1] = step[h[j]]
    <3> TAKE j \in 0..(k - 1)
    <3>1. j \in 0..k /\ j + 1 \in 0..k /\ j # k /\ h[j] = g[j]
      BY <2>1
    <3>2. CASE j = k - 1
      BY <2>1, <3>1, <3>2
    <3>3. CASE j # k - 1
      <4>1. j \in 0..(k - 1 - 1) /\ j + 1 # k
        BY <2>1, <3>3
      <4>2. g[j + 1] = step[g[j]]
        BY <2>2, <4>1 DEF IsRun
      <4> QED BY <3>1, <4>1, <4>2
    <3> QED BY <3>2, <3>3
  <2> HIDE DEF h
  <2>7. IsRun(h, k, S, a, step)
    BY <2>4, <2>5, <2>6 DEF IsRun
  <2> QED BY <2>7
<1> QED BY <1>2, <1>3

\* Two runs agree as far as both go.
LEMMA RunsAgree ==
  ASSUME NEW S, NEW a, NEW step, NEW n \in Nat, NEW g, NEW h,
         IsRun(g, n, S, a, step), IsRun(h, n + 1, S, a, step)
  PROVE  g[n] = h[n]
<1> DEFINE T == {k \in 0..n : g[k] # h[k]}
<1> SUFFICES ASSUME T # {} PROVE FALSE
  OBVIOUS
<1>1. T \in SUBSET Nat
  OBVIOUS
<1>2. PICK k \in T : \A j \in T : k <= j
  BY <1>1, LeastOf
<1>3. k # 0
  BY DEF IsRun
<1>4. k - 1 \in 0..n /\ k - 1 \notin T /\ k - 1 \in 0..(n - 1) /\ k - 1 \in 0..(n + 1 - 1)
  BY <1>2, <1>3
<1>5. g[k - 1] = h[k - 1]
  BY <1>4
<1>6. g[k - 1 + 1] = step[g[k - 1]] /\ h[k - 1 + 1] = step[h[k - 1]] /\ k - 1 + 1 = k
  BY <1>4 DEF IsRun
<1> QED BY <1>5, <1>6

\* A function that begins with a and goes on with step exists.
LEMMA Recursion ==
  ASSUME NEW S, NEW a \in S, NEW step \in [S -> S]
  PROVE  \E f \in [Nat -> S] : f[0] = a /\ \A n \in Nat : f[n + 1] = step[f[n]]
<1> DEFINE run == [n \in Nat |-> CHOOSE g : IsRun(g, n, S, a, step)]
           f == [n \in Nat |-> run[n][n]]
<1>1. \A n \in Nat : IsRun(run[n], n, S, a, step)
  BY RunsExist
<1> HIDE DEF run
<1>2. \A n \in Nat : run[n][n] \in S
  BY <1>1 DEF IsRun
<1>3. f \in [Nat -> S]
  BY <1>2
<1>4. f[0] = a
  BY <1>1 DEF IsRun
<1>5. ASSUME NEW n \in Nat PROVE f[n + 1] = step[f[n]]
  <2>1. n + 1 \in Nat /\ n \in 0..(n + 1 - 1)
    OBVIOUS
  <2>2. IsRun(run[n], n, S, a, step) /\ IsRun(run[n + 1], n + 1, S, a, step)
    BY <1>1, <2>1
  <2>3. run[n][n] = run[n + 1][n]
    BY <2>2, RunsAgree
  <2>4. run[n + 1][n + 1] = step[run[n + 1][n]]
    BY <2>1, <2>2 DEF IsRun
  <2> QED BY <2>1, <2>3, <2>4
<1> QED BY <1>3, <1>4, <1>5

-------------------------------------------------------------------------------
(* Planning: all sessions placed.                                          *)

(* Some sessions of X have been placed, those of p.left have not.          *)
PlacingOK(p, X, W) ==
    /\ p \in Placing(W) /\ p.left \subseteq X /\ WholeIn(p.left, W)
    /\ SoundFor(p, X \ p.left, W)

LEMMA PlaceNextSound ==
  ASSUME NEW W, RowsRead(W), NEW X, X \subseteq W, NEW p, PlacingOK(p, X, W)
  PROVE  /\ PlacingOK(PlaceNext(p), X, W)
         /\ p.left # {} =>
               PlaceNext(p).left \subseteq p.left /\ PlaceNext(p).left # p.left
<1>1. CASE p.left = {}
  BY <1>1 DEF PlaceNext
<1>2. CASE p.left # {}
  <2> DEFINE r == First(p.left)
             group == GroupOf(p.left, SessionOf[r.id])
             rest == p.left \ group
             q == [p EXCEPT !.left = @ \ group]
  <2>1. /\ p \in Placing(W) /\ p.left \subseteq X /\ p.left \subseteq W
        /\ WholeIn(p.left, W) /\ SoundFor(p, X \ p.left, W)
    BY DEF PlacingOK
  <2>2. r \in p.left
    BY <1>2, <2>1, PartsAreRead, FirstIsOne
  <2> HIDE DEF r
  <2>3. group \subseteq p.left /\ r \in group /\ group # {} /\ group \cap (X \ p.left) = {}
    BY <2>2 DEF GroupOf
  <2>4. WholeIn(group, W)
    BY <2>1, <2>2 DEF WholeIn, GroupOf
  <2>5. WholeIn(rest, W)
    BY <2>1, <2>2 DEF WholeIn, GroupOf
  <2> HIDE DEF group
  <2>6. q \in Placing(W) /\ q.left = rest /\ q.done = p.done /\ q.pending = p.pending
    BY <2>1 DEF Placing
  <2>7. PlaceNext(p) = Place(q, group)
    BY <1>2 DEF PlaceNext, group, r
  <2> HIDE DEF q
  <2>8. SoundFor(q, X \ p.left, W)
    BY <2>1, <2>6 DEF SoundFor
  <2>9. /\ Place(q, group) \in Placing(W)
        /\ SoundFor(Place(q, group), (X \ p.left) \cup group, W)
        /\ Place(q, group).left = q.left
    <3> DEFINE T == X \ p.left
    <3>1. SoundFor(q, T, W) /\ group \cap T = {} /\ group # {} /\ q \in Placing(W)
      BY <2>3, <2>6, <2>8
    <3> HIDE DEF T
    <3>2. /\ Place(q, group) \in Placing(W)
          /\ SoundFor(Place(q, group), T \cup group, W)
          /\ Place(q, group).left = q.left
      BY <2>4, <3>1, PlaceSound
    <3> QED BY <3>2 DEF T
  <2> DEFINE x == Place(q, group)
  <2>10. (X \ p.left) \cup group = X \ rest
    BY <2>1, <2>3
  <2>11. x \in Placing(W) /\ x.left = rest /\ SoundFor(x, X \ rest, W)
    BY <2>6, <2>9, <2>10
  <2>12. rest \subseteq p.left /\ rest # p.left /\ rest \subseteq X
    BY <2>1, <2>3
  <2> HIDE DEF x, rest
  <2>13. PlacingOK(x, X, W)
    BY <2>5, <2>11, <2>12 DEF PlacingOK
  <2>14. PlaceNext(p) = x
    BY <2>7 DEF x
  <2> QED BY <2>11, <2>12, <2>13, <2>14
<1> QED BY <1>1, <1>2

PlacingFrom(X) == [done |-> <<>>, pending |-> {}, left |-> X]

PlacingSteps(X) ==
    CHOOSE f : f = [n \in Nat |-> IF n = 0 THEN PlacingFrom(X) ELSE PlaceNext(f[n - 1])]

LEMMA PlacedIs ==
  ASSUME NEW X
  PROVE  Placed(X) = PlacingSteps(X)[Cardinality(X)]
BY DEF Placed, PlacingSteps, PlacingFrom

LEMMA NothingPlaced ==
  ASSUME NEW W, RowsRead(W), NEW X, WholeIn(X, W)
  PROVE  PlacingOK(PlacingFrom(X), X, W)
<1> DEFINE p == PlacingFrom(X)
<1>1. X \subseteq W
  BY DEF WholeIn
<1>2. p \in Placing(W) /\ p.left = X /\ p.pending = {} /\ p.done = <<>>
  BY <1>1 DEF Placing, PlacingFrom
<1> HIDE DEF p
<1>3. UNION p.pending = {} /\ X \ p.left = {} /\ {} \ {} = {}
  BY <1>2
<1>4. PlansRows(p.done, (X \ p.left) \ UNION p.pending, W)
  BY <1>2, <1>3, NothingPlanned
<1>5. Cardinality(UNION p.pending) = 0
  BY <1>3, FS_EmptySet, Zenon
<1>6. SoundFor(p, X \ p.left, W)
  BY <1>1, <1>2, <1>3, <1>4, <1>5, Sizes DEF SoundFor
<1>7. PlacingOK(p, X, W)
  BY <1>2, <1>6 DEF PlacingOK
<1> QED BY <1>7 DEF p

LEMMA PlacingGoesOn ==
  ASSUME NEW W, RowsRead(W), NEW X, WholeIn(X, W)
  PROVE  \A n \in Nat : /\ PlacingOK(PlacingSteps(X)[n], X, W)
                        /\ PlacingSteps(X)[0] = PlacingFrom(X)
                        /\ PlacingSteps(X)[n + 1] = PlaceNext(PlacingSteps(X)[n])
<1> DEFINE S == {p \in Placing(W) : PlacingOK(p, X, W)}
           step == [p \in S |-> PlaceNext(p)]
           a == PlacingFrom(X)
           Body(f) == [n \in Nat |-> IF n = 0 THEN a ELSE PlaceNext(f[n - 1])]
<1>1. \A p : p \in S <=> PlacingOK(p, X, W)
  BY DEF PlacingOK
<1> HIDE DEF S
<1>2. X \subseteq W
  BY DEF WholeIn
<1>3. \A p \in S : PlaceNext(p) \in S
  BY <1>1, <1>2, PlaceNextSound
<1>4. step \in [S -> S]
  BY <1>3
<1>5. a \in S
  BY <1>1, NothingPlaced
<1> HIDE DEF step, a
<1>6. PICK f \in [Nat -> S] : f[0] = a /\ \A n \in Nat : f[n + 1] = step[f[n]]
  BY <1>4, <1>5, Recursion
<1>7. ASSUME NEW n \in Nat PROVE f[n] = Body(f)[n]
  <2>1. CASE n = 0
    BY <1>6, <2>1
  <2>2. CASE n # 0
    <3>1. n - 1 \in Nat /\ n - 1 + 1 = n
      BY <2>2
    <3>2. f[n - 1] \in S
      BY <1>6, <3>1
    <3>3. f[n] = PlaceNext(f[n - 1])
      BY <1>6, <3>1, <3>2 DEF step
    <3> QED BY <2>2, <3>3
  <2> QED BY <2>1, <2>2
<1>8. f = Body(f)
  <2>1. DOMAIN f = Nat /\ f = [n \in Nat |-> f[n]]
    BY <1>6
  <2> QED BY <1>7, <2>1, Zenon
<1> DEFINE F == PlacingSteps(X)
<1>9. F = CHOOSE g : g = Body(g)
  BY DEF PlacingSteps, a
<1>10. F = Body(F)
  BY <1>8, <1>9, Zenon
<1> HIDE DEF F
<1>11. F[0] = a
  BY <1>10
<1>12. ASSUME NEW n \in Nat PROVE F[n + 1] = PlaceNext(F[n])
  <2>1. n + 1 \in Nat /\ n + 1 # 0 /\ n + 1 - 1 = n
    OBVIOUS
  <2>2. F[n + 1] = PlaceNext(F[n + 1 - 1])
    BY <1>10, <2>1
  <2> QED BY <2>1, <2>2
<1>13. \A n \in Nat : F[n] \in S
  <2> DEFINE T == {n \in Nat : F[n] \notin S}
  <2> SUFFICES ASSUME T # {} PROVE FALSE
    OBVIOUS
  <2>1. PICK n \in T : \A k \in T : n <= k
    BY LeastOf
  <2>2. n # 0
    BY <1>5, <1>11
  <2>3. n - 1 \in Nat /\ n - 1 + 1 = n /\ n - 1 \notin T
    BY <2>1, <2>2
  <2>4. F[n - 1] \in S
    BY <2>3
  <2>5. F[n] = PlaceNext(F[n - 1])
    BY <1>12, <2>3
  <2> QED BY <1>3, <2>4, <2>5
<1> QED BY <1>1, <1>11, <1>12, <1>13 DEF F, a

(* Each step places a session, so that no step is left when as many steps  *)
(* have been taken as there are rows.                                      *)
LEMMA PlacedAll ==
  ASSUME NEW W, RowsRead(W), NEW X, WholeIn(X, W)
  PROVE  PlacingOK(Placed(X), X, W) /\ Placed(X).left = {}
<1> DEFINE F == PlacingSteps(X)
           c == Cardinality(X)
           size(n) == Cardinality(F[n].left)
           T == {n \in Nat : ~(F[n].left = {} \/ size(n) + n <= c)}
<1>1. X \subseteq W /\ IsFiniteSet(X) /\ c \in Nat
  <2>1. X \subseteq W
    BY DEF WholeIn
  <2> QED BY <2>1, PartsAreRead
<1>2. /\ \A n \in Nat : PlacingOK(F[n], X, W)
      /\ F[0] = PlacingFrom(X)
      /\ \A n \in Nat : F[n + 1] = PlaceNext(F[n])
  BY PlacingGoesOn
<1>3. Placed(X) = F[c]
  BY PlacedIs
<1> HIDE DEF F
<1>4. \A n \in Nat : /\ F[n].left \subseteq W /\ IsFiniteSet(F[n].left) /\ size(n) \in Nat
                     /\ size(n) = 0 => F[n].left = {}
  <2> TAKE n \in Nat
  <2>1. F[n].left \subseteq W
    BY <1>1, <1>2 DEF PlacingOK
  <2> QED BY <2>1, PartsAreRead, FS_EmptySet
<1>5. T = {}
  <2> SUFFICES ASSUME T # {} PROVE FALSE
    OBVIOUS
  <2>1. PICK n \in T : \A k \in T : n <= k
    BY LeastOf
  <2>2. n # 0
    <3>1. F[0].left = X /\ size(0) = c
      BY <1>2 DEF PlacingFrom
    <3> QED BY <1>1, <3>1
  <2>3. n - 1 \in Nat /\ n - 1 + 1 = n /\ n - 1 \notin T
    BY <2>1, <2>2
  <2> DEFINE p == F[n - 1]
  <2>4. PlacingOK(p, X, W) /\ F[n] = PlaceNext(p)
    BY <1>2, <2>3
  <2>5. p.left # {}
    <3> SUFFICES ASSUME p.left = {} PROVE FALSE
      OBVIOUS
    <3>1. F[n].left = {}
      BY <2>4 DEF PlaceNext
    <3> QED BY <3>1
  <2>6. F[n].left \subseteq p.left /\ F[n].left # p.left
    BY <1>1, <2>4, <2>5, PlaceNextSound
  <2>7. size(n - 1) + (n - 1) <= c
    BY <2>3, <2>5
  <2>8. size(n) <= size(n - 1) /\ size(n) # size(n - 1)
    BY <1>4, <2>3, <2>6, FS_Subset
  <2>9. size(n) \in Nat /\ size(n - 1) \in Nat
    BY <1>4, <2>3
  <2>10. size(n) + n <= c
    <3> HIDE DEF size, c
    <3> QED BY <1>1, <2>3, <2>7, <2>8, <2>9
  <2> QED BY <2>10
<1>6. F[c].left = {}
  <2>1. F[c].left = {} \/ size(c) + c <= c
    BY <1>1, <1>5
  <2>2. size(c) \in Nat
    BY <1>1, <1>4
  <2>3. F[c].left = {} \/ size(c) = 0
    <3> HIDE DEF size, c
    <3> QED BY <1>1, <2>1, <2>2
  <2> QED BY <1>1, <1>4, <2>3
<1> QED BY <1>1, <1>2, <1>3, <1>6

(* A plan of these rows: what plan_batches promises.                       *)
IsPlan(B, ids) ==
    /\ B \in Seq(BatchType)
    /\ UNION {B[s].ids : s \in DOMAIN B} = ids
    /\ \A s, t \in DOMAIN B : s # t => B[s].ids \cap B[t].ids = {}
    /\ \A s \in DOMAIN B : IsFiniteSet(B[s].ids) /\ Cardinality(B[s].ids) \in 1..MaxMemories
    /\ \A s \in DOMAIN B : \A i \in B[s].ids, j \in ids :
          SessionOf[i[1]] # NoSession /\ SessionOf[j[1]] = SessionOf[i[1]]
              => j \in B[s].ids \/ B[s].kind = "session-part"

LEMMA PlansAreRight ==
  ASSUME NEW R \in SUBSET RowRead, IsFiniteSet(R), NEW since,
         \A r, q \in R : r.id = q.id /\ r.page = q.page => r = q
  PROVE  IsPlan(PlanBatches(R, since), Ids(SelectSince(R, since)))

<1> DEFINE W == SelectSince(R, since)
           ledger == GroupOf(W, NoSession)
           X == W \ ledger
           p == Placed(X)
           C == Chunks("ledger", ledger)
           D == Flush(p).done
           J == D \o C
<1>1. RowsRead(R)
  BY DEF RowsRead
<1>2. W \subseteq R
  BY DEF SelectSince
<1> HIDE DEF W
<1>3. RowsRead(W)
  BY <1>1, <1>2, PartsAreRead
<1>4. ledger \subseteq W /\ \A r \in ledger : SessionOf[r.id] = NoSession
  BY DEF GroupOf
<1>5. WholeIn(X, W)
  BY DEF WholeIn, GroupOf
<1>6. X \subseteq W /\ X \cap ledger = {} /\ X \cup ledger = W /\ X \ {} = X
  BY <1>4
<1> HIDE DEF X, ledger
<1>7. PlacingOK(p, X, W) /\ p.left = {}
  BY <1>3, <1>5, PlacedAll
<1> HIDE DEF p
<1>8. p \in Placing(W) /\ SoundFor(p, X, W)
  BY <1>6, <1>7 DEF PlacingOK
<1>9. PlansRows(D, X, W)
  BY <1>3, <1>8, FlushSound
<1>10. PlansRows(C, ledger, W)
  BY <1>3, <1>4, ChunksPlan
<1> HIDE DEF C, D
<1>11. PlansRows(J, W, W)
  BY <1>3, <1>4, <1>6, <1>9, <1>10, PlansJoin
<1>12. J = PlanBatches(R, since)
  BY DEF J, D, C, p, X, ledger, W, PlanBatches
<1> HIDE DEF J
<1>13. IsPlan(J, Ids(W))
  BY <1>11 DEF PlansRows, IsPlan, Whole
<1> QED BY <1>12, <1>13 DEF W

-------------------------------------------------------------------------------
(* The commands.                                                           *)

LEMMA PlanIsOfType ==
  ASSUME NEW B, NEW ids, IsPlan(B, ids)
  PROVE  /\ B \in Seq(BatchType)
         /\ ids \subseteq RowIds
<1>1. \A s \in DOMAIN B : B[s] \in BatchType
  BY DEF IsPlan
<1>2. \A b \in BatchType : b.ids \subseteq RowIds
  BY DEF BatchType
<1> QED BY <1>1, <1>2 DEF IsPlan

(* A command is reading only while no pass is running.                     *)
LEMMA NoPassWhileReading ==
  ASSUME ReaderOK, reader.cmd # "none"
  PROVE  pass = NoPass
BY IdleTypes DEF ReaderOK

(* A session is selected whole.                                            *)
LEMMA SelectedWhole ==
  ASSUME NEW R, NEW since, NEW q \in SelectSince(R, since), NEW r \in R,
         SessionOf[r.id] = SessionOf[q.id], SessionOf[q.id] # NoSession
  PROVE  r \in SelectSince(R, since)
<1>1. CASE since = Never
  BY <1>1 DEF SelectSince
<1>2. CASE since # Never
  <2>1. q \in R /\ \E x \in GroupOf(R, SessionOf[q.id]) : Moved(x, since)
    <3>1. q \in R /\ q \in GroupOf(R, SessionOf[q.id])
      BY <1>2 DEF SelectSince, GroupOf
    <3> QED BY <1>2, <3>1 DEF SelectSince
  <2> QED BY <1>2, <2>1 DEF SelectSince
<1> QED BY <1>1, <1>2

LEMMA SelectedAreRead == \A R, since : SelectSince(R, since) \subseteq R
BY DEF SelectSince

(* All that was not behind the reader has been read when a page is short.  *)
LEMMA AllIsRead ==
  ASSUME CompileTypeOK, LastPage, NEW m \in Live, Position(m) > reader.start
  PROVE  m \in Listed(reader.start)
BY ReaderTypes, LastPageIsLast

LEMMA WritePlanKeeps == CompileInv /\ WritePlan => CompileInv'
<1> SUFFICES ASSUME CompileInv, WritePlan PROVE CompileInv'
  OBVIOUS
<1>0. /\ CompileTypeOK /\ ClockOK /\ ReaderOK /\ AheadOfPlan /\ AheadOfProfile
      /\ PlanOK /\ PassOK /\ ArtOK /\ FinishedOK /\ CursorOK /\ PlanInv /\ EveryReadingIsKept
  BY Parts
<1>1. /\ reader.cmd = "plan" /\ LastPage /\ reader' = Idle /\ finished' = FALSE
      /\ fresh' = AllFresh /\ selected' = Ids(SelectSince(AllRows, cursor.at))
      /\ UNCHANGED <<now, row, writes, cursor, art, kept, pass, retired, excused, answered>>
  BY DEF WritePlan, storeVars
<1>2. plan' = [readAt |-> reader.began, batches |-> PlanBatches(AllRows, cursor.at)]
  BY DEF WritePlan
<1>3. plan'.readAt = reader.began /\ plan'.batches = PlanBatches(AllRows, cursor.at)
  BY <1>2
<1>4. /\ AllRows \in SUBSET RowRead /\ IsFiniteSet(AllRows)
      /\ \A r \in AllRows : row[r.id] # Unwritten
      /\ \A r, q \in AllRows : r.id = q.id /\ r.page = q.page => r = q
      /\ AllFresh \in SUBSET Memory
      /\ \A m \in AllFresh : m \in Live /\ \E r \in AllRows : r = RowOf(m, r.page)
  BY <1>0, ReadOn
<1> DEFINE Sel == SelectSince(AllRows, cursor.at)
<1>5. IsPlan(plan'.batches, selected')
  BY <1>1, <1>3, <1>4, PlansAreRight
<1>6. plan'.batches \in Seq(BatchType) /\ selected' \subseteq RowIds
  BY <1>5, PlanIsOfType
<1>7. pass = NoPass
  BY <1>0, <1>1, NoPassWhileReading
<1>8. CompileTypeOK'
  <2>1. reader.began \in Stamp
    BY <1>0, ReaderTypes
  <2>2. plan' \in [readAt : Stamp, batches : Seq(BatchType)]
    BY <1>2, <1>3, <1>6, <2>1
  <2>3. reader' \in [cmd : {"none", "plan", "profile"}, began : Stamp, start : Nat,
                     rows : SUBSET RowRead, fresh : SUBSET Memory]
    BY <1>0, <1>1, RowTypes DEF Idle
  <2>4. pass' \in [texts : SUBSET Memory, todo : SUBSET DOMAIN plan'.batches, failed : BOOLEAN]
    BY <1>1, <1>7 DEF NoPass
  <2>5. fresh' \cup retired' \subseteq Memory
    BY <1>0, <1>1, <1>4 DEF CompileTypeOK
  <2> QED BY <1>0, <1>1, <1>6, <2>2, <2>3, <2>4, <2>5 DEF CompileTypeOK
<1>9. ReadInv'
  <2>1. now \in Nat /\ reader.began <= now /\ cursor'.at <= now
    BY <1>0, <1>1, RowTypes DEF ClockOK
  <2> QED BY <1>0, <1>1, <1>3, <2>1, IdleReader
<1>10. CursorOK'
  BY <1>0, <1>1, CursorStays
<1>11. Live' = Live
  BY <1>1, StoreStays
<1>12. PassOK' /\ FinishedOK' /\ ArtOK' /\ EveryReadingIsKept'
  BY <1>0, <1>1, <1>7, <1>11, IdleTypes DEF PassOK, FinishedOK, ArtOK, EveryReadingIsKept
<1>13. \A r \in AllRows : r.id \in Memory /\ r.page \in Nat
  BY <1>4 DEF RowRead
<1>14. \A i \in selected' : \E r \in Sel : i = <<r.id, r.page>>
  BY <1>1 DEF Ids
<1>15. \A r \in Sel : r \in AllRows /\ <<r.id, r.page>> \in selected' /\ r.id \in Named(selected')
  <2>1. \A r \in Sel : r \in AllRows
    BY SelectedAreRead
  <2>2. \A r \in Sel : <<r.id, r.page>> \in selected'
    BY <1>1 DEF Ids
  <2>3. \A i \in selected' : i[1] \in Named(selected')
    BY DEF Named
  <2>4. \A r \in Sel : <<r.id, r.page>>[1] = r.id
    OBVIOUS
  <2> QED BY <2>1, <2>2, <2>3, <2>4
<1>16. \A m \in AllFresh : \E r \in AllRows : r.id = m /\ r.touched = row[m].touched
  BY <1>4 DEF RowOf
<1>17. PlanOK'
  <2>1. \A s \in DOMAIN plan'.batches : IsFiniteSet(plan'.batches[s].ids)
                                        /\ plan'.batches[s].ids \subseteq selected'
    BY <1>5 DEF IsPlan
  <2>2. \A m \in Planned' : row'[m] # Unwritten
    <3> SUFFICES ASSUME NEW s \in DOMAIN plan'.batches, NEW i \in plan'.batches[s].ids
                 PROVE  row[i[1]] # Unwritten
      BY <1>1 DEF Planned, Named
    <3>1. PICK r \in Sel : i = <<r.id, r.page>>
      BY <1>14, <2>1
    <3> QED BY <1>4, <1>15, <3>1
  <2>3. \A m \in Live : row[m].touched < reader.began => m \in AllFresh \cup excused["plan"]
    <3>1. \A m \in Live : Position(m) > reader.start => m \in AllFresh
      BY <1>0, <1>1, AllIsRead DEF AllFresh
    <3>2. reader.fresh \subseteq AllFresh
      BY DEF AllFresh
    <3> QED BY <1>0, <1>1, <3>1, <3>2 DEF AheadOfPlan
  <2>4. \A m \in AllFresh : cursor.at = Never \/ row[m].touched > cursor.at => m \in Named(selected')
    <3> SUFFICES ASSUME NEW m \in AllFresh, cursor.at = Never \/ row[m].touched > cursor.at
                 PROVE  m \in Named(selected')
      OBVIOUS
    <3>1. PICK r \in AllRows : r.id = m /\ r.touched = row[m].touched
      BY <1>16
    <3>2. r \in Sel
      BY <3>1 DEF SelectSince, Moved
    <3> QED BY <1>15, <3>1, <3>2
  <2> QED BY <1>1, <1>3, <1>4, <1>11, <2>1, <2>2, <2>3, <2>4 DEF PlanOK
<1>18. PlanIsAPartition'
  BY <1>5 DEF IsPlan, PlanIsAPartition
<1>19. SessionsAreWhole'
  <2> SUFFICES ASSUME NEW m \in fresh' \cap Live', NEW s \in DOMAIN plan'.batches,
                      NEW x \in Named(plan'.batches[s].ids), SessionOf[x] # NoSession,
                      SessionOf[x] = SessionOf[m]
               PROVE  \E t \in DOMAIN plan'.batches :
                         /\ m \in Named(plan'.batches[t].ids)
                         /\ s = t \/ plan'.batches[s].kind = "session-part"
    BY DEF SessionsAreWhole
  <2>1. PICK i \in plan'.batches[s].ids : x = i[1]
    BY DEF Named
  <2>2. i \in selected'
    BY <1>5 DEF IsPlan
  <2>3. PICK q \in Sel : i = <<q.id, q.page>>
    BY <1>14, <2>2
  <2>4. PICK r \in AllRows : r.id = m
    BY <1>1, <1>16
  <2>5. r \in Sel
    <3>1. SessionOf[r.id] = SessionOf[q.id] /\ SessionOf[q.id] # NoSession
      BY <2>1, <2>3, <2>4
    <3> QED BY <3>1, SelectedWhole
  <2> DEFINE j == <<r.id, r.page>>
  <2>6. j \in selected' /\ j[1] = m
    BY <1>15, <2>4, <2>5
  <2> HIDE DEF j
  <2>7. j \in plan'.batches[s].ids \/ plan'.batches[s].kind = "session-part"
    BY <1>5, <2>1, <2>6 DEF IsPlan
  <2>8. \E t \in DOMAIN plan'.batches : j \in plan'.batches[t].ids
    BY <1>5, <2>6 DEF IsPlan
  <2>9. \A t \in DOMAIN plan'.batches :
           j \in plan'.batches[t].ids => m \in Named(plan'.batches[t].ids)
    BY <2>6 DEF Named
  <2> QED BY <2>7, <2>8, <2>9
<1> QED BY <1>8, <1>9, <1>10, <1>12, <1>17, <1>18, <1>19 DEF CompileInv, RunInv, PlanInv

(* What is on disk under a batch id.                                       *)
LEMMA DigestTypes ==
  ASSUME CompileTypeOK, PlanOK, NEW s \in DOMAIN plan.batches
  PROVE  CoverageDigest(plan.batches[s]) \in Digest
<1> DEFINE of(m) == {i \in plan.batches[s].ids : i[1] = m}
<1>1. IsFiniteSet(plan.batches[s].ids)
  BY DEF PlanOK
<1>2. \A m \in Memory : of(m) \in SUBSET plan.batches[s].ids
  OBVIOUS
<1> HIDE DEF of
<1>3. \A m \in Memory : Cardinality(of(m)) \in Nat
  BY <1>1, <1>2, FS_Subset, FS_CardinalityType
<1> QED BY <1>3 DEF CoverageDigest, Digest, of

LEMMA ArtTypes ==
  ASSUME CompileTypeOK, NEW s \in DOMAIN art
  PROVE  /\ s \in Nat /\ art[s] \in Artifact /\ art[s].status \in {"ok", "refused"}
         /\ art[s].covers \in Digest /\ art[s].blank \in SUBSET Memory
BY DEF CompileTypeOK, Artifact

LEMMA StartPassKeeps == CompileInv /\ StartPass => CompileInv'
<1> SUFFICES ASSUME CompileInv, StartPass PROVE CompileInv'
  OBVIOUS
<1>0. /\ CompileTypeOK /\ ClockOK /\ ReaderOK /\ AheadOfPlan /\ AheadOfProfile
      /\ PlanOK /\ PassOK /\ ArtOK /\ FinishedOK /\ CursorOK /\ PlanInv /\ EveryReadingIsKept
  BY Parts
<1> DEFINE todo == {s \in Candidates(plan) : NeedsProfiling(plan, s)}
           moved == {s \in todo : Superseded(s)}
           texts == {r.id : r \in AllRows}
<1>1. /\ reader.cmd = "profile" /\ LastPage /\ reader' = Idle
      /\ pass' = IF todo = {} THEN NoPass
                 ELSE [texts |-> texts, todo |-> todo, failed |-> FALSE]
      /\ finished' = (todo = {})
      /\ kept' = kept \cup {<<s, art[s].covers>> : s \in moved}
      /\ UNCHANGED <<now, row, writes, cursor, plan, selected, fresh, retired, excused, answered>>
  BY DEF StartPass, storeVars
<1>2. art' = [s \in DOMAIN art \ moved |-> art[s]]
  BY DEF StartPass, Without
<1>3. DOMAIN art' = DOMAIN art \ moved /\ \A s \in DOMAIN art' : s \in DOMAIN art /\ art'[s] = art[s]
  BY <1>2
<1>4. pass'.todo = todo /\ pass'.failed = FALSE
      /\ (todo # {} => pass'.texts = texts) /\ (todo = {} => pass' = NoPass)
  BY <1>1, IdleTypes
<1>5. todo \subseteq Candidates(plan) /\ Candidates(plan) \subseteq DOMAIN plan.batches
      /\ moved \subseteq todo /\ moved \subseteq DOMAIN art
  BY DEF Candidates, Superseded
<1>6. \A s \in Candidates(plan) \ todo :
         s \in DOMAIN art /\ art[s].covers = CoverageDigest(plan.batches[s])
  BY DEF NeedsProfiling
<1>7. \A s \in todo \cap DOMAIN art : s \notin moved => <<s, art[s].covers>> \in kept
  BY DEF Superseded
<1>8. texts \in SUBSET Memory
  <2>1. AllRows \in SUBSET RowRead
    BY <1>0, ReadOn
  <2> QED BY <2>1 DEF RowRead
<1>9. Live \cap Planned \subseteq texts \cup excused["profile"]
  <2>1. \A m \in Live : Position(m) > reader.start => m \in Listed(reader.start)
    BY <1>0, <1>1, AllIsRead
  <2>2. Listed(reader.start) \subseteq texts
    BY <1>0, ReadOn
  <2>3. {r.id : r \in reader.rows} \subseteq texts
    BY DEF AllRows
  <2> HIDE DEF texts
  <2> QED BY <1>0, <1>1, <2>1, <2>2, <2>3 DEF AheadOfProfile
<1> HIDE DEF todo, moved, texts
<1>10. Planned' = Planned /\ Live' = Live /\ Candidates(plan)' = Candidates(plan)
       /\ \A s : CoverageDigest(plan.batches[s])' = CoverageDigest(plan.batches[s])
  BY <1>1, StoreStays DEF Planned, Candidates, CoverageDigest
<1>11. CompileTypeOK'
  <2>1. pass' \in [texts : SUBSET Memory, todo : SUBSET DOMAIN plan.batches, failed : BOOLEAN]
    <3>1. NoPass \in [texts : SUBSET Memory, todo : SUBSET DOMAIN plan.batches, failed : BOOLEAN]
      BY DEF NoPass
    <3>2. [texts |-> texts, todo |-> todo, failed |-> FALSE]
             \in [texts : SUBSET Memory, todo : SUBSET DOMAIN plan.batches, failed : BOOLEAN]
      BY <1>5, <1>8
    <3> QED BY <1>1, <3>1, <3>2
  <2>2. reader' \in [cmd : {"none", "plan", "profile"}, began : Stamp, start : Nat,
                     rows : SUBSET RowRead, fresh : SUBSET Memory]
    BY <1>0, <1>1, RowTypes DEF Idle
  <2>3. DOMAIN art' \subseteq Nat /\ \A s \in DOMAIN art' : art'[s] \in Artifact
    BY <1>0, <1>3, ArtTypes
  <2>4. \A s \in moved : <<s, art[s].covers>> \in Nat \X Digest
    BY <1>0, <1>5, ArtTypes
  <2>5. kept' \cup answered' \subseteq Nat \X Digest
    BY <1>0, <1>1, <2>4 DEF CompileTypeOK
  <2>6. finished' \in BOOLEAN
    BY <1>1
  <2> QED BY <1>0, <1>1, <2>1, <2>2, <2>3, <2>5, <2>6 DEF CompileTypeOK
<1>12. ReadInv'
  <2>1. now \in Nat /\ plan'.readAt <= now /\ cursor'.at <= now
    BY <1>0, <1>1, RowTypes DEF ClockOK
  <2> QED BY <1>0, <1>1, <2>1, IdleReader
<1>13. PlanOK' /\ PlanInv' /\ CursorOK'
  BY <1>0, <1>1, PlanStays, CursorStays
<1>14. ArtOK'
  BY <1>0, <1>1, <1>3, <1>10 DEF ArtOK
<1>15. \A s \in Candidates(plan) \ todo : Done(s)'
  <2> SUFFICES ASSUME NEW s \in Candidates(plan) \ todo PROVE Done(s)'
    OBVIOUS
  <2>1. s \in DOMAIN art' /\ art'[s].covers = CoverageDigest(plan.batches[s])
    BY <1>3, <1>5, <1>6
  <2>2. art'[s].blank \cap Live' \subseteq excused'["profile"]
    BY <1>14, <2>1 DEF ArtOK
  <2> QED BY <1>10, <2>1, <2>2 DEF Done
<1>16. PassOK'
  <2>1. \A s \in todo \cap DOMAIN art' : <<s, art'[s].covers>> \in kept'
    BY <1>1, <1>3, <1>7
  <2> QED BY <1>1, <1>4, <1>5, <1>9, <1>10, <1>15, <2>1 DEF PassOK
<1>17. FinishedOK'
  BY <1>1, <1>10, <1>15 DEF FinishedOK
<1>18. EveryReadingIsKept'
  <2> SUFFICES ASSUME NEW a \in answered, a \notin kept'
               PROVE  /\ a[1] \in DOMAIN art'
                      /\ art'[a[1]].status = "ok" /\ art'[a[1]].covers = a[2]
    BY <1>1 DEF EveryReadingIsKept
  <2>1. a \notin kept /\ a = <<a[1], a[2]>>
    BY <1>0, <1>1 DEF CompileTypeOK
  <2>2. a[1] \in DOMAIN art /\ art[a[1]].status = "ok" /\ art[a[1]].covers = a[2]
    BY <1>0, <2>1 DEF EveryReadingIsKept
  <2>3. a[1] \notin moved
    BY <1>1, <2>1, <2>2
  <2> QED BY <1>3, <2>2, <2>3
<1> QED BY <1>11, <1>12, <1>13, <1>14, <1>16, <1>17, <1>18 DEF CompileInv, RunInv

(* A pass in which one batch less is to be done.                           *)
LEMMA LeaveFacts ==
  ASSUME CompileTypeOK, PassOK, NEW s \in pass.todo, NEW failed \in BOOLEAN, Leave(s, failed)
  PROVE  /\ pass' \in [texts : SUBSET Memory, todo : SUBSET DOMAIN plan.batches,
                       failed : BOOLEAN]
         /\ finished' \in BOOLEAN /\ ~finished
         /\ pass'.todo = pass.todo \ {s} /\ (pass'.todo = {} => pass' = NoPass)
         /\ pass'.todo # {} => ~finished' /\ pass'.texts = pass.texts /\ pass'.failed = failed
         /\ finished' => pass'.todo = {} /\ ~failed
<1> DEFINE rest == pass.todo \ {s}
<1>1. pass.texts \in SUBSET Memory /\ rest \in SUBSET DOMAIN plan.batches /\ ~finished
      /\ finished \in BOOLEAN
  BY PassTypes DEF PassOK, CompileTypeOK
<1>2. pass \in [texts : SUBSET Memory, todo : SUBSET DOMAIN plan.batches, failed : BOOLEAN]
  BY DEF CompileTypeOK
<1>3. /\ rest # {} => pass' = [pass EXCEPT !.todo = rest, !.failed = failed] /\ finished' = finished
      /\ rest = {} => pass' = NoPass /\ finished' = ~failed
  BY DEF Leave
<1> HIDE DEF rest
<1>4. rest # {} => pass' = [texts |-> pass.texts, todo |-> rest, failed |-> failed]
  BY <1>2, <1>3
<1>5. CASE rest = {}
  BY <1>1, <1>3, <1>5, IdleTypes DEF rest, NoPass
<1>6. CASE rest # {}
  <2>1. pass' \in [texts : SUBSET Memory, todo : SUBSET DOMAIN plan.batches, failed : BOOLEAN]
    BY <1>1, <1>4, <1>6
  <2>2. pass'.texts = pass.texts /\ pass'.todo = rest /\ pass'.failed = failed
    BY <1>4, <1>6
  <2> QED BY <1>1, <1>3, <1>6, <2>1, <2>2 DEF rest
<1> QED BY <1>5, <1>6

(* With a batch under way, no command is reading.                          *)
LEMMA IdleWhilePassing ==
  ASSUME ReaderOK, pass.todo # {}
  PROVE  reader = Idle
BY IdleTypes DEF ReaderOK

(* What one call leaves behind: an artifact that answers its batch, or     *)
(* none, and then the pass is a failed one.                                *)
Answers(s) ==
    /\ DOMAIN art' \subseteq DOMAIN art \cup {s} /\ DOMAIN art \ {s} \subseteq DOMAIN art'
    /\ \A t \in DOMAIN art' : art'[t] \in Artifact
    /\ \A t \in DOMAIN art \ {s} : art'[t] = art[t]
    /\ s \in DOMAIN art' =>
          /\ \A m \in art'[s].blank : row[m] # Unwritten
          /\ art'[s].blank \cap Live \subseteq excused["profile"]

LEMMA AnswersKeep ==
  ASSUME CompileInv, NEW s \in pass.todo, NEW failed \in BOOLEAN, Leave(s, failed), Answers(s),
         pass.failed => failed,
         failed \/ Done(s)',
         UNCHANGED <<now, row, writes, cursor, plan, kept, reader, selected, fresh, retired,
                     excused>>,
         answered' \subseteq Nat \X Digest,
         \A a \in answered' : \/ a \in answered
                              \/ /\ a[1] = s /\ s \in DOMAIN art'
                                 /\ art'[s].status = "ok" /\ art'[s].covers = a[2]
  PROVE  CompileInv'
<1>0. /\ CompileTypeOK /\ ClockOK /\ ReaderOK /\ AheadOfPlan /\ AheadOfProfile
      /\ PlanOK /\ PassOK /\ ArtOK /\ FinishedOK /\ CursorOK /\ PlanInv /\ EveryReadingIsKept
  BY Parts
<1>1. /\ pass' \in [texts : SUBSET Memory, todo : SUBSET DOMAIN plan.batches, failed : BOOLEAN]
      /\ finished' \in BOOLEAN /\ ~finished
      /\ pass'.todo = pass.todo \ {s} /\ (pass'.todo = {} => pass' = NoPass)
      /\ pass'.todo # {} => ~finished' /\ pass'.texts = pass.texts /\ pass'.failed = failed
      /\ finished' => pass'.todo = {} /\ ~failed
  BY <1>0, LeaveFacts
<1>2. Planned' = Planned /\ Live' = Live /\ Candidates(plan)' = Candidates(plan)
      /\ \A t : CoverageDigest(plan.batches[t])' = CoverageDigest(plan.batches[t])
  BY StoreStays DEF Planned, Candidates, CoverageDigest
<1>3. pass.todo \subseteq Candidates(plan) /\ s \in Candidates(plan) /\ s \in Nat
  BY <1>0, NamedTypes DEF PassOK, Candidates
<1>4. CompileTypeOK'
  <2>1. DOMAIN art' \subseteq Nat /\ \A t \in DOMAIN art' : art'[t] \in Artifact
    BY <1>0, <1>3, ArtTypes DEF Answers
  <2>2. kept' \cup answered' \subseteq Nat \X Digest
    BY <1>0 DEF CompileTypeOK
  <2> QED BY <1>0, <1>1, <2>1, <2>2 DEF CompileTypeOK
<1>5. ReaderOK' /\ AheadOfPlan' /\ AheadOfProfile'
  <2>1. reader' = Idle
    BY <1>0, IdleWhilePassing
  <2>2. now \in Nat /\ plan'.readAt <= now /\ cursor'.at <= now
    BY <1>0, RowTypes DEF ClockOK
  <2>3. ReadInv'
    BY <1>0, <2>1, <2>2, IdleReader
  <2> QED BY <2>3 DEF ReadInv
<1>6. ClockOK' /\ PlanOK' /\ PlanInv' /\ CursorOK'
  BY <1>0, ClockStays, PlanStays, CursorStays DEF ClockOK
<1>7. ArtOK'
  BY <1>0, <1>2 DEF ArtOK, Answers
<1>8. \A t : t # s /\ Done(t) => Done(t)'
  BY <1>2 DEF Done, Answers
<1>9. failed \/ \A t \in Candidates(plan) \ pass'.todo : Done(t)'
  <2> SUFFICES ASSUME ~failed, NEW t \in Candidates(plan) \ pass'.todo PROVE Done(t)'
    OBVIOUS
  <2>1. CASE t = s
    BY <2>1
  <2>2. CASE t # s
    <3>1. t \notin pass.todo /\ ~pass.failed
      BY <1>1, <2>2
    <3>2. Done(t)
      BY <1>0, <3>1 DEF PassOK
    <3> QED BY <1>8, <2>2, <3>2
  <2> QED BY <2>1, <2>2
<1>10. PassOK'
  <2>1. \A t \in pass'.todo \cap DOMAIN art' : <<t, art'[t].covers>> \in kept
    <3> SUFFICES ASSUME NEW t \in pass'.todo \cap DOMAIN art'
                 PROVE  <<t, art'[t].covers>> \in kept
      OBVIOUS
    <3>1. t # s /\ t \in pass.todo
      BY <1>1
    <3>2. t \in DOMAIN art /\ art'[t] = art[t]
      BY <3>1 DEF Answers
    <3> QED BY <1>0, <3>1, <3>2 DEF PassOK
  <2>2. pass'.todo # {} => Live \cap Planned \subseteq pass'.texts \cup excused["profile"]
    BY <1>0, <1>1 DEF PassOK
  <2> QED BY <1>1, <1>2, <1>3, <1>9, <2>1, <2>2 DEF PassOK
<1>11. FinishedOK'
  BY <1>1, <1>2, <1>9 DEF FinishedOK
<1>12. EveryReadingIsKept'
  <2> SUFFICES ASSUME NEW a \in answered', a \notin kept
               PROVE  /\ a[1] \in DOMAIN art'
                      /\ art'[a[1]].status = "ok" /\ art'[a[1]].covers = a[2]
    BY DEF EveryReadingIsKept
  <2>1. CASE a[1] # s
    <3>1. a[1] \in DOMAIN art /\ art[a[1]].status = "ok" /\ art[a[1]].covers = a[2]
      BY <1>0, <2>1 DEF EveryReadingIsKept
    <3> QED BY <2>1, <3>1 DEF Answers
  <2>2. CASE a[1] = s
    <3>1. a = <<a[1], a[2]>>
      OBVIOUS
    <3>2. a \in answered => s \in DOMAIN art /\ art[s].covers = a[2]
      BY <1>0, <2>2 DEF EveryReadingIsKept
    <3>3. s \in DOMAIN art => <<s, art[s].covers>> \in kept
      BY <1>0 DEF PassOK
    <3> QED BY <2>2, <3>1, <3>2, <3>3
  <2> QED BY <2>1, <2>2
<1> QED BY <1>4, <1>5, <1>6, <1>7, <1>10, <1>11, <1>12, Together

LEMMA InFlightIsToDo == InFlight \subseteq pass.todo
BY DEF InFlight

(* An artifact put under the batch id.                                     *)
LEMMA PutFacts ==
  ASSUME CompileTypeOK, NEW s, NEW record \in Artifact, Keep(s, record)
  PROVE  /\ DOMAIN art' = DOMAIN art \cup {s} /\ art'[s] = record
         /\ \A t \in DOMAIN art \ {s} : art'[t] = art[t]
         /\ \A t \in DOMAIN art' : art'[t] \in Artifact
         /\ Leave(s, pass.failed)
BY ArtTypes DEF Keep

LEMMA ProfiledKeeps ==
  ASSUME CompileInv, NEW s \in pass.todo, Profiled(s)
  PROVE  CompileInv'
<1>0. CompileTypeOK /\ PlanOK /\ PassOK
  BY Parts
<1> DEFINE batch == plan.batches[s]
           record == [status |-> "ok", covers |-> CoverageDigest(batch),
                      blank |-> Named(batch.ids) \ pass.texts]
<1>1. /\ Keep(s, record) /\ answered' = answered \cup {<<s, CoverageDigest(batch)>>}
      /\ UNCHANGED <<now, row, writes, cursor, plan, kept, reader, selected, fresh, retired, excused>>
  BY DEF Profiled, storeVars
<1>2. s \in DOMAIN plan.batches /\ s \in Nat
  BY <1>0, NamedTypes DEF PassOK, Candidates
<1>3. CoverageDigest(batch) \in Digest
  BY <1>0, <1>2, DigestTypes
<1>4. Named(batch.ids) \subseteq Planned /\ Planned \subseteq Memory
  BY <1>0, <1>2, NamedTypes
<1>5. record \in Artifact
  BY <1>3, <1>4 DEF Artifact
<1>6. record.status = "ok" /\ record.covers = CoverageDigest(batch)
      /\ record.blank = Named(batch.ids) \ pass.texts
  OBVIOUS
<1> HIDE DEF record
<1>7. /\ DOMAIN art' = DOMAIN art \cup {s} /\ art'[s] = record
      /\ \A t \in DOMAIN art \ {s} : art'[t] = art[t]
      /\ \A t \in DOMAIN art' : art'[t] \in Artifact
      /\ Leave(s, pass.failed)
  BY <1>0, <1>1, <1>5, PutFacts
<1>8. /\ \A m \in record.blank : row[m] # Unwritten
      /\ record.blank \cap Live \subseteq excused["profile"]
  <2>1. Live \cap Planned \subseteq pass.texts \cup excused["profile"]
    BY <1>0 DEF PassOK
  <2> QED BY <1>0, <1>4, <1>6, <2>1 DEF PlanOK
<1>9. Answers(s)
  BY <1>7, <1>8 DEF Answers
<1>10. Done(s)'
  <2>1. Live' = Live /\ CoverageDigest(plan.batches[s])' = CoverageDigest(plan.batches[s])
    BY <1>1, StoreStays DEF CoverageDigest
  <2> QED BY <1>1, <1>6, <1>7, <1>8, <2>1 DEF Done
<1>11. answered' \subseteq Nat \X Digest
  BY <1>0, <1>1, <1>2, <1>3 DEF CompileTypeOK
<1>12. \A a \in answered' : \/ a \in answered
                            \/ /\ a[1] = s /\ s \in DOMAIN art'
                               /\ art'[s].status = "ok" /\ art'[s].covers = a[2]
  BY <1>1, <1>6, <1>7
<1>13. pass.failed \in BOOLEAN
  BY <1>0, PassTypes
<1> QED BY <1>1, <1>7, <1>9, <1>10, <1>11, <1>12, <1>13, AnswersKeep

LEMMA RefusedKeeps ==
  ASSUME CompileInv, NEW s \in pass.todo, Refused(s)
  PROVE  CompileInv'
<1>0. CompileTypeOK /\ PassOK
  BY Parts
<1> DEFINE record == [status |-> "refused", covers |-> Unknown, blank |-> {}]
<1>1. /\ Keep(s, record)
      /\ UNCHANGED <<now, row, writes, cursor, plan, kept, reader, selected, fresh, retired,
                     excused, answered>>
  BY DEF Refused, storeVars
<1>2. record \in Artifact
  BY DEF Artifact, Unknown, Digest
<1>3. record.status = "refused" /\ record.blank = {}
  OBVIOUS
<1> HIDE DEF record
<1>4. /\ DOMAIN art' = DOMAIN art \cup {s} /\ art'[s] = record
      /\ \A t \in DOMAIN art \ {s} : art'[t] = art[t]
      /\ \A t \in DOMAIN art' : art'[t] \in Artifact
      /\ Leave(s, pass.failed)
  BY <1>0, <1>1, <1>2, PutFacts
<1>5. Answers(s)
  BY <1>3, <1>4 DEF Answers
<1>6. Done(s)'
  BY <1>3, <1>4 DEF Done
<1>7. answered' \subseteq Nat \X Digest /\ pass.failed \in BOOLEAN
  BY <1>0, <1>1, PassTypes DEF CompileTypeOK
<1> QED BY <1>1, <1>4, <1>5, <1>6, <1>7, AnswersKeep

LEMMA FailedKeeps ==
  ASSUME CompileInv, NEW s \in pass.todo, Failed(s)
  PROVE  CompileInv'
<1>0. CompileTypeOK /\ ArtOK
  BY Parts
<1>1. /\ Leave(s, TRUE)
      /\ UNCHANGED <<now, row, writes, cursor, plan, art, kept, reader, selected, fresh, retired,
                     excused, answered>>
  BY DEF Failed, storeVars, diskVars
<1>2. Answers(s)
  BY <1>0, <1>1, ArtTypes DEF Answers, ArtOK
<1>3. answered' \subseteq Nat \X Digest
  BY <1>0, <1>1 DEF CompileTypeOK
<1> QED BY <1>1, <1>2, <1>3, AnswersKeep

LEMMA NothingBeforeNever ==
  ASSUME CompileTypeOK, UNCHANGED row
  PROVE  \A m \in Live' : ~(row'[m].touched < Never)
<1>1. Live' = Live /\ Live \subseteq Memory
  BY StoreStays, Positions
<1>2. \A m \in Memory : row[m].touched >= Never /\ row[m].touched \in Int
  BY RowTypes, Sizes DEF Stamp, Never
<1> QED BY <1>1, <1>2 DEF Never

(* A run directory that has nothing in it yet.                             *)
LEMMA NewRunFacts ==
  ASSUME NewRun, pass' = NoPass, \A m \in Live' : ~(row'[m].touched < Never)
  PROVE  /\ plan'.batches = <<>> /\ plan'.readAt = Never /\ Planned' = {}
         /\ PlanOK' /\ PlanInv' /\ PassOK' /\ ArtOK' /\ FinishedOK' /\ EveryReadingIsKept'
<1>1. /\ plan' = NoPlan /\ finished' = FALSE /\ selected' = {} /\ fresh' = {}
      /\ DOMAIN art' = {} /\ answered' = {}
  BY DEF NewRun
<1>2. plan'.batches = <<>> /\ plan'.readAt = Never /\ DOMAIN plan'.batches = {}
  BY <1>1, IdleTypes
<1>3. Planned' = {}
  BY <1>2 DEF Planned
<1>5. PlanOK'
  BY <1>1, <1>2, <1>3 DEF PlanOK
<1>6. PlanIsAPartition'
  BY <1>1, <1>2 DEF PlanIsAPartition
<1>7. SessionsAreWhole'
  BY <1>1, <1>2 DEF SessionsAreWhole
<1>8. PassOK'
  BY <1>1, IdleTypes DEF PassOK
<1>9. ArtOK' /\ FinishedOK' /\ EveryReadingIsKept'
  BY <1>1 DEF ArtOK, FinishedOK, EveryReadingIsKept
<1> QED BY <1>2, <1>3, <1>5, <1>6, <1>7, <1>8, <1>9 DEF PlanInv

LEMMA NewRunTypes ==
  ASSUME CompileTypeOK, NewRun, pass' = NoPass,
         UNCHANGED <<now, row, writes, reader>>, retired' \subseteq Memory,
         cursor' \in [run : Nat \ {0}, at : Stamp],
         excused' \in [{"plan", "profile", "second"} -> SUBSET Memory]
  PROVE  CompileTypeOK'
<1>1. plan' \in [readAt : Stamp, batches : Seq(BatchType)]
  BY RowTypes DEF NewRun, NoPlan
<1>2. pass' \in [texts : SUBSET Memory, todo : SUBSET DOMAIN plan'.batches, failed : BOOLEAN]
  BY DEF NoPass
<1>3. /\ finished' = FALSE /\ selected' = {} /\ fresh' = {} /\ DOMAIN art' = {}
      /\ kept' = {} /\ answered' = {}
  BY DEF NewRun
<1> QED BY <1>1, <1>2, <1>3 DEF CompileTypeOK

LEMMA CloseRunKeeps == CompileInv /\ CloseRun => CompileInv'
<1> SUFFICES ASSUME CompileInv, CloseRun PROVE CompileInv'
  OBVIOUS
<1>0. /\ CompileTypeOK /\ ClockOK /\ ReaderOK /\ AheadOfPlan /\ AheadOfProfile
      /\ PlanOK /\ PassOK /\ ArtOK /\ FinishedOK /\ CursorOK /\ PlanInv /\ EveryReadingIsKept
  BY Parts
<1>1. /\ reader = Idle /\ pass = NoPass /\ NewRun
      /\ cursor' = [run |-> cursor.run + 1, at |-> plan.readAt]
      /\ retired' = retired \cup (fresh \cap Named(selected))
      /\ UNCHANGED <<now, row, writes, reader, pass>>
  BY DEF CloseRun, Quiet, storeVars
<1> DEFINE late == {m \in Live \ retired' : row[m].touched = plan.readAt}
<1>2. excused' = [excused EXCEPT !["second"] = @ \cup late]
  BY DEF CloseRun
<1>3. late \subseteq Memory
  BY Positions
<1>4. \A m \in Live : m \notin retired' /\ row[m].touched = plan.readAt => m \in late
  OBVIOUS
<1> HIDE DEF late
<1>5. /\ excused' \in [{"plan", "profile", "second"} -> SUBSET Memory]
      /\ excused'["plan"] = excused["plan"] /\ excused'["profile"] = excused["profile"]
      /\ excused'["second"] = excused["second"] \cup late
  BY <1>0, <1>2, <1>3 DEF CompileTypeOK
<1>6. retired' \subseteq Memory
  BY <1>0, <1>1 DEF CompileTypeOK
<1>7. cursor' \in [run : Nat \ {0}, at : Stamp]
  BY <1>0, <1>1, PlanTypes
<1>8. CompileTypeOK'
  BY <1>0, <1>1, <1>5, <1>6, <1>7, NewRunTypes
<1>9. /\ plan'.readAt = Never
      /\ PlanOK' /\ PlanInv' /\ PassOK' /\ ArtOK' /\ FinishedOK' /\ EveryReadingIsKept'
  <2>1. pass' = NoPass
    BY <1>1
  <2>2. \A m \in Live' : ~(row'[m].touched < Never)
    BY <1>0, <1>1, NothingBeforeNever
  <2> QED BY <1>0, <1>1, <2>1, <2>2, NewRunFacts
<1>10. cursor'.at = plan.readAt /\ now \in Nat /\ plan.readAt <= now
  BY <1>0, <1>1, RowTypes DEF ClockOK
<1>11. ReadInv'
  <2>1. Never <= now
    BY <1>10 DEF Never
  <2> QED BY <1>0, <1>1, <1>9, <1>10, <2>1, IdleReader
<1>12. CursorOK'
  <2> SUFFICES ASSUME NEW m \in Live, ~(row[m].touched > plan.readAt), m \notin retired',
                      m \notin excused'["plan"]
               PROVE  m \in excused'["second"]
    BY <1>1, <1>10, StoreStays DEF CursorOK
  <2>1. row[m].touched \in Int /\ plan.readAt \in Int
    BY <1>0, RowTypes, PlanTypes, Positions
  <2>2. CASE row[m].touched = plan.readAt
    BY <1>4, <1>5, <2>2
  <2>3. CASE row[m].touched < plan.readAt
    <3>1. m \in fresh
      BY <1>0, <1>5, <2>3 DEF PlanOK
    <3>2. m \notin Named(selected)
      BY <1>1, <3>1
    <3>3. cursor.at # Never /\ ~(row[m].touched > cursor.at)
      BY <1>0, <3>1, <3>2 DEF PlanOK
    <3>4. m \in retired \cup excused["second"] \cup excused["plan"]
      BY <1>0, <3>3 DEF CursorOK
    <3> QED BY <1>1, <1>5, <3>4
  <2> QED BY <2>1, <2>2, <2>3
<1> QED BY <1>8, <1>9, <1>11, <1>12 DEF CompileInv, RunInv

LEMMA CrashInCloseKeeps == CompileInv /\ CrashInClose => CompileInv'
<1> SUFFICES ASSUME CompileInv, CrashInClose PROVE CompileInv'
  OBVIOUS
<1>0. CompileTypeOK /\ ClockOK
  BY Parts
<1>1. /\ reader = Idle /\ pass = NoPass /\ NewRun /\ cursor' = Empty
      /\ UNCHANGED <<now, row, writes, reader, pass, retired, excused>>
  BY DEF CrashInClose, Quiet, storeVars
<1>2. cursor' \in [run : Nat \ {0}, at : Stamp] /\ cursor'.at = Never
  BY <1>0, <1>1, RowTypes DEF Empty
<1>3. retired' \subseteq Memory /\ excused' \in [{"plan", "profile", "second"} -> SUBSET Memory]
      /\ pass' = NoPass
  BY <1>0, <1>1 DEF CompileTypeOK
<1>4. CompileTypeOK'
  BY <1>0, <1>1, <1>2, <1>3, NewRunTypes
<1>5. /\ plan'.readAt = Never
      /\ PlanOK' /\ PlanInv' /\ PassOK' /\ ArtOK' /\ FinishedOK' /\ EveryReadingIsKept'
  <2>1. \A m \in Live' : ~(row'[m].touched < Never)
    BY <1>0, <1>1, NothingBeforeNever
  <2> QED BY <1>0, <1>1, <1>3, <2>1, NewRunFacts
<1>6. ReadInv'
  <2>1. now \in Nat /\ Never <= now
    BY <1>0, RowTypes DEF Never
  <2> QED BY <1>0, <1>1, <1>2, <1>5, <2>1, IdleReader
<1>7. CursorOK'
  BY <1>2 DEF CursorOK
<1> QED BY <1>4, <1>5, <1>6, <1>7 DEF CompileInv, RunInv

LEMMA CrashKeeps == CompileInv /\ Crash => CompileInv'
<1> SUFFICES ASSUME CompileInv, Crash PROVE CompileInv'
  OBVIOUS
<1>0. /\ CompileTypeOK /\ ClockOK /\ ReaderOK /\ AheadOfPlan /\ AheadOfProfile
      /\ PlanOK /\ PassOK /\ ArtOK /\ FinishedOK /\ CursorOK /\ PlanInv /\ EveryReadingIsKept
  BY Parts
<1>1. /\ reader' = Idle /\ pass' = NoPass
      /\ UNCHANGED <<now, row, writes, cursor, kept, retired, excused, answered>>
  BY DEF Crash, storeVars
<1>2. pass' \in [texts : SUBSET Memory, todo : SUBSET DOMAIN plan'.batches, failed : BOOLEAN]
      /\ reader' \in [cmd : {"none", "plan", "profile"}, began : Stamp, start : Nat,
                      rows : SUBSET RowRead, fresh : SUBSET Memory]
  BY <1>0, <1>1, RowTypes DEF NoPass, Idle
<1>3. now \in Nat /\ Never <= now /\ cursor'.at <= now
  BY <1>0, <1>1, RowTypes DEF ClockOK, Never
<1>4. CursorOK'
  BY <1>0, <1>1, CursorStays
<1>5. Live' = Live
  BY <1>1, StoreStays
(* A plan cut short is no plan.                                            *)
<1>6. CASE /\ plan' = NoPlan /\ finished' = FALSE /\ selected' = {} /\ fresh' = {} /\ art' = art
  <2>1. plan'.readAt = Never /\ plan'.batches = <<>> /\ DOMAIN plan'.batches = {}
    BY <1>6, IdleTypes
  <2>2. plan' \in [readAt : Stamp, batches : Seq(BatchType)]
    BY <1>0, <1>6, RowTypes DEF NoPlan
  <2>3. CompileTypeOK'
    BY <1>0, <1>1, <1>2, <1>6, <2>2 DEF CompileTypeOK
  <2>4. ReadInv'
    BY <1>0, <1>1, <1>3, <2>1, IdleReader
  <2>5. Planned' = {}
    BY <2>1 DEF Planned
  <2>6. \A m \in Live' : ~(row'[m].touched < Never)
    BY <1>0, <1>1, NothingBeforeNever
  <2>7. PlanOK'
    BY <1>6, <2>1, <2>5, <2>6 DEF PlanOK
  <2>8. PlanIsAPartition' /\ SessionsAreWhole'
    BY <1>6, <2>1 DEF PlanIsAPartition, SessionsAreWhole
  <2>9. PassOK' /\ ArtOK' /\ FinishedOK' /\ EveryReadingIsKept'
    BY <1>0, <1>1, <1>5, <1>6, IdleTypes
       DEF PassOK, ArtOK, FinishedOK, EveryReadingIsKept
  <2> QED BY <1>4, <2>3, <2>4, <2>7, <2>8, <2>9 DEF CompileInv, RunInv, PlanInv
(* An artifact cut short is no artifact; its batch has no answer yet.      *)
<1>7. ASSUME UNCHANGED <<plan, finished, selected, fresh>>,
             \/ art' = art
             \/ \E s \in InFlight : art' = Without({s})
      PROVE  CompileInv'
  <2>1. /\ DOMAIN art' \subseteq DOMAIN art
        /\ \A t \in DOMAIN art' : art'[t] = art[t]
        /\ \A t \in DOMAIN art : t \notin pass.todo => t \in DOMAIN art'
        /\ pass.todo = {} => art' = art
    BY <1>7, InFlightIsToDo DEF Without
  <2>2. CompileTypeOK'
    <3>1. DOMAIN art' \subseteq Nat /\ \A s \in DOMAIN art' : art'[s] \in Artifact
      BY <1>0, <2>1, ArtTypes
    <3> QED BY <1>0, <1>1, <1>2, <1>7, <3>1 DEF CompileTypeOK
  <2>3. ReadInv'
    <3>1. plan'.readAt <= now
      BY <1>0, <1>7 DEF ClockOK
    <3> QED BY <1>0, <1>1, <1>3, <3>1, IdleReader
  <2>4. PlanOK' /\ PlanInv'
    BY <1>0, <1>1, <1>7, PlanStays
  <2>5. PassOK'
    BY <1>1, IdleTypes DEF PassOK
  <2>6. ArtOK'
    BY <1>0, <1>1, <1>5, <2>1 DEF ArtOK
  <2>7. FinishedOK'
    <3> SUFFICES ASSUME finished, NEW s \in Candidates(plan) PROVE Done(s)'
      BY <1>7 DEF FinishedOK, Candidates
    <3>1. pass.todo = {} /\ Done(s)
      BY <1>0 DEF PassOK, FinishedOK
    <3>2. art' = art /\ CoverageDigest(plan.batches[s])' = CoverageDigest(plan.batches[s])
      BY <1>7, <2>1, <3>1 DEF CoverageDigest
    <3> QED BY <1>1, <1>5, <3>1, <3>2 DEF Done
  <2>8. EveryReadingIsKept'
    <3> SUFFICES ASSUME NEW a \in answered, a \notin kept
                 PROVE  /\ a[1] \in DOMAIN art'
                        /\ art'[a[1]].status = "ok" /\ art'[a[1]].covers = a[2]
      BY <1>1 DEF EveryReadingIsKept
    <3>1. a[1] \in DOMAIN art /\ art[a[1]].status = "ok" /\ art[a[1]].covers = a[2]
      BY <1>0 DEF EveryReadingIsKept
    <3>2. a = <<a[1], a[2]>>
      BY <1>0 DEF CompileTypeOK
    <3>3. a[1] \notin pass.todo
      BY <1>0, <3>1, <3>2 DEF PassOK
    <3> QED BY <2>1, <3>1, <3>3
  <2> QED BY <1>4, <2>2, <2>3, <2>4, <2>5, <2>6, <2>7, <2>8 DEF CompileInv, RunInv
<1> QED BY <1>6, <1>7 DEF Crash

LEMMA CompileStarts == CompileInit => CompileInv
<1> SUFFICES ASSUME CompileInit PROVE CompileInv
  OBVIOUS
<1>1. /\ now = 0 /\ writes = 0 /\ cursor = Empty /\ reader = Idle /\ plan = NoPlan /\ pass = NoPass
      /\ finished = FALSE /\ DOMAIN art = {} /\ kept = {} /\ selected = {} /\ fresh = {}
      /\ retired = {} /\ answered = {}
      /\ excused = [reason \in {"plan", "profile", "second"} |-> {}]
      /\ row = [m \in Memory |-> IF m \in Existing THEN [born |-> 0, touched |-> 0] ELSE Unwritten]
  BY DEF CompileInit
<1>2. 0 \in Stamp /\ Never \in Stamp /\ 0 \in 0..MaxTime /\ 0 \in 0..MaxWrites
  BY Sizes DEF Stamp, Never
<1>3. /\ cursor.at = Never /\ plan.readAt = Never /\ plan.batches = <<>> /\ reader.began = Never
      /\ reader.cmd = "none" /\ reader.rows = {} /\ reader.fresh = {} /\ pass.todo = {}
  BY <1>1, IdleTypes DEF Empty
<1>4. /\ row \in [Memory -> [born : Stamp, touched : Stamp]]
      /\ \A m \in Memory : row[m].touched <= 0 /\ (m \notin Live => row[m] = Unwritten)
      /\ \A m \in Memory : ~(row[m].touched < Never)
  BY <1>1, <1>2 DEF Unwritten, Never, Live
<1>5. CompileTypeOK
  <2>1. cursor \in [run : Nat \ {0}, at : Stamp] /\ plan \in [readAt : Stamp, batches : Seq(BatchType)]
    BY <1>1, <1>2 DEF Empty, NoPlan
  <2>2. pass \in [texts : SUBSET Memory, todo : SUBSET DOMAIN plan.batches, failed : BOOLEAN]
        /\ reader \in [cmd : {"none", "plan", "profile"}, began : Stamp, start : Nat,
                       rows : SUBSET RowRead, fresh : SUBSET Memory]
    BY <1>1, <1>2 DEF NoPass, Idle
  <2> QED BY <1>1, <1>2, <1>4, <2>1, <2>2 DEF CompileTypeOK
<1>6. Planned = {} /\ Live \subseteq Memory
  BY <1>3, Positions DEF Planned
<1>7. ClockOK
  BY <1>1, <1>3, <1>4, <1>6 DEF ClockOK, Never
<1>8. ReaderOK /\ AheadOfPlan /\ AheadOfProfile
  BY <1>1, <1>3, FS_EmptySet DEF ReaderOK, AheadOfPlan, AheadOfProfile
<1>9. PlanOK
  BY <1>1, <1>3, <1>4, <1>6 DEF PlanOK
<1>10. PassOK /\ ArtOK /\ FinishedOK /\ EveryReadingIsKept /\ CursorOK
  BY <1>1, <1>3 DEF PassOK, ArtOK, FinishedOK, EveryReadingIsKept, CursorOK
<1>11. PlanIsAPartition /\ SessionsAreWhole
  BY <1>1, <1>3 DEF PlanIsAPartition, SessionsAreWhole
<1> QED BY <1>5, <1>7, <1>8, <1>9, <1>10, <1>11 DEF CompileInv, ReadInv, RunInv, PlanInv

LEMMA StutterKeeps == CompileInv /\ UNCHANGED compileVars => CompileInv'
<1> SUFFICES ASSUME CompileInv, UNCHANGED compileVars PROVE CompileInv'
  OBVIOUS
<1>0. /\ CompileTypeOK /\ ClockOK /\ ReaderOK /\ AheadOfPlan /\ AheadOfProfile
      /\ PlanOK /\ PassOK /\ ArtOK /\ FinishedOK /\ CursorOK /\ PlanInv /\ EveryReadingIsKept
  BY Parts
<1>1. UNCHANGED <<now, row, cursor, reader, plan, pass, finished, art, kept,
                  writes, selected, fresh, retired, excused, answered>>
  BY DEF compileVars
<1>2. CompileTypeOK'
  BY <1>0, <1>1 DEF CompileTypeOK
<1>3. ClockOK'
  BY <1>0, <1>1, ClockStays DEF ClockOK
<1> QED BY <1>0, <1>1, <1>2, <1>3, ReaderStays, PlanStays, RunStays, CursorStays, Together

LEMMA CompileStepKeeps == CompileInv /\ [CompileNext]_compileVars => CompileInv'
<1> SUFFICES ASSUME CompileInv, [CompileNext]_compileVars PROVE CompileInv'
  OBVIOUS
<1>1. ASSUME NEW m \in Memory, Write(m) \/ Delete(m) PROVE CompileInv'
  BY <1>1, WriteKeeps, DeleteKeeps
<1>2. ASSUME NEW cmd \in {"plan", "profile"}, Start(cmd) PROVE CompileInv'
  BY <1>2, StartKeeps
<1>3. ASSUME NEW s \in pass.todo, Profiled(s) \/ Refused(s) \/ Failed(s) PROVE CompileInv'
  BY <1>3, ProfiledKeeps, RefusedKeeps, FailedKeeps
<1> QED BY <1>1, <1>2, <1>3, StutterKeeps, TickKeeps, NextPageKeeps, WritePlanKeeps,
           StartPassKeeps, CloseRunKeeps, CrashKeeps, CrashInCloseKeeps DEF CompileNext

-------------------------------------------------------------------------------
(* What follows.                                                           *)

LEMMA NothingIsSkipped == CompileInv => CursorSkipsNothing
<1> SUFFICES ASSUME CompileInv, cursor.at # Never, NEW m \in Live,
                    m \notin retired \cup excused["second"] \cup excused["plan"]
             PROVE  m \in Named(Ids(SelectSince(Store, cursor.at)))
  BY DEF CursorSkipsNothing
<1> DEFINE r == RowOf(m, 0)
<1>1. r \in Store /\ r.id = m /\ r.page = 0 /\ r.touched = row[m].touched
  BY DEF Store, RowOf
<1>2. row[m].touched > cursor.at
  BY Parts DEF CursorOK
<1> HIDE DEF r
<1>3. r \in SelectSince(Store, cursor.at)
  BY <1>1, <1>2 DEF SelectSince, Moved
<1>4. <<m, 0>> \in Ids(SelectSince(Store, cursor.at))
  BY <1>1, <1>3 DEF Ids
<1>5. <<m, 0>>[1] = m
  OBVIOUS
<1> QED BY <1>4, <1>5 DEF Named

LEMMA FinishedRunIsProfiled == CompileInv => FinishedIsProfiled
BY Parts DEF FinishedOK, Done, FinishedIsProfiled

(* The inductive invariant holds in every state of a compile run.          *)
THEOREM CompileIsSound == CompileSpec => []CompileInv
<1> QED BY CompileStarts, CompileStepKeeps, PTL DEF CompileSpec

(* What the variables of a compile run can be.                             *)
THEOREM CompileTypeCorrect == CompileSpec => []CompileTypeOK
<1>1. CompileInv => CompileTypeOK
  BY Parts
<1> QED BY <1>1, CompileIsSound, PTL

(* plan_batches drops no row that was selected, puts none into two batches *)
(* and makes no batch longer than the ceiling.                             *)
THEOREM PlansPartition == CompileSpec => []PlanIsAPartition
<1>1. CompileInv => PlanIsAPartition
  BY Parts DEF PlanInv
<1> QED BY <1>1, CompileIsSound, PTL

(* A session is planned whole or not at all, and only a part of one that   *)
(* is too long, or a chunk of the ledger, is cut (select_since).           *)
THEOREM SessionsComeBackWhole == CompileSpec => []SessionsAreWhole
<1>1. CompileInv => SessionsAreWhole
  BY Parts DEF PlanInv
<1> QED BY <1>1, CompileIsSound, PTL

(* What the cursor of a closed run passes over was planned, up to the two  *)
(* exceptions that CursorSkipsNothing names.                               *)
THEOREM NothingSlipsPastTheCursor == CompileSpec => []CursorSkipsNothing
<1> QED BY NothingIsSkipped, CompileIsSound, PTL

(* A pass that reported no failure left an answer for every batch, to the  *)
(* very memories that the batch names.                                     *)
THEOREM ClosedRunsAreProfiled == CompileSpec => []FinishedIsProfiled
<1> QED BY FinishedRunIsProfiled, CompileIsSound, PTL

(* No answer of the endpoint is ever overwritten in its run.               *)
THEOREM ReadingsAreKept == CompileSpec => []EveryReadingIsKept
<1>1. CompileInv => EveryReadingIsKept
  BY Parts
<1> QED BY <1>1, CompileIsSound, PTL

================================================================================
