--------------------------- MODULE Memory_proofs ---------------------------
(***************************************************************************)
(* What the memory promises, for any processes, episodes, proposals and    *)
(* limits.                                                                 *)
(*                                                                         *)
(* Every action is first shown to be one of a few kinds of step (Step),    *)
(* which keep of it what the invariants tell apart.  The invariants are    *)
(* proved of the kinds: a job has at hand what its stage is about          *)
(* (Placed), who works holds the lock (Locked), and from these, what was   *)
(* read stays true until it is used (Tainted, Standing, Mining, Caught).   *)
(***************************************************************************)
EXTENDS Memory, FiniteSetTheorems, SequenceTheorems, TLAPS

----------------------------------------------------------------------------
(* The operators.                                                          *)

\* A set of naturals has a least one.
LEMMA Least ==
  ASSUME NEW S \in SUBSET Nat, S # {}
  PROVE  \E x \in S : \A y \in S : x <= y
<1> DEFINE R == OpToRel(<, Nat)
<1>1. IsWellFoundedOn(R, Nat) BY NatLessThanWellFounded
<1>2. \A x, y \in Nat : x < y => <<x, y>> \in R BY DEF OpToRel
<1> HIDE DEF R
<1>3. PICK x \in S : \A y \in S : <<y, x>> \notin R BY <1>1, WFMin
<1>4. ASSUME NEW y \in S PROVE x <= y
  <2>1. x \in Nat /\ y \in Nat OBVIOUS
  <2>2. ~(y < x) BY <1>2, <1>3, <2>1
  <2> QED BY <2>1, <2>2
<1> QED BY <1>4

\* The operator Min of the community modules returns a member.
LEMMA MinIn ==
  ASSUME NEW S \in SUBSET Nat, S # {}
  PROVE  Min(S) \in S
BY Least DEF Min

\* A page holds members only, some if there are any, and all if they fit.
LEMMA Paged ==
  ASSUME NEW S \in SUBSET Nat, NEW n \in Nat \ {0}
  PROVE  /\ Page(S, n) \subseteq S
         /\ S # {} => Page(S, n) # {}
         /\ IsFiniteSet(S) /\ ~(Cardinality(S) >= n) => Page(S, n) = S
<1>1. ASSUME S # {} PROVE Page(S, n) # {}
  <2>1. PICK x \in S : \A y \in S : x <= y BY <1>1, Least
  <2>2. {y \in S : y < x} = {}
    <3>1. ASSUME NEW y \in S PROVE ~(y < x)
      <4>1. x \in Nat /\ y \in Nat /\ x <= y BY <2>1
      <4> QED BY <4>1
    <3> QED BY <3>1
  <2>3. Cardinality({y \in S : y < x}) < n BY <2>2, FS_EmptySet
  <2> QED BY <2>3 DEF Page
<1>2. ASSUME IsFiniteSet(S), ~(Cardinality(S) >= n), NEW x \in S
      PROVE  Cardinality({y \in S : y < x}) < n
  <2> DEFINE T == {y \in S : y < x}
  <2>1. T \subseteq S OBVIOUS
  <2>2. IsFiniteSet(T) /\ Cardinality(T) <= Cardinality(S) BY <1>2, <2>1, FS_Subset
  <2>3. Cardinality(T) \in Nat /\ Cardinality(S) \in Nat BY <1>2, <2>2, FS_CardinalityType
  <2> QED BY <1>2, <2>2, <2>3
<1> QED BY <1>1, <1>2 DEF Page

\* The episode at hand and the proposal at hand are some.
LEMMA AtHand ==
  ASSUME NEW p \in Process, work[p] \in Job
  PROVE  /\ work[p].page # {} => Reading(p) \in work[p].page /\ Reading(p) \in Episode
         /\ work[p].offers # {} => Offered(p) \in work[p].offers /\ Offered(p) \in Proposal
<1>1. work[p].page \in SUBSET Episode /\ work[p].offers \in SUBSET Proposal BY DEF Job
<1>2. Episode \in SUBSET Nat /\ Proposal \in SUBSET Nat BY Words
<1>3. work[p].page \in SUBSET Nat /\ work[p].offers \in SUBSET Nat BY <1>1, <1>2
<1> QED BY <1>1, <1>3, MinIn DEF Reading, Offered

\* After an episode a job is at the next one, at the proposals or at its end.
LEMMA NextTextIs ==
  ASSUME NEW w \in Job,
         status \in [Proposal -> Fates]
  PROVE  /\ NextText(w) \in Job
         /\ NextText(w).by = w.by /\ NextText(w).page = w.page
         /\ NextText(w).full = w.full /\ NextText(w).moved = w.moved
         /\ NextText(w).clean = w.clean /\ NextText(w).added = w.added
         /\ w.page # {} => NextText(w).at = "extract"
         /\ w.page = {} => \/ NextText(w).at = "end"
                           \/ NextText(w).at = "offer" /\ NextText(w).offers # {}
<1> DEFINE offers == Page(Staged, DrainLimit)
           more == Cardinality(offers) = DrainLimit
<1>1. offers \in SUBSET Proposal
  <2>1. Staged \in SUBSET Nat /\ Staged \subseteq Proposal BY Words DEF Staged
  <2> QED BY <2>1, Limits, Paged
<1>2. more \in BOOLEAN OBVIOUS
<1>3. CASE w.page # {}
  <2>1. NextText(w) = [w EXCEPT !.at = "extract"] BY <1>3 DEF NextText
  <2> QED BY <1>3, <2>1 DEF Job
<1>4. CASE w.page = {}
  <2>1. NextText(w) = [w EXCEPT !.at = IF offers = {} THEN "end" ELSE "offer",
                                !.offers = offers, !.more = more]
    BY <1>4 DEF NextText
  <2> HIDE DEF offers, more
  <2> QED BY <1>1, <1>2, <1>4, <2>1 DEF Job
<1> QED BY <1>3, <1>4

\* A batch that is done with an episode has one less to read.
LEMMA TurnedIs ==
  ASSUME NEW w \in Job, w.page # {}
  PROVE  /\ Turned(w) \in Job
         /\ Turned(w).by = w.by /\ Turned(w).at = w.at /\ Turned(w).page = w.page \ {Min(w.page)}
         /\ Turned(w).full = w.full /\ Turned(w).moved = w.moved
         /\ Turned(w).clean = w.clean /\ Turned(w).added = w.added
BY DEF Turned, Job

\* After a proposal a job is at the next one or at its end.
LEMMA ResolvedIs ==
  ASSUME NEW w \in Job
  PROVE  /\ Resolved(w) \in Job
         /\ Resolved(w).by = w.by /\ Resolved(w).page = w.page
         /\ Resolved(w).full = w.full /\ Resolved(w).moved = w.moved
         /\ Resolved(w).clean = w.clean /\ Resolved(w).added = w.added
         /\ \/ Resolved(w).at = "end"
            \/ Resolved(w).at = "offer" /\ Resolved(w).offers # {}
<1> DEFINE others == w.offers \ {Min(w.offers)}
           where == IF others = {} THEN "end" ELSE "offer"
<1>1. Resolved(w) = [w EXCEPT !.at = where, !.offers = others, !.basis = 0, !.tier = 0]
  BY DEF Resolved
<1>2. others \in SUBSET Proposal BY DEF Job
<1>3. where = "end" \/ (where = "offer" /\ others # {}) OBVIOUS
<1> HIDE DEF others, where
<1>4. where \in {"offer", "end"} /\ 0 \in 0 .. 1 /\ 0 \in Nat BY <1>3
<1>5. Resolved(w) \in Job BY <1>1, <1>2, <1>4 DEF Job
<1>6. /\ Resolved(w).by = w.by /\ Resolved(w).page = w.page
      /\ Resolved(w).full = w.full /\ Resolved(w).moved = w.moved
      /\ Resolved(w).clean = w.clean /\ Resolved(w).added = w.added
      /\ Resolved(w).at = where /\ Resolved(w).offers = others
  BY <1>1 DEF Job
<1> QED BY <1>3, <1>5, <1>6

\* A run that ends has what came meanwhile, or the drain, follow it.
LEMMA RestedIs ==
  ASSUME NEW c \in Consolidator, NEW drains \in BOOLEAN,
         NEW outcome \in {"none", "ran", "partly", "budget", "busy", "error"}
  PROVE  /\ Rested(c, drains, outcome) \in Consolidator
         /\ Rested(c, drains, outcome).last = outcome
         /\ Rested(c, drains, outcome).stopped = c.stopped
         /\ ~c.stopped => /\ ~Rested(c, drains, outcome).again
                          /\ c.again \/ drains => Rested(c, drains, outcome).timer # "off"
                          /\ ~c.again /\ ~drains => Rested(c, drains, outcome).timer = c.timer
BY DEF Rested, Consolidator

\* The belief recorded last is one of them, or none.
LEMMA NewestIs ==
  ASSUME facts \in Seq(Fact)
  PROVE  Newest \in Nat
<1>1. CASE Active = {} BY <1>1 DEF Newest
<1>2. CASE Active # {}
  <2> DEFINE n == Len(facts)
             S == {n - i : i \in Active}
  <2>1. n \in Nat /\ Active \subseteq 1 .. n BY DEF Active
  <2>2. S \in SUBSET Nat /\ S # {}
    <3>1. ASSUME NEW i \in Active PROVE n - i \in Nat BY <2>1
    <3> QED BY <1>2, <3>1
  <2> HIDE DEF S
  <2>3. PICK x \in S : \A y \in S : x <= y BY <2>2, Least
  <2> USE DEF S
  <2>4. PICK i \in Active : x = n - i BY <2>3
  <2>5. ASSUME NEW j \in Active PROVE i >= j
    <3>1. n - j \in S BY <2>5
    <3>2. x <= n - j BY <2>3, <3>1
    <3>3. i \in Nat /\ j \in Nat BY <2>1
    <3> HIDE DEF S
    <3> QED BY <2>1, <2>4, <3>2, <3>3
  <2>6. Max(Active) \in Active BY <2>5 DEF Max
  <2>7. Newest = Max(Active) BY <1>2 DEF Newest
  <2>8. \A m \in 1 .. n : m \in Nat BY <2>1
  <2> HIDE DEF S, n
  <2> QED BY <2>1, <2>6, <2>7, <2>8
<1> QED BY <1>1, <1>2

\* What a list of beliefs keeps of another: each says what it said, and is not
\* believed again.
Faded(new, old) ==
  /\ DOMAIN old \subseteq DOMAIN new
  /\ \A i \in DOMAIN old :
       /\ new[i].from = old[i].from /\ new[i].tier = old[i].tier
       /\ new[i].live = "active" => old[i].live = "active"

\* To close a belief is to keep the list.
LEMMA SupersededIs ==
  ASSUME facts \in Seq(Fact), NEW i
  PROVE  /\ Superseded(i) \in Seq(Fact) /\ Len(Superseded(i)) = Len(facts)
         /\ Faded(Superseded(i), facts)
<1>1. CASE facts[i].live # "active"
  BY <1>1 DEF Superseded, Faded
<1>2. CASE facts[i].live = "active"
  <2> DEFINE f == [facts[i] EXCEPT !.live = "superseded"]
  <2>1. Superseded(i) = [facts EXCEPT ![i] = f] BY <1>2 DEF Superseded
  <2>2. i \in DOMAIN facts =>
        f \in Fact /\ f.from = facts[i].from /\ f.tier = facts[i].tier /\ f.live # "active"
    <3>1. i \in DOMAIN facts => facts[i] \in Fact OBVIOUS
    <3> QED BY <3>1 DEF Fact
  <2> HIDE DEF f
  <2>3. [facts EXCEPT ![i] = f] \in Seq(Fact) /\ Len([facts EXCEPT ![i] = f]) = Len(facts)
    <3>1. CASE i \in DOMAIN facts BY <2>2, <3>1
    <3>2. CASE i \notin DOMAIN facts
      <4>1. [facts EXCEPT ![i] = f] = facts BY <3>2
      <4> QED BY <4>1
    <3> QED BY <3>1, <3>2
  <2> QED BY <2>1, <2>2, <2>3 DEF Faded
<1> QED BY <1>1, <1>2

\* A belief is recorded.
Added(new, old, f) ==
  /\ new \in Seq(Fact) /\ Faded(new, old)
  /\ Len(new) = Len(old) + 1 /\ new[Len(old) + 1] = f

\* So does who closes one and appends another.
LEMMA AddedIs ==
  ASSUME NEW old \in Seq(Fact), NEW mid \in Seq(Fact), Faded(mid, old), Len(mid) = Len(old),
         NEW x \in Episode \cup Proposal, NEW t \in 0 .. 1
  PROVE  Added(Append(mid, Belief(x, t)), old, Belief(x, t))
<1>1. Belief(x, t) \in Fact BY DEF Belief, Fact
<1>2. \A i \in 1 .. Len(mid) : Append(mid, Belief(x, t))[i] = mid[i] BY <1>1
<1>3. /\ Append(mid, Belief(x, t)) \in Seq(Fact)
      /\ Len(Append(mid, Belief(x, t))) = Len(mid) + 1
      /\ Append(mid, Belief(x, t))[Len(mid) + 1] = Belief(x, t)
      /\ DOMAIN Append(mid, Belief(x, t)) = 1 .. Len(mid) + 1
  BY <1>1
<1>4. DOMAIN mid = 1 .. Len(mid) /\ DOMAIN old = 1 .. Len(old) /\ Len(mid) \in Nat OBVIOUS
<1> HIDE DEF Belief
<1> QED BY <1>2, <1>3, <1>4 DEF Added, Faded

\* A list keeps itself.
LEMMA SameFaded == Faded(facts, facts)
BY DEF Faded

----------------------------------------------------------------------------
(* The steps of a batch and of a tool.                                     *)

Reads == {"extract", "judge", "close", "mark"}
Weighs == {"offer", "decide", "weigh"}

\* A job has at hand what its stage is about.
Sound(w) ==
  /\ w.at \in Reads => w.page # {} /\ w.by = "batch"
  /\ w.at \in Weighs => w.offers # {}
  /\ w.at \in Weighs \cup {"end", "sweep"} => w.page = {}
  /\ w.at = "sweep" => w.by = "batch"

\* The jobs are sound, and a process that has ended has none.
Placed ==
  \A p \in Process :
    /\ work[p] \in Job => Sound(work[p])
    /\ p \notin up => /\ work[p] = NoWork /\ cons[p] = Resting
                      /\ spoken[p] = {} /\ heard[p] = {}

\* The job of p is w now, with the same orders.
Continues(p, w) ==
  /\ work' = [work EXCEPT ![p] = w]
  /\ work[p] \in Job /\ w \in Job /\ Sound(w)
  /\ w.by = work[p].by /\ w.full = work[p].full

\* The first page of a batch.
Fresh(w) ==
  /\ w \in Job /\ Sound(w) /\ w.by = "batch" /\ w.at \in {"extract", "offer", "end"}
  /\ w.clean /\ w.page \subseteq Pending
  /\ IF w.full THEN w.page # {} ELSE w.page = Pending

\* A run that ends as it begins, one that takes the lock, and one put off.
Idles(p, c) ==
  /\ UNCHANGED <<lockVars, work>>
  /\ \E d \in Consolidator :
       /\ cons' = [cons EXCEPT ![p] = d]
       /\ d.last \in {"budget", "busy"} /\ d.stopped = c.stopped /\ (~c.stopped => ~d.again)

Starts(p, c) ==
  /\ IL!Acquire(p) /\ Free(p)
  /\ \E w \in Job : Fresh(w) /\ work' = [work EXCEPT ![p] = w]
  /\ \E d \in Consolidator :
       /\ cons' = [cons EXCEPT ![p] = d]
       /\ d.timer = c.timer /\ d.again = c.again /\ d.stopped = c.stopped

Waits(p, c) ==
  /\ Running(p)
  /\ UNCHANGED <<lockVars, work>>
  /\ cons' = [cons EXCEPT ![p] = [c EXCEPT !.again = TRUE]]

\* execute ends the run as it begins, or takes the lock.
LEMMA BeginIs ==
  ASSUME TypeOK, NEW p \in Process, NEW c \in Consolidator, Begin(p, c)
  PROVE  /\ left' \in [faults : Nat, refusals : Nat]
         /\ Idles(p, c) \/ (IL!Acquire(p) /\ (Free(p) => Starts(p, c)))
<1> DEFINE z == [c EXCEPT !.since = 0]
<1>1. z \in Consolidator /\ z.timer = c.timer /\ z.again = c.again /\ z.stopped = c.stopped
  BY DEF Consolidator
<1>2. CASE Refusal /\ cons' = [cons EXCEPT ![p] = Rested(z, FALSE, "budget")]
           /\ UNCHANGED <<lockVars, work>>
  <2>1. left' \in [faults : Nat, refusals : Nat]
    <3>1. left \in [faults : Nat, refusals : Nat] BY DEF TypeOK
    <3> QED BY <1>2, <3>1 DEF Refusal
  <2> DEFINE d == Rested(z, FALSE, "budget")
  <2> HIDE DEF z
  <2>2. d \in Consolidator /\ d.last = "budget" /\ d.stopped = c.stopped /\ (~c.stopped => ~d.again)
    BY <1>1, RestedIs
  <2>3. cons' = [cons EXCEPT ![p] = d] BY <1>2
  <2> HIDE DEF d
  <2>4. Idles(p, c) BY <1>2, <2>2, <2>3 DEF Idles
  <2> QED BY <2>1, <2>4
<1>3. CASE cons' = [cons EXCEPT ![p] = Rested(z, FALSE, "busy")]
           /\ UNCHANGED <<lockVars, work, left>>
  <2>1. left' \in [faults : Nat, refusals : Nat] BY <1>3 DEF TypeOK
  <2> DEFINE d == Rested(z, FALSE, "busy")
  <2> HIDE DEF z
  <2>2. d \in Consolidator /\ d.last = "busy" /\ d.stopped = c.stopped /\ (~c.stopped => ~d.again)
    BY <1>1, RestedIs
  <2>3. cons' = [cons EXCEPT ![p] = d] BY <1>3
  <2> HIDE DEF d
  <2>4. Idles(p, c) BY <1>3, <2>2, <2>3 DEF Idles
  <2> QED BY <2>1, <2>4
<1>4. CASE /\ TakesLock(p)
           /\ cons' = [cons EXCEPT ![p] = z]
           /\ work' = [work EXCEPT ![p] = NextText([Batch EXCEPT !.page = Page(Pending, Limit),
                                              !.full = Cardinality(Pending) >= Limit])]
           /\ UNCHANGED left
  <2> DEFINE page == Page(Pending, Limit)
             full == Cardinality(Pending) >= Limit
             b == [Batch EXCEPT !.page = page, !.full = full]
  <2>1. left' \in [faults : Nat, refusals : Nat] BY <1>4 DEF TypeOK
  <2>2. IsFiniteSet(Pending) /\ Pending \in SUBSET Nat /\ Pending \subseteq Episode
    BY Words, FS_Subset DEF Pending
  <2>3. page \subseteq Pending /\ (Pending # {} => page # {}) /\ (~full => page = Pending)
    BY <2>2, Limits, Paged
  <2>4. full => Pending # {}
    <3>1. Pending = {} => Cardinality(Pending) = 0 BY FS_EmptySet
    <3> QED BY <3>1, Limits
  <2>5. full \in BOOLEAN OBVIOUS
  <2> HIDE DEF page, full
  <2>6. /\ b \in Job /\ b.page = page /\ b.full = full /\ b.by = "batch" /\ b.clean
    <3>1. 0 \in Nat /\ 0 \in 0 .. 1 OBVIOUS
    <3>2. page \in SUBSET Episode BY <2>2, <2>3
    <3> QED BY <2>5, <3>1, <3>2 DEF Batch, Job
  <2> HIDE DEF b
  <2>7. /\ NextText(b) \in Job /\ NextText(b).by = "batch" /\ NextText(b).page = page
        /\ NextText(b).full = full /\ NextText(b).clean
        /\ (page # {} => NextText(b).at = "extract")
        /\ (page = {} =>
              NextText(b).at = "end" \/ (NextText(b).at = "offer" /\ NextText(b).offers # {}))
    BY <2>6, NextTextIs DEF TypeOK
  <2>8. Fresh(NextText(b)) BY <2>3, <2>4, <2>7 DEF Fresh, Sound, Reads, Weighs
  <2>9. work' = [work EXCEPT ![p] = NextText(b)] BY <1>4 DEF b, page, full
  <2>10. IL!Acquire(p) BY <1>4 DEF TakesLock
  <2> HIDE DEF z
  <2> QED BY <1>1, <1>4, <2>1, <2>7, <2>8, <2>9, <2>10 DEF Starts
<1> QED BY <1>2, <1>3, <1>4 DEF Begin

\* fire puts the run off while another is in flight.
LEMMA FireIs ==
  ASSUME TypeOK, NEW p \in Process, NEW c \in Consolidator, Fire(p, c)
  PROVE  /\ left' \in [faults : Nat, refusals : Nat]
         /\ (Idles(p, c) /\ ~Running(p)) \/ Starts(p, c) \/ Waits(p, c)
<1>1. CASE Running(p)
  BY <1>1 DEF Fire, Waits, TypeOK
<1>2. CASE ~Running(p)
  <2>1. Begin(p, c) /\ (Free(p) \/ IL!Held) BY <1>2 DEF Fire
  <2>2. IL!Acquire(p) => ~IL!Held BY DEF IL!Acquire
  <2> QED BY <1>2, <2>1, <2>2, BeginIs
<1> QED BY <1>1, <1>2

\* What a job keeps as it reads an episode, or as it looks at a proposal.
Alike(w, v) ==
  /\ v.by = w.by /\ v.page = w.page /\ v.full = w.full
  /\ v.moved = w.moved /\ v.clean = w.clean

\* The beliefs of an episode are thought about, written and closed.
ReadStep(p) ==
  /\ UNCHANGED <<lockVars, cons, turnVars, raised, wedged, textVars, proposalVars>>
  /\ Reading(p) \in Episode
  /\ \E w \in Job :
       /\ Continues(p, w) /\ Alike(work[p], w)
       /\ \/ /\ At(p, "extract") /\ w.at = "judge"
             /\ UNCHANGED <<facts, written, doubled>>
          \/ /\ work[p].at \in {"extract", "judge"} /\ w.at \in {"close", "mark"}
             /\ Wrote(Reading(p))
             /\ facts' = facts \/ Added(facts', facts, Belief(Reading(p), 0))
          \/ /\ At(p, "close") /\ w.at = "mark"
             /\ facts' = Superseded(work[p].basis)
             /\ UNCHANGED <<written, doubled>>

\* A stage is the stage of a job.
LEMMA AtJob ==
  ASSUME TypeOK, NEW p \in Process, work[p].at # "none"
  PROVE  work[p] \in Job
BY DEF TypeOK, NoWork

\* The two ways to record a belief.
LEMMA FactsAdded ==
  ASSUME TypeOK, NEW x \in Episode \cup Proposal, NEW t \in 0 .. 1
  PROVE  /\ Added(Append(facts, Belief(x, t)), facts, Belief(x, t))
         /\ \A i : Added(Append(Superseded(i), Belief(x, t)), facts, Belief(x, t))
<1>1. facts \in Seq(Fact) BY DEF TypeOK
<1> QED BY <1>1, AddedIs, SameFaded, SupersededIs

\* What an episode says is trusted.
LEMMA Tiers == 0 \in 0 .. 1
OBVIOUS

\* The actions of a batch about an episode are of that kind.
LEMMA ReadIs ==
  ASSUME TypeOK, Placed, NEW p \in Process,
         \/ Extracted(p) \/ Barren(p) \/ Closes(p)
         \/ \E verdict \in {"supersede", "keep both"} : Judged(p, verdict)
  PROVE  ReadStep(p) /\ left' \in [faults : Nat, refusals : Nat]
<1>1. work[p].at \in {"extract", "judge", "close"}
  BY DEF Extracted, Barren, Closes, Judged, At
<1>2. work[p] \in Job /\ Sound(work[p]) BY <1>1, AtJob DEF Placed
<1>3. work[p].page # {} /\ work[p].by = "batch" BY <1>1, <1>2 DEF Sound, Reads
<1>4. Reading(p) \in Episode /\ 0 \in 0 .. 1 BY <1>2, <1>3, AtHand, Tiers
<1>5. UNCHANGED <<lockVars, cons, turnVars, raised, wedged, textVars, proposalVars>>
  BY DEF Extracted, Barren, Closes, Judged, Calm
<1>6. left' \in [faults : Nat, refusals : Nat]
  BY DEF Extracted, Barren, Closes, Judged, Refusal, TypeOK
<1>7. facts \in Seq(Fact) /\ Newest \in Nat BY NewestIs DEF TypeOK
<1>8. ASSUME NEW at \in {"judge", "close", "mark"}, NEW added \in BOOLEAN, NEW basis \in Nat
      PROVE  LET w == [work[p] EXCEPT !.at = at, !.added = added, !.basis = basis]
             IN w \in Job /\ Sound(w) /\ Alike(work[p], w)
  BY <1>2, <1>3 DEF Job, Sound, Alike, Reads, Weighs
<1>9. ASSUME NEW w, work' = [work EXCEPT ![p] = w], w \in Job /\ Sound(w) /\ Alike(work[p], w)
       PROVE  Continues(p, w)
  BY <1>2, <1>9 DEF Continues, Alike
<1>10. ASSUME Extracted(p) PROVE ReadStep(p)
  <2>1. At(p, "extract") BY <1>10 DEF Extracted
  <2>2. CASE /\ facts' = IF Newest = 0 THEN Append(facts, Belief(Reading(p), 0)) ELSE facts
             /\ Wrote(Reading(p))
             /\ work' = [work EXCEPT ![p] =
                           [@ EXCEPT !.at = "mark", !.added = work[p].added \/ Newest = 0]]
    <3> DEFINE a == work[p].added \/ Newest = 0
               w == [work[p] EXCEPT !.at = "mark", !.added = a, !.basis = work[p].basis]
    <3>1. work[p].basis \in Nat /\ a \in BOOLEAN BY <1>2 DEF Job
    <3>2. work' = [work EXCEPT ![p] = w] BY <1>2, <2>2 DEF Job
    <3>3. w \in Job /\ Sound(w) /\ Alike(work[p], w) BY <1>8, <3>1
    <3>4. w.at = "mark" BY <1>2 DEF Job
    <3>5. facts' = facts \/ Added(facts', facts, Belief(Reading(p), 0))
      BY <1>4, <2>2, FactsAdded
    <3> HIDE DEF a, w
    <3>6. Continues(p, w) BY <1>9, <3>2, <3>3
    <3> QED BY <1>4, <1>5, <2>1, <2>2, <3>3, <3>4, <3>5, <3>6 DEF ReadStep, At
  <2>3. CASE /\ work' = [work EXCEPT ![p] = [@ EXCEPT !.at = "judge", !.basis = Newest]]
             /\ UNCHANGED <<facts, written, doubled>>
    <3> DEFINE w == [work[p] EXCEPT !.at = "judge", !.added = work[p].added, !.basis = Newest]
    <3>1. work[p].added \in BOOLEAN BY <1>2 DEF Job
    <3>2. work' = [work EXCEPT ![p] = w] BY <1>2, <2>3 DEF Job
    <3>3. w \in Job /\ Sound(w) /\ Alike(work[p], w) BY <1>8, <1>7, <3>1
    <3>4. w.at = "judge" BY <1>2 DEF Job
    <3> HIDE DEF w
    <3>5. Continues(p, w) BY <1>9, <3>2, <3>3
    <3> QED BY <1>4, <1>5, <2>1, <2>3, <3>3, <3>4, <3>5 DEF ReadStep, At
  <2> QED BY <1>10, <2>2, <2>3 DEF Extracted
<1>11. ASSUME Barren(p) PROVE ReadStep(p)
  <2> DEFINE w == [work[p] EXCEPT !.at = "mark", !.added = work[p].added, !.basis = work[p].basis]
  <2>1. work[p].added \in BOOLEAN /\ work[p].basis \in Nat BY <1>2 DEF Job
  <2>2. work' = [work EXCEPT ![p] = w] BY <1>2, <1>11 DEF Job, Barren, Goes
  <2>3. w \in Job /\ Sound(w) /\ Alike(work[p], w) BY <1>8, <2>1
  <2>4. w.at = "mark" BY <1>2 DEF Job
  <2> HIDE DEF w
  <2>5. Continues(p, w) BY <1>9, <2>2, <2>3
  <2> QED BY <1>4, <1>5, <1>11, <2>3, <2>4, <2>5 DEF ReadStep, At, Barren
<1>12. ASSUME Closes(p) PROVE ReadStep(p)
  <2> DEFINE w == [work[p] EXCEPT !.at = "mark", !.added = work[p].added, !.basis = work[p].basis]
  <2>1. work[p].added \in BOOLEAN /\ work[p].basis \in Nat BY <1>2 DEF Job
  <2>2. work' = [work EXCEPT ![p] = w] BY <1>2, <1>12 DEF Job, Closes, Goes
  <2>3. w \in Job /\ Sound(w) /\ Alike(work[p], w) BY <1>8, <2>1
  <2>4. w.at = "mark" BY <1>2 DEF Job
  <2> HIDE DEF w
  <2>5. Continues(p, w) BY <1>9, <2>2, <2>3
  <2> QED BY <1>4, <1>5, <1>12, <2>3, <2>4, <2>5 DEF ReadStep, At, Closes
<1>13. ASSUME NEW verdict \in {"supersede", "keep both"}, Judged(p, verdict)
       PROVE  ReadStep(p)
  <2> DEFINE at == IF verdict = "supersede" THEN "close" ELSE "mark"
             w == [work[p] EXCEPT !.at = at, !.added = TRUE, !.basis = work[p].basis]
  <2>1. at \in {"close", "mark"} /\ work[p].basis \in Nat BY <1>2 DEF Job
  <2>2. work' = [work EXCEPT ![p] = w] BY <1>2, <1>13 DEF Job, Judged
  <2>3. w.at = at BY <1>2 DEF Job
  <2> HIDE DEF at
  <2>4. w \in Job /\ Sound(w) /\ Alike(work[p], w) BY <1>8, <2>1
  <2>5. Added(facts', facts, Belief(Reading(p), 0)) BY <1>4, <1>13, FactsAdded DEF Judged
  <2> HIDE DEF w
  <2>6. Continues(p, w) BY <1>9, <2>2, <2>4
  <2> QED BY <1>4, <1>5, <1>13, <2>1, <2>3, <2>4, <2>5, <2>6 DEF ReadStep, At, Judged
<1> QED BY <1>6, <1>10, <1>11, <1>12, <1>13

\* A batch is done with an episode, which it has marked or could not read.
TurnStep(p) ==
  /\ UNCHANGED <<lockVars, cons, spoken, facts, proposalVars, withdrawn, raised, wedged>>
  /\ UNCHANGED <<written, doubled>>
  /\ Reading(p) \in Episode /\ Reading(p) \in work[p].page
  /\ \E w \in Job :
       /\ Continues(p, w) /\ w.at \in {"extract", "offer", "end"}
       /\ w.page = work[p].page \ {Reading(p)}
       /\ \/ /\ At(p, "extract") /\ ~w.clean
             /\ UNCHANGED <<text, heard>>
          \/ /\ At(p, "mark") /\ w.moved /\ w.clean = work[p].clean
             /\ text' = [text EXCEPT ![Reading(p)] = "done"]
             /\ heard' = [o \in Process |-> heard[o] \ {Reading(p)}]

\* And those that are done with it.
LEMMA TurnIs ==
  ASSUME TypeOK, Placed, NEW p \in Process, Unreadable(p) \/ Mark(p)
  PROVE  TurnStep(p) /\ left' \in [faults : Nat, refusals : Nat]
<1>1. work[p].at \in {"extract", "mark"} BY DEF Unreadable, Mark, At
<1>2. work[p] \in Job /\ Sound(work[p]) BY <1>1, AtJob DEF Placed
<1>3. work[p].page # {} /\ work[p].by = "batch" BY <1>1, <1>2 DEF Sound, Reads
<1>4. Reading(p) \in Episode /\ Reading(p) \in work[p].page BY <1>2, <1>3, AtHand
<1> DEFINE z == Turned(work[p])
<1>5. /\ z \in Job /\ z.by = work[p].by /\ z.page = work[p].page \ {Reading(p)}
      /\ z.full = work[p].full /\ z.moved = work[p].moved /\ z.clean = work[p].clean
  BY <1>2, <1>3, TurnedIs DEF Reading
<1>6. ASSUME NEW y \in Job, y.by = z.by, y.page = z.page, y.full = z.full,
             work' = [work EXCEPT ![p] = NextText(y)]
      PROVE  /\ NextText(y) \in Job /\ Continues(p, NextText(y))
             /\ NextText(y).at \in {"extract", "offer", "end"}
             /\ NextText(y).page = work[p].page \ {Reading(p)}
             /\ NextText(y).moved = y.moved /\ NextText(y).clean = y.clean
  <2> DEFINE w == NextText(y)
  <2>1. /\ w \in Job /\ w.by = y.by /\ w.page = y.page /\ w.full = y.full
        /\ w.moved = y.moved /\ w.clean = y.clean
        /\ (y.page # {} => w.at = "extract")
        /\ (y.page = {} => w.at = "end" \/ (w.at = "offer" /\ w.offers # {}))
    BY <1>6, NextTextIs DEF TypeOK
  <2> HIDE DEF w, z
  <2>2. Sound(w) BY <1>3, <1>5, <1>6, <2>1 DEF Sound, Reads, Weighs
  <2>3. Continues(p, w) BY <1>2, <1>5, <1>6, <2>1, <2>2 DEF Continues, w
  <2> QED BY <1>5, <1>6, <2>1, <2>3 DEF w
<1>7. ASSUME Unreadable(p) PROVE TurnStep(p) /\ left' \in [faults : Nat, refusals : Nat]
  <2> DEFINE y == [z EXCEPT !.clean = FALSE]
  <2>1. work' = [work EXCEPT ![p] = NextText(y)] BY <1>7 DEF Unreadable
  <2>2. y \in Job /\ y.by = z.by /\ y.page = z.page /\ y.full = z.full /\ ~y.clean
    <3> HIDE DEF z
    <3> QED BY <1>5 DEF Job
  <2> HIDE DEF y, z
  <2>3. /\ NextText(y) \in Job /\ Continues(p, NextText(y)) /\ ~NextText(y).clean
        /\ NextText(y).at \in {"extract", "offer", "end"}
        /\ NextText(y).page = work[p].page \ {Reading(p)}
    BY <1>6, <2>1, <2>2
  <2>4. At(p, "extract") BY <1>7 DEF Unreadable
  <2>5. /\ UNCHANGED <<lockVars, cons, turnVars, textVars, facts, proposalVars, raised, wedged>>
        /\ UNCHANGED <<written, doubled>>
    BY <1>7 DEF Unreadable, Calm
  <2>6. left' \in [faults : Nat, refusals : Nat] BY <1>7 DEF Unreadable, Refusal, TypeOK
  <2>7. TurnStep(p) BY <1>4, <2>3, <2>4, <2>5 DEF TurnStep, textVars, turnVars
  <2> QED BY <2>6, <2>7
<1>8. ASSUME Mark(p) PROVE TurnStep(p) /\ left' \in [faults : Nat, refusals : Nat]
  <2> DEFINE y == [z EXCEPT !.moved = TRUE, !.basis = 0]
  <2>1. work' = [work EXCEPT ![p] = NextText(y)] BY <1>8 DEF Mark
  <2>2. /\ y \in Job /\ y.by = z.by /\ y.page = z.page
        /\ y.full = z.full /\ y.clean = z.clean /\ y.moved
    <3> HIDE DEF z
    <3> QED BY <1>5 DEF Job
  <2> HIDE DEF y, z
  <2>3. /\ NextText(y) \in Job /\ Continues(p, NextText(y)) /\ NextText(y).moved
        /\ NextText(y).clean = work[p].clean
        /\ NextText(y).at \in {"extract", "offer", "end"}
        /\ NextText(y).page = work[p].page \ {Reading(p)}
    BY <1>5, <1>6, <2>1, <2>2
  <2>4. At(p, "mark") BY <1>8 DEF Mark
  <2>5. /\ UNCHANGED <<lockVars, cons, spoken, withdrawn, facts, proposalVars, history, left>>
        /\ text' = [text EXCEPT ![Reading(p)] = "done"]
        /\ heard' = [o \in Process |-> heard[o] \ {Reading(p)}]
    BY <1>8 DEF Mark
  <2>6. left' \in [faults : Nat, refusals : Nat] BY <2>5 DEF TypeOK
  <2>7. TurnStep(p) BY <1>4, <2>3, <2>4, <2>5 DEF TurnStep, history
  <2> QED BY <2>6, <2>7
<1> QED BY <1>7, <1>8

\* A job is done with a proposal or goes on with it; what becomes of the proposal
\* and its belief go together.
OfferStep(p) ==
  /\ UNCHANGED <<lockVars, cons, turnVars, textVars, tier, history>>
  /\ work[p].at \in Weighs /\ Offered(p) \in Proposal
  /\ \E w \in Job :
       /\ Continues(p, w) /\ Alike(work[p], w)
       /\ w.at \in {"offer", "decide", "weigh", "end"}
       /\ w.at = "decide" => /\ At(p, "offer") /\ EvidenceStands(Offered(p))
                             /\ w.offers = work[p].offers /\ w.tier = tier[Offered(p)]
                             /\ status' = status
       /\ w.at = "weigh" => /\ At(p, "decide") /\ status' = status
                            /\ w.offers = work[p].offers /\ w.tier = work[p].tier
  /\ \/ UNCHANGED <<facts, status>>
     \/ /\ status[Offered(p)] = "pending"
        /\ \/ /\ UNCHANGED facts
              /\ \E outcome \in {"merged", "rejected"} : Resolve(Offered(p), outcome)
           \/ /\ Resolve(Offered(p), "accepted")
              /\ At(p, "decide") /\ Added(facts', facts, Belief(Offered(p), work[p].tier))
           \/ /\ Resolve(Offered(p), "accepted")
              /\ At(p, "weigh") /\ Added(facts', facts, Belief(Offered(p), TierNow(p, Offered(p))))

\* The actions about a proposal are of that kind.
LEMMA OfferIs ==
  ASSUME TypeOK, Placed, NEW p \in Process,
         \/ Look(p) \/ Decide(p)
         \/ \E verdict \in {"supersede", "keep both"} : Weighed(p, verdict)
  PROVE  OfferStep(p) /\ left' \in [faults : Nat, refusals : Nat]
<1>1. work[p].at \in Weighs BY DEF Look, Decide, Weighed, At, Weighs
<1>2. work[p] \in Job /\ Sound(work[p]) BY <1>1, AtJob DEF Placed, Weighs
<1>3. work[p].page = {} /\ work[p].offers # {} BY <1>1, <1>2 DEF Sound
<1>4. Offered(p) \in Proposal BY <1>2, <1>3, AtHand
<1>5. UNCHANGED <<lockVars, cons, turnVars, textVars, tier, history>>
  BY DEF Look, Decide, Weighed, Calm, history
<1>6. left' \in [faults : Nat, refusals : Nat] BY DEF Look, Decide, Weighed, TypeOK
<1>7. ASSUME NEW w \in Job, Alike(work[p], w), work' = [work EXCEPT ![p] = w],
             w.at \in {"decide", "weigh", "offer", "end"}, w.at # "end" => w.offers # {}
      PROVE  Continues(p, w)
  BY <1>2, <1>3, <1>7 DEF Continues, Alike, Sound, Reads, Weighs
<1>8. ASSUME NextOffer(p)
      PROVE  \E w \in Job : Continues(p, w) /\ Alike(work[p], w) /\ w.at \in {"offer", "end"}
  <2> DEFINE w == Resolved(work[p])
  <2>1. work' = [work EXCEPT ![p] = w] BY <1>8 DEF NextOffer
  <2>2. w \in Job /\ Alike(work[p], w) /\ (w.at = "end" \/ (w.at = "offer" /\ w.offers # {}))
    BY <1>2, ResolvedIs DEF Alike
  <2> HIDE DEF w
  <2> QED BY <1>7, <2>1, <2>2
<1>9. ASSUME Look(p) PROVE OfferStep(p)
  <2> DEFINE q == Offered(p)
  <2>1. UNCHANGED facts BY <1>9 DEF Look
  <2>2. CASE status[q] # "pending"
    BY <1>1, <1>4, <1>5, <1>8, <1>9, <2>1, <2>2 DEF Look, OfferStep
  <2>3. CASE status[q] = "pending" /\ ~EvidenceStands(q)
    BY <1>1, <1>4, <1>5, <1>8, <1>9, <2>1, <2>3 DEF Look, OfferStep
  <2>4. CASE status[q] = "pending" /\ EvidenceStands(q)
    <3> DEFINE w == [work[p] EXCEPT !.at = "decide", !.basis = Newest, !.tier = tier[q]]
    <3>1. work' = [work EXCEPT ![p] = w] /\ UNCHANGED status /\ At(p, "offer")
      BY <1>9, <2>4 DEF Look
    <3>2. Newest \in Nat /\ tier[q] \in 0 .. 1 BY <1>4, NewestIs DEF TypeOK
    <3>3. /\ w \in Job /\ Alike(work[p], w) /\ w.at = "decide" /\ w.offers = work[p].offers
          /\ w.tier = tier[q]
      BY <1>2, <3>2 DEF Job, Alike
    <3> HIDE DEF w
    <3>4. Continues(p, w) BY <1>3, <1>7, <3>1, <3>3
    <3> QED BY <1>1, <1>4, <1>5, <2>1, <2>4, <3>1, <3>3, <3>4 DEF OfferStep
  <2> QED BY <2>2, <2>3, <2>4
<1>10. ASSUME Decide(p) PROVE OfferStep(p)
  <2> DEFINE q == Offered(p)
  <2>0. At(p, "decide") /\ work[p].tier \in 0 .. 1 BY <1>2, <1>10 DEF Decide, Job
  <2>1. CASE NextOffer(p) /\ UNCHANGED <<facts, status>>
    BY <1>1, <1>4, <1>5, <1>8, <2>1 DEF OfferStep
  <2>2. CASE /\ status[q] = "pending" /\ Resolve(q, "accepted") /\ NextOffer(p)
             /\ facts' = Append(facts, Belief(q, work[p].tier))
    <3>1. Added(facts', facts, Belief(q, work[p].tier)) BY <1>4, <2>0, <2>2, FactsAdded
    <3> QED BY <1>1, <1>4, <1>5, <1>8, <2>0, <2>2, <3>1 DEF OfferStep
  <2>3. CASE status[q] = "pending" /\ Resolve(q, "merged") /\ NextOffer(p) /\ UNCHANGED facts
    BY <1>1, <1>4, <1>5, <1>8, <2>3 DEF OfferStep
  <2>4. CASE Goes(p, "weigh") /\ UNCHANGED <<facts, status>>
    <3> DEFINE w == [work[p] EXCEPT !.at = "weigh"]
    <3>1. work' = [work EXCEPT ![p] = w] BY <2>4 DEF Goes
    <3>2. /\ w \in Job /\ Alike(work[p], w) /\ w.at = "weigh" /\ w.offers = work[p].offers
          /\ w.tier = work[p].tier
      BY <1>2 DEF Job, Alike
    <3> HIDE DEF w
    <3>3. Continues(p, w) BY <1>3, <1>7, <3>1, <3>2
    <3> QED BY <1>1, <1>4, <1>5, <2>0, <2>4, <3>2, <3>3 DEF OfferStep
  <2> QED BY <1>10, <2>1, <2>2, <2>3, <2>4 DEF Decide
<1>11. ASSUME NEW verdict \in {"supersede", "keep both"}, Weighed(p, verdict)
       PROVE  OfferStep(p)
  <2> DEFINE q == Offered(p)
  <2>1. NextOffer(p) /\ At(p, "weigh") BY <1>11 DEF Weighed
  <2>2. CASE ~StillPending(q)
    BY <1>1, <1>4, <1>5, <1>8, <1>11, <2>1, <2>2 DEF Weighed, OfferStep
  <2>3. CASE StillPending(q)
    <3>1. TierNow(p, q) \in 0 .. 1
      <4>1. tier[q] \in 0 .. 1 /\ work[p].tier \in 0 .. 1 BY <1>2, <1>4 DEF TypeOK, Job
      <4> QED BY <4>1 DEF TierNow
    <3>2. \/ facts' = Append(facts, Belief(q, TierNow(p, q)))
          \/ facts' = Append(Superseded(work[p].basis), Belief(q, TierNow(p, q)))
      BY <1>11, <2>3 DEF Weighed
    <3>3. Added(facts', facts, Belief(q, TierNow(p, q))) BY <1>4, <3>1, <3>2, FactsAdded
    <3>4. Resolve(q, "accepted") /\ status[q] = "pending" BY <1>11, <2>3 DEF Weighed, StillPending
    <3> QED BY <1>1, <1>4, <1>5, <1>8, <2>1, <3>3, <3>4 DEF OfferStep
  <2> QED BY <2>2, <2>3
<1> QED BY <1>6, <1>9, <1>10, <1>11

\* Nothing will make the consolidator of p run again but another turn.
Owed(p) == cons[p].timer = "off" /\ ~cons[p].again

\* The job of p is over.
Drops(p) == work[p] \in Job /\ work' = [work EXCEPT ![p] = NoWork]

\* A run ends.  It says it ran only if it read all it took, and is at rest only if
\* nothing came meanwhile and its page was not full, or did not move.
Rests(p) ==
  /\ Running(p)
  /\ \E d \in Consolidator :
       /\ cons' = [cons EXCEPT ![p] = d]
       /\ d.stopped = cons[p].stopped
       /\ d.last \in {"none", "ran"} => work[p].at \in {"end", "sweep"} /\ work[p].clean
       /\ ~cons[p].stopped =>
            /\ ~d.again
            /\ d.timer = "off" /\ d.last \in {"none", "ran"} =>
                 Owed(p) /\ ~(work[p].full /\ work[p].moved)

\* Where something can throw.
Thrown == {"extract", "judge", "close", "mark", "weigh"}

\* A job lets go of the lock, and is over; a batch may sweep before it is.
EndStep(p) ==
  /\ UNCHANGED <<textVars, proposalVars, turnVars, doubled, raised, wedged>>
  /\ written' = Unmarked(p)
  /\ \/ /\ IL!Release(p) /\ work[p].at \in {"end", "weigh"} /\ work[p].by = "tool"
        /\ Drops(p) /\ UNCHANGED <<cons, facts>>
     \/ /\ IL!Release(p) /\ At(p, "end") /\ UNCHANGED <<cons, facts>>
        /\ \E w \in Job : Continues(p, w) /\ Alike(work[p], w) /\ w.at = "sweep"
     \/ /\ IL!Release(p) /\ work[p].at \in {"end"} \cup Thrown /\ UNCHANGED facts
        /\ Drops(p) /\ Rests(p)
     \/ /\ At(p, "sweep") /\ Drops(p) /\ Rests(p)
        /\ facts' \in Seq(Fact) /\ Len(facts') = Len(facts) /\ Faded(facts', facts)
        /\ UNCHANGED lockVars \/ (~IL!Held /\ TakesAndFrees)

\* The consolidator after a run that ends, Rested, is such a one.
LEMMA RestsIs ==
  ASSUME TypeOK, NEW p \in Process, work[p] \in Job, Running(p),
         NEW drains \in BOOLEAN, NEW outcome \in {"ran", "partly", "busy", "error"},
         cons' = [cons EXCEPT ![p] = Rested(cons[p], drains, outcome)],
         outcome = "ran" => /\ work[p].at \in {"end", "sweep"} /\ work[p].clean
                            /\ work[p].full /\ work[p].moved => drains
  PROVE  Rests(p)
<1> DEFINE d == Rested(cons[p], drains, outcome)
<1>1. /\ cons[p] \in Consolidator
      /\ outcome \in {"none", "ran", "partly", "budget", "busy", "error"}
  BY DEF TypeOK
<1>2. /\ d \in Consolidator /\ d.last = outcome /\ d.stopped = cons[p].stopped
      /\ ~cons[p].stopped => /\ ~d.again
                             /\ cons[p].again \/ drains => d.timer # "off"
                             /\ ~cons[p].again /\ ~drains => d.timer = cons[p].timer
  BY <1>1 DEF Rested, Consolidator
<1>3. cons' = [cons EXCEPT ![p] = d] OBVIOUS
<1> HIDE DEF d
<1> QED BY <1>2, <1>3 DEF Rests, Owed

\* A list of beliefs some of which have gone.
LEMMA SweptIs ==
  ASSUME facts \in Seq(Fact), NEW live \in {"superseded", "retired"}, NEW G,
         facts' = [i \in DOMAIN facts |->
                     IF i \in G THEN [facts[i] EXCEPT !.live = live] ELSE facts[i]]
  PROVE  /\ facts' \in Seq(Fact) /\ Len(facts') = Len(facts) /\ Faded(facts', facts)
         /\ \A i \in DOMAIN facts : i \in G => facts'[i].live # "active"
<1>1. ASSUME NEW i \in DOMAIN facts
      PROVE  /\ facts'[i] \in Fact /\ facts'[i].from = facts[i].from
             /\ facts'[i].tier = facts[i].tier
             /\ facts'[i].live = "active" => facts[i].live = "active" /\ i \notin G
  <2>1. facts[i] \in Fact OBVIOUS
  <2>2. [facts[i] EXCEPT !.live = live] \in Fact /\ [facts[i] EXCEPT !.live = live].live = live
        /\ [facts[i] EXCEPT !.live = live].from = facts[i].from
        /\ [facts[i] EXCEPT !.live = live].tier = facts[i].tier
    BY <2>1 DEF Fact
  <2> QED BY <2>1, <2>2
<1>2. DOMAIN facts' = 1 .. Len(facts) /\ DOMAIN facts = 1 .. Len(facts) /\ Len(facts) \in Nat
  OBVIOUS
<1>3. facts' = [i \in 1 .. Len(facts) |-> facts'[i]] BY <1>2
<1>4. facts' \in [1 .. Len(facts) -> Fact] BY <1>1, <1>2, <1>3
<1>5. facts' \in Seq(Fact) /\ Len(facts') = Len(facts) BY <1>2, <1>4
<1> QED BY <1>1, <1>2, <1>5 DEF Faded

\* The actions that end a job, or let go of its lock, are of that kind.
LEMMA EndIs ==
  ASSUME TypeOK, Placed, NEW p \in Process, Release(p) \/ Throws(p) \/ Sweep(p)
  PROVE  EndStep(p) /\ left' \in [faults : Nat, refusals : Nat]
<1>1. work[p].at \in {"end", "sweep"} \cup Thrown BY DEF Release, Throws, Sweep, At, Thrown
<1>2. work[p] \in Job /\ Sound(work[p]) BY <1>1, AtJob DEF Placed, Thrown
<1>3. UNCHANGED <<textVars, proposalVars, turnVars, doubled, raised, wedged>>
  BY DEF Release, Throws, Sweep, Quiet, history
<1>9. written' = Unmarked(p)
  <2>1. CASE Release(p) \/ Sweep(p)
    BY <2>1 DEF Release, Sweep, Quiet, history, Unmarked, At
  <2> QED BY <2>1 DEF Throws
<1>4. left' \in [faults : Nat, refusals : Nat]
  <2>1. left \in [faults : Nat, refusals : Nat] BY DEF TypeOK
  <2>2. CASE Release(p) \/ Sweep(p) BY <2>1, <2>2 DEF Release, Sweep
  <2>3. CASE Throws(p) BY <2>1, <2>3 DEF Throws, Refusal
  <2> QED BY <2>2, <2>3
<1>5. Drains(work[p]) \in BOOLEAN /\ (work[p].full /\ work[p].moved => Drains(work[p]))
      /\ work[p].clean \in BOOLEAN
  BY <1>2 DEF Drains, Job
<1>6. ASSUME Release(p) PROVE EndStep(p)
  <2>1. IL!Release(p) /\ At(p, "end") /\ UNCHANGED facts BY <1>6 DEF Release, Quiet
  <2>2. CASE work[p].by = "tool"
    BY <1>2, <1>3, <1>6, <1>9, <2>1, <2>2 DEF Release, EndStep, Drops, At
  <2>3. CASE work[p].by = "batch" /\ work[p].added
    <3> DEFINE w == [work[p] EXCEPT !.at = "sweep"]
    <3>1. work' = [work EXCEPT ![p] = w] /\ UNCHANGED cons BY <1>6, <2>3 DEF Release, Goes
    <3>2. work[p].page = {} BY <1>2, <2>1 DEF Sound, At
    <3>3. w \in Job /\ Alike(work[p], w) /\ w.at = "sweep" BY <1>2 DEF Job, Alike
    <3> HIDE DEF w
    <3>4. Continues(p, w)
      BY <1>2, <2>3, <3>1, <3>2, <3>3 DEF Continues, Alike, Sound, Reads, Weighs
    <3> QED BY <1>3, <1>9, <2>1, <3>1, <3>3, <3>4 DEF EndStep
  <2>4. CASE work[p].by = "batch" /\ ~work[p].added
    <3> DEFINE outcome == IF work[p].clean THEN "ran" ELSE "partly"
    <3>1. /\ work' = [work EXCEPT ![p] = NoWork]
          /\ cons' = [cons EXCEPT ![p] = Rested(cons[p], Drains(work[p]), outcome)]
      BY <1>6, <2>4 DEF Release
    <3>2. outcome \in {"ran", "partly", "busy", "error"} /\ (outcome = "ran" => work[p].clean)
      OBVIOUS
    <3> HIDE DEF outcome
    <3>3. Rests(p) BY <1>2, <1>5, <2>1, <2>4, <3>1, <3>2, RestsIs DEF Running, At
    <3> QED BY <1>2, <1>3, <1>9, <2>1, <3>1, <3>3 DEF EndStep, Drops, At
  <2>5. work[p].by \in {"batch", "tool"} /\ work[p].added \in BOOLEAN BY <1>2 DEF Job
  <2> QED BY <2>2, <2>3, <2>4, <2>5
<1>7. ASSUME Throws(p) PROVE EndStep(p)
  <2>1. IL!Release(p) /\ work[p].at \in Thrown /\ UNCHANGED facts
        /\ work' = [work EXCEPT ![p] = NoWork]
    BY <1>7 DEF Throws, Thrown
  <2>2. CASE work[p].by = "tool"
    <3>1. UNCHANGED cons /\ work[p].at = "weigh"
      BY <1>2, <1>7, <2>1, <2>2 DEF Throws, Thrown, Sound, Reads
    <3> QED BY <1>2, <1>3, <1>9, <2>1, <2>2, <3>1 DEF EndStep, Drops
  <2>3. CASE work[p].by = "batch"
    <3>1. cons' = [cons EXCEPT ![p] = Rested(cons[p], FALSE, "error")] BY <1>7, <2>3 DEF Throws
    <3>2. Rests(p) BY <1>2, <2>1, <2>3, <3>1, RestsIs DEF Running
    <3> QED BY <1>2, <1>3, <1>9, <2>1, <3>2 DEF EndStep, Drops
  <2> QED BY <1>2, <2>2, <2>3 DEF Job
<1>8. ASSUME Sweep(p) PROVE EndStep(p)
  <2> DEFINE outcome == IF IL!Held THEN "busy" ELSE IF work[p].clean THEN "ran" ELSE "partly"
  <2>1. /\ At(p, "sweep") /\ work' = [work EXCEPT ![p] = NoWork]
        /\ cons' = [cons EXCEPT ![p] = Rested(cons[p], Drains(work[p]), outcome)]
    BY <1>8 DEF Sweep
  <2>2. Running(p) BY <1>2, <2>1 DEF Sound, At, Running
  <2>3. outcome \in {"ran", "partly", "busy", "error"} /\ (outcome = "ran" => work[p].clean)
    OBVIOUS
  <2> HIDE DEF outcome
  <2>4. Rests(p) BY <1>2, <1>5, <2>1, <2>2, <2>3, RestsIs DEF At
  <2>5. /\ facts' \in Seq(Fact) /\ Len(facts') = Len(facts) /\ Faded(facts', facts)
        /\ UNCHANGED lockVars \/ (~IL!Held /\ TakesAndFrees)
    <3>1. CASE IL!Held
      BY <1>8, <3>1, SameFaded DEF Sweep, TypeOK
    <3>2. CASE ~IL!Held
      <4> DEFINE G == {i \in Active : \E j \in Active : j > i /\ Repeats(j, facts[i].from)}
      <4>1. facts' = [i \in DOMAIN facts |->
               IF i \in G THEN [facts[i] EXCEPT !.live = "superseded"] ELSE facts[i]]
        BY <1>8, <3>2 DEF Sweep
      <4>2. TakesAndFrees BY <1>8, <3>2 DEF Sweep
      <4> HIDE DEF G
      <4>3. facts \in Seq(Fact) BY DEF TypeOK
      <4>4. facts' \in Seq(Fact) /\ Len(facts') = Len(facts) /\ Faded(facts', facts)
        BY <4>1, <4>3, SweptIs
      <4> QED BY <3>2, <4>2, <4>4
    <3> QED BY <3>1, <3>2
  <2> QED BY <1>2, <1>3, <1>9, <2>1, <2>4, <2>5 DEF EndStep, Drops
<1> QED BY <1>4, <1>6, <1>7, <1>8

----------------------------------------------------------------------------
(* The other steps.                                                        *)

\* A consolidator is told of the end of a turn, or fires, or is asked to run.
WakeStep(p) ==
  /\ UNCHANGED <<textVars, facts, proposalVars, history>>
  /\ p \in up
  /\ \/ UNCHANGED turnVars
     \/ \E e \in Episode :
          /\ spoken' = [spoken EXCEPT ![p] = @ \ {e}]
          /\ heard' = [heard EXCEPT ![p] = @ \cup ({e} \cap Pending)]
  /\ \/ /\ UNCHANGED <<lockVars, cons, work>>
        /\ cons[p].stopped
     \/ \E c \in Consolidator :
          /\ c.stopped = cons[p].stopped
          /\ (Idles(p, c) /\ ~Running(p)) \/ Starts(p, c) \/ Waits(p, c)
     \/ /\ UNCHANGED <<lockVars, work>>
        /\ \E d \in Consolidator :
             /\ cons' = [cons EXCEPT ![p] = d]
             /\ d.stopped = cons[p].stopped /\ d.again = cons[p].again /\ d.timer # "off"

\* The timer, the end of a turn and `memory extract` are of that kind.
LEMMA WakeIs ==
  ASSUME TypeOK, Placed, NEW p \in Process,
         TimerFires(p) \/ RunNow(p) \/ \E e \in Episode : Notify(p, e)
  PROVE  WakeStep(p) /\ left' \in [faults : Nat, refusals : Nat]
<1>1. cons[p] \in Consolidator /\ left \in [faults : Nat, refusals : Nat] BY DEF TypeOK
<1>2. ASSUME TimerFires(p)
      PROVE  WakeStep(p) /\ left' \in [faults : Nat, refusals : Nat]
  <2> DEFINE c == [cons[p] EXCEPT !.timer = "off"]
  <2>1. Fire(p, c) /\ p \in up /\ UNCHANGED <<textVars, facts, proposalVars, history>>
        /\ UNCHANGED turnVars
    BY <1>2 DEF TimerFires, Quiet
  <2>2. c \in Consolidator /\ c.stopped = cons[p].stopped BY <1>1 DEF Consolidator
  <2> HIDE DEF c
  <2> QED BY <2>1, <2>2, FireIs DEF WakeStep
<1>3. ASSUME RunNow(p)
      PROVE  WakeStep(p) /\ left' \in [faults : Nat, refusals : Nat]
  <2>1. /\ Begin(p, cons[p]) /\ Free(p) /\ p \in up
        /\ UNCHANGED <<textVars, facts, proposalVars, history>> /\ UNCHANGED turnVars
    BY <1>3 DEF RunNow, Quiet
  <2>2. ~Running(p) BY <2>1 DEF Free, Running
  <2>3. /\ left' \in [faults : Nat, refusals : Nat]
        /\ Idles(p, cons[p]) \/ Starts(p, cons[p])
    BY <1>1, <2>1, BeginIs
  <2> QED BY <1>1, <2>1, <2>2, <2>3 DEF WakeStep
<1>4. ASSUME NEW e \in Episode, Notify(p, e)
      PROVE  WakeStep(p) /\ left' \in [faults : Nat, refusals : Nat]
  <2> DEFINE c == [cons[p] EXCEPT !.since = @ + 1]
             off == [c EXCEPT !.timer = "off"]
             idle == [c EXCEPT !.timer = "idle"]
  <2>1. /\ UNCHANGED <<textVars, facts, proposalVars, history>>
        /\ spoken' = [spoken EXCEPT ![p] = @ \ {e}]
        /\ heard' = [heard EXCEPT ![p] = @ \cup ({e} \cap Pending)]
        /\ e \in spoken[p]
    BY <1>4 DEF Notify, Quiet
  <2>2. p \in up BY <2>1 DEF Placed
  <2>3. /\ off \in Consolidator /\ off.stopped = cons[p].stopped
        /\ idle \in Consolidator /\ idle.stopped = cons[p].stopped
        /\ idle.timer = "idle" /\ idle.again = cons[p].again
    <3>1. cons[p].since + 1 \in Nat BY <1>1 DEF Consolidator
    <3> QED BY <1>1, <3>1 DEF Consolidator
  <2>4. CASE cons[p].stopped
    <3>1. UNCHANGED <<lockVars, cons, work, left>> BY <1>4, <2>4 DEF Notify
    <3> QED BY <1>1, <2>1, <2>2, <2>4, <3>1 DEF WakeStep
  <2>5. CASE Fire(p, off)
    <3>1. /\ left' \in [faults : Nat, refusals : Nat]
          /\ (Idles(p, off) /\ ~Running(p)) \/ Starts(p, off) \/ Waits(p, off)
      BY <2>3, <2>5, FireIs
    <3> HIDE DEF off, idle, c
    <3> QED BY <2>1, <2>2, <2>3, <3>1 DEF WakeStep
  <2>6. CASE cons' = [cons EXCEPT ![p] = idle] /\ UNCHANGED <<lockVars, work, left>>
    <3> HIDE DEF off, idle, c
    <3> QED BY <1>1, <2>1, <2>2, <2>3, <2>6 DEF WakeStep
  <2> QED BY <1>4, <2>4, <2>5, <2>6 DEF Notify
<1> QED BY <1>2, <1>3, <1>4

\* A proposal is staged, or its tier raised, and a tool may take the lock for it.
RememberStep(p, q) ==
  /\ UNCHANGED <<cons, textVars, facts, turnVars, written, doubled, wedged, left>>
  /\ p \in up
  /\ status[q] \in {"absent", "pending"} /\ Resolve(q, "pending")
  /\ \E t \in 0 .. 1 : tier[q] <= t /\ tier' = [tier EXCEPT ![q] = t]
  /\ raised' \subseteq Proposal /\ raised \subseteq raised'
  /\ \A o \in Process : At(o, "decide") /\ Offered(o) = q => q \in raised'
  /\ \/ UNCHANGED <<lockVars, work>>
     \/ /\ IL!Acquire(p) /\ Free(p)
        /\ \E w \in Job :
             /\ work' = [work EXCEPT ![p] = w]
             /\ Sound(w) /\ w.by = "tool" /\ w.at = "offer"

\* memory_propose is of that kind.
LEMMA RememberIs ==
  ASSUME TypeOK, Placed, NEW p \in Process, NEW q \in Proposal, NEW t \in 0 .. 1, Remember(p, q, t)
  PROVE  RememberStep(p, q)
<1>1. /\ UNCHANGED <<cons, textVars, facts, turnVars, written, doubled, wedged, left>>
      /\ status[q] \in {"absent", "pending"} /\ Resolve(q, "pending")
      /\ tier' = [tier EXCEPT ![q] = IF t > tier[q] THEN t ELSE tier[q]]
  BY DEF Remember
<1>2. p \in up BY DEF Remember, Placed
<1>3. \E u \in 0 .. 1 : tier[q] <= u /\ tier' = [tier EXCEPT ![q] = u]
  <2> DEFINE u == IF t > tier[q] THEN t ELSE tier[q]
  <2>1. tier[q] \in 0 .. 1 BY DEF TypeOK
  <2>2. t \in Nat /\ tier[q] \in Nat BY <2>1
  <2>3. u \in 0 .. 1 /\ tier[q] <= u BY <2>1, <2>2
  <2>4. tier' = [tier EXCEPT ![q] = u] BY <1>1
  <2> HIDE DEF u
  <2> QED BY <2>3, <2>4
<1>4. /\ raised' \subseteq Proposal /\ raised \subseteq raised'
      /\ \A o \in Process : At(o, "decide") /\ Offered(o) = q => q \in raised'
  <2>1. raised' = raised \cup {r \in {q} : \E o \in Process : At(o, "decide") /\ Offered(o) = r}
    BY DEF Remember
  <2>2. raised \subseteq Proposal BY DEF TypeOK
  <2> QED BY <2>1, <2>2
<1>5. CASE UNCHANGED <<lockVars, work>>
  BY <1>1, <1>2, <1>3, <1>4, <1>5 DEF RememberStep
<1>6. CASE /\ Free(p) /\ TakesLock(p)
           /\ work' = [work EXCEPT ![p] =
                [Batch EXCEPT !.by = "tool", !.at = "offer", !.offers = {q}]]
  <2> DEFINE w == [Batch EXCEPT !.by = "tool", !.at = "offer", !.offers = {q}]
  <2>1. w \in Job /\ w.by = "tool" /\ w.at = "offer" /\ w.offers = {q} /\ w.page = {}
    <3>1. 0 \in Nat BY Tiers
    <3> QED BY <3>1, Tiers DEF Batch, Job
  <2>2. work' = [work EXCEPT ![p] = w] BY <1>6
  <2> HIDE DEF w
  <2>3. Sound(w) BY <2>1 DEF Sound, Reads, Weighs
  <2> QED BY <1>1, <1>2, <1>3, <1>4, <1>6, <2>1, <2>2, <2>3 DEF RememberStep, TakesLock
<1> QED BY <1>5, <1>6 DEF Remember

\* An episode is withdrawn, with the beliefs that rest on it.
ForgetStep(e) ==
  /\ ~IL!Held /\ TakesAndFrees
  /\ withdrawn' = withdrawn \cup {e}
  /\ facts' \in Seq(Fact) /\ Len(facts') = Len(facts) /\ Faded(facts', facts)
  /\ \A i \in Active : EvidenceOf(facts[i]) = e => facts'[i].live # "active"
  /\ UNCHANGED <<cons, work, text, proposalVars, turnVars, history, left>>

\* memory_forget is of that kind.
LEMMA ForgetIs ==
  ASSUME TypeOK, NEW p \in Process, NEW e \in Episode, Forget(p, e)
  PROVE  ForgetStep(e)
<1> DEFINE G == {i \in Active : EvidenceOf(facts[i]) = e}
<1>1. facts' = [i \in DOMAIN facts |->
                  IF i \in G THEN [facts[i] EXCEPT !.live = "retired"] ELSE facts[i]]
  BY DEF Forget
<1>2. G \subseteq DOMAIN facts BY DEF Active
<1>3. facts \in Seq(Fact) BY DEF TypeOK
<1> HIDE DEF G
<1>4. /\ facts' \in Seq(Fact) /\ Len(facts') = Len(facts) /\ Faded(facts', facts)
      /\ \A i \in G : facts'[i].live # "active"
  BY <1>1, <1>2, <1>3, SweptIs
<1>5. \A i \in Active : EvidenceOf(facts[i]) = e => facts'[i].live # "active"
  BY <1>4 DEF G
<1> QED BY <1>4, <1>5 DEF ForgetStep, Forget

\* Every step is of one of these kinds.
Step ==
  \/ UNCHANGED vars
  \/ Age
  \/ \E e \in Episode : ForgetStep(e)
  \/ \E p \in Process :
       \/ WakeStep(p) \/ ReadStep(p) \/ TurnStep(p) \/ OfferStep(p) \/ EndStep(p)
       \/ Close(p) \/ Ends(p) \/ Start(p)
       \/ \E e \in Episode : Speak(p, e)
       \/ \E q \in Proposal : RememberStep(p, q)

\* No action is of another kind.
LEMMA StepIs ==
  ASSUME TypeOK, Placed, [Next]_vars
  PROVE  Step /\ left' \in [faults : Nat, refusals : Nat]
<1>1. left \in [faults : Nat, refusals : Nat] BY DEF TypeOK
<1>2. CASE UNCHANGED vars BY <1>1, <1>2 DEF Step, vars
<1>3. CASE Age BY <1>1, <1>3 DEF Step, Age, Fault
<1>4. ASSUME NEW p \in Process, TimerFires(p) \/ RunNow(p) \/ \E e \in Episode : Notify(p, e)
      PROVE  Step /\ left' \in [faults : Nat, refusals : Nat]
  <2>1. WakeStep(p) /\ left' \in [faults : Nat, refusals : Nat] BY <1>4, WakeIs
  <2>2. Step BY <2>1 DEF Step
  <2> QED BY <2>1, <2>2
<1>5. ASSUME NEW p \in Process, Close(p) \/ Ends(p) \/ Start(p)
      PROVE  Step /\ left' \in [faults : Nat, refusals : Nat]
  <2>1. Step BY <1>5 DEF Step
  <2>2. CASE Close(p) BY <1>1, <2>1, <2>2 DEF Close, Fault
  <2>3. CASE Ends(p)
    <3> DEFINE n == IF cons[p].stopped THEN left.faults ELSE left.faults - 1
    <3>1. left' = [left EXCEPT !.faults = n] BY <2>3 DEF Ends
    <3>2. left.faults \in Nat BY <1>1
    <3>3. cons[p].stopped \/ left.faults > 0 BY <2>3 DEF Ends
    <3>4. n \in Nat BY <3>2, <3>3
    <3> HIDE DEF n
    <3> QED BY <1>1, <2>1, <3>1, <3>4
  <2>4. CASE Start(p) BY <1>1, <2>1, <2>4 DEF Start
  <2> QED BY <1>5, <2>1, <2>2, <2>3, <2>4
<1>6. ASSUME NEW p \in Process, Works(p)
      PROVE  Step /\ left' \in [faults : Nat, refusals : Nat]
  <2>1. CASE \/ Extracted(p) \/ Barren(p) \/ Closes(p)
             \/ \E verdict \in {"supersede", "keep both"} : Judged(p, verdict)
    BY <2>1, ReadIs DEF Step
  <2>2. CASE Unreadable(p) \/ Mark(p) BY <2>2, TurnIs DEF Step
  <2>3. CASE \/ Look(p) \/ Decide(p)
             \/ \E verdict \in {"supersede", "keep both"} : Weighed(p, verdict)
    BY <2>3, OfferIs DEF Step
  <2>4. CASE Release(p) \/ Throws(p) \/ Sweep(p) BY <2>4, EndIs DEF Step
  <2> QED BY <1>6, <2>1, <2>2, <2>3, <2>4 DEF Works
<1>7. ASSUME NEW p \in Process, NEW e \in Episode, Speak(p, e)
      PROVE  Step /\ left' \in [faults : Nat, refusals : Nat]
  BY <1>1, <1>7 DEF Step, Speak
<1>8. ASSUME NEW p \in Process, NEW e \in Episode, Forget(p, e)
      PROVE  Step /\ left' \in [faults : Nat, refusals : Nat]
  <2>1. ForgetStep(e) BY <1>8, ForgetIs
  <2> QED BY <1>1, <2>1 DEF Step, ForgetStep
<1>9. ASSUME NEW p \in Process, NEW q \in Proposal, NEW t \in 0 .. 1, Remember(p, q, t)
      PROVE  Step /\ left' \in [faults : Nat, refusals : Nat]
  <2>1. RememberStep(p, q) BY <1>9, RememberIs
  <2> QED BY <1>1, <2>1 DEF Step, RememberStep
<1>10. CASE Next
  BY <1>3, <1>4, <1>5, <1>6, <1>7, <1>8, <1>9, <1>10 DEF Next
<1> QED BY <1>2, <1>10

----------------------------------------------------------------------------
(* Types and places.                                                       *)

\* What a step does to the lock.
LockStep ==
  \/ UNCHANGED lockVars
  \/ IL!Age
  \/ ~IL!Held /\ TakesAndFrees
  \/ \E p \in Process : IL!Acquire(p) \/ IL!Release(p) \/ IL!Die(p) \/ IL!Start(p)

\* No step does anything else to it.
LEMMA LockIs ==
  ASSUME Step
  PROVE  LockStep
BY DEF Step, Age, ForgetStep, WakeStep, ReadStep, TurnStep, OfferStep, EndStep, Close, Ends,
       Start, Speak, RememberStep, Idles, Starts, Waits, LockStep, vars

\* The lock keeps its type.
LEMMA LockTyped ==
  ASSUME IL!TypeOK, LockStep
  PROVE  IL!TypeOK'
<1>1. CASE UNCHANGED lockVars BY <1>1 DEF lockVars, IL!TypeOK
<1>2. CASE IL!Age BY <1>2 DEF IL!TypeOK, IL!Age, IL!Row
<1>3. CASE TakesAndFrees
  BY <1>3 DEF IL!TypeOK, TakesAndFrees, IL!Row, IL!FreeRow, IL!Gone
<1>4. ASSUME NEW p \in Process, IL!Acquire(p) PROVE IL!TypeOK'
  BY <1>4, Processes DEF IL!TypeOK, IL!Acquire, IL!Row, IL!Claimed
<1>5. ASSUME NEW p \in Process, IL!Release(p) PROVE IL!TypeOK'
  BY <1>5, Processes DEF IL!TypeOK, IL!Release, IL!Released, IL!Row, IL!FreeRow, IL!Gone
<1>6. ASSUME NEW p \in Process, IL!Die(p) PROVE IL!TypeOK'
  BY <1>6, Processes DEF IL!TypeOK, IL!Die, IL!Row, IL!Gone
<1>7. ASSUME NEW p \in Process, IL!Start(p) PROVE IL!TypeOK'
  BY <1>7 DEF IL!TypeOK, IL!Start
<1> QED BY <1>1, <1>2, <1>3, <1>4, <1>5, <1>6, <1>7 DEF LockStep

\* What a step does to the jobs, the consolidators and the turns keeps their types,
\* the jobs sound and a process that has ended bare.
LEMMA JobsKept ==
  ASSUME TypeOK, Placed, Step
  PROVE  /\ Placed'
         /\ cons' \in [Process -> Consolidator]
         /\ work' \in [Process -> {NoWork} \cup Job]
         /\ spoken' \in [Process -> SUBSET Episode] /\ heard' \in [Process -> SUBSET Episode]
<1> DEFINE Goal == /\ Placed'
                   /\ cons' \in [Process -> Consolidator]
                   /\ work' \in [Process -> {NoWork} \cup Job]
                   /\ spoken' \in [Process -> SUBSET Episode]
                   /\ heard' \in [Process -> SUBSET Episode]
<1>1. /\ cons \in [Process -> Consolidator]
      /\ work \in [Process -> {NoWork} \cup Job]
      /\ spoken \in [Process -> SUBSET Episode] /\ heard \in [Process -> SUBSET Episode]
  BY DEF TypeOK
<1>2. NoWork \notin Job /\ Resting \in Consolidator BY DEF NoWork, Job, Resting, Consolidator
<1>3. CASE UNCHANGED vars BY <1>1, <1>3 DEF vars, lockVars, turnVars, Placed
<1>4. CASE Age BY <1>1, <1>4 DEF Age, IL!Age, turnVars, Placed
<1>5. ASSUME NEW e \in Episode, ForgetStep(e) PROVE Goal
  BY <1>1, <1>5 DEF ForgetStep, TakesAndFrees, turnVars, Placed
<1>6. ASSUME NEW p \in Process, WakeStep(p) PROVE Goal
  <2>1. p \in up BY <1>6 DEF WakeStep
  <2>2. spoken' \in [Process -> SUBSET Episode] /\ heard' \in [Process -> SUBSET Episode]
        /\ \A o \in Process : o # p => spoken'[o] = spoken[o] /\ heard'[o] = heard[o]
    <3>1. CASE UNCHANGED turnVars BY <1>1, <3>1 DEF turnVars
    <3>2. CASE \E e \in Episode :
                 /\ spoken' = [spoken EXCEPT ![p] = @ \ {e}]
                 /\ heard' = [heard EXCEPT ![p] = @ \cup ({e} \cap Pending)]
      BY <1>1, <3>2
    <3> QED BY <1>6, <3>1, <3>2 DEF WakeStep
  <2>3. ASSUME UNCHANGED up, \A o \in Process : o # p => work'[o] = work[o] /\ cons'[o] = cons[o],
               work'[p] = work[p] \/ (work'[p] \in Job /\ Sound(work'[p]))
        PROVE  Placed'
    BY <1>1, <1>2, <2>1, <2>2, <2>3 DEF Placed, Sound
  <2>4. CASE UNCHANGED <<lockVars, cons, work>>
    BY <1>1, <2>2, <2>3, <2>4 DEF lockVars
  <2>5. ASSUME NEW c \in Consolidator, Idles(p, c) \/ Waits(p, c) PROVE Goal
    <3>1. PICK d \in Consolidator : cons' = [cons EXCEPT ![p] = d]
      <4>1. [c EXCEPT !.again = TRUE] \in Consolidator BY DEF Consolidator
      <4> QED BY <2>5, <4>1 DEF Idles, Waits
    <3>2. UNCHANGED <<lockVars, work>> BY <2>5 DEF Idles, Waits
    <3> QED BY <1>1, <2>2, <2>3, <3>1, <3>2 DEF lockVars
  <2>6. ASSUME NEW c \in Consolidator, Starts(p, c) PROVE Goal
    <3>1. PICK w \in Job : Fresh(w) /\ work' = [work EXCEPT ![p] = w] BY <2>6 DEF Starts
    <3>2. PICK d \in Consolidator : cons' = [cons EXCEPT ![p] = d] BY <2>6 DEF Starts
    <3>3. UNCHANGED up BY <2>6 DEF Starts, IL!Acquire
    <3> QED BY <1>1, <2>2, <2>3, <3>1, <3>2, <3>3 DEF Fresh
  <2>7. ASSUME NEW d \in Consolidator, cons' = [cons EXCEPT ![p] = d], UNCHANGED <<lockVars, work>>
        PROVE  Goal
    BY <1>1, <2>2, <2>3, <2>7 DEF lockVars
  <2> QED BY <1>6, <2>4, <2>5, <2>6, <2>7 DEF WakeStep
<1>7. ASSUME NEW p \in Process, ReadStep(p) PROVE Goal
  BY <1>1, <1>2, <1>7 DEF ReadStep, lockVars, turnVars, Placed, Continues
<1>8. ASSUME NEW p \in Process, TurnStep(p) PROVE Goal
  <2>1. heard' \in [Process -> SUBSET Episode] /\ \A o \in Process : heard'[o] \subseteq heard[o]
    BY <1>1, <1>8 DEF TurnStep
  <2>2. PICK w \in Job : Continues(p, w) BY <1>8 DEF TurnStep
  <2>3. UNCHANGED <<up, cons, spoken>> BY <1>8 DEF TurnStep, lockVars
  <2> QED BY <1>1, <1>2, <2>1, <2>2, <2>3 DEF Placed, Continues
<1>9. ASSUME NEW p \in Process, OfferStep(p) PROVE Goal
  BY <1>1, <1>2, <1>9 DEF OfferStep, lockVars, turnVars, Placed, Continues
<1>10. ASSUME NEW p \in Process, EndStep(p) PROVE Goal
  <2>1. UNCHANGED <<up, spoken, heard>>
    BY <1>10 DEF EndStep, turnVars, lockVars, IL!Release, TakesAndFrees
  <2>2. /\ work[p] \in Job
        /\ \E w \in {NoWork} \cup Job : work' = [work EXCEPT ![p] = w] /\ (w \in Job => Sound(w))
    BY <1>2, <1>10 DEF EndStep, Drops, Continues
  <2>3. \E d \in Consolidator : cons' = [cons EXCEPT ![p] = d]
    <3>1. CASE UNCHANGED cons BY <1>1, <3>1
    <3>2. CASE Rests(p) BY <3>2 DEF Rests
    <3> QED BY <1>10, <3>1, <3>2 DEF EndStep
  <2> QED BY <1>1, <1>2, <2>1, <2>2, <2>3 DEF Placed
<1>11. ASSUME NEW p \in Process, Close(p) PROVE Goal
  <2>1. [cons[p] EXCEPT !.stopped = TRUE, !.timer = "off"] \in Consolidator
    BY <1>1 DEF Consolidator
  <2>2. /\ p \in up /\ UNCHANGED <<up, spoken, heard>>
        /\ cons' = [cons EXCEPT ![p] = [cons[p] EXCEPT !.stopped = TRUE, !.timer = "off"]]
        /\ work' = [work EXCEPT ![p] = NoWork]
    BY <1>11 DEF Close, lockVars, turnVars
  <2> QED BY <1>1, <1>2, <2>1, <2>2 DEF Placed
<1>12. ASSUME NEW p \in Process, Ends(p) PROVE Goal
  <2>1. /\ up' = up \ {p}
        /\ cons' = [cons EXCEPT ![p] = Resting] /\ work' = [work EXCEPT ![p] = NoWork]
        /\ spoken' = [spoken EXCEPT ![p] = {}] /\ heard' = [heard EXCEPT ![p] = {}]
    BY <1>12 DEF Ends, IL!Die
  <2> QED BY <1>1, <1>2, <2>1 DEF Placed
<1>13. ASSUME NEW p \in Process, Start(p) PROVE Goal
  BY <1>1, <1>13 DEF Start, IL!Start, turnVars, Placed
<1>14. ASSUME NEW p \in Process, NEW e \in Episode, Speak(p, e) PROVE Goal
  <2>1. /\ p \in up /\ UNCHANGED <<up, cons, work, heard>>
        /\ spoken' = [spoken EXCEPT ![p] = @ \cup {e}]
    BY <1>14 DEF Speak, lockVars
  <2> QED BY <1>1, <2>1 DEF Placed
<1>15. ASSUME NEW p \in Process, NEW q \in Proposal, RememberStep(p, q) PROVE Goal
  <2>1. p \in up /\ UNCHANGED <<up, cons, spoken, heard>>
    BY <1>15 DEF RememberStep, turnVars, lockVars, IL!Acquire
  <2>2. \/ UNCHANGED work
        \/ \E w \in Job : work' = [work EXCEPT ![p] = w] /\ Sound(w)
    BY <1>15 DEF RememberStep
  <2> QED BY <1>1, <1>2, <2>1, <2>2 DEF Placed
<1> QED
  BY <1>3, <1>4, <1>5, <1>6, <1>7, <1>8, <1>9, <1>10, <1>11, <1>12, <1>13, <1>14, <1>15 DEF Step

\* Types and places are kept.
LEMMA TypeNext ==
  ASSUME TypeOK, Placed, [Next]_vars
  PROVE  TypeOK' /\ Placed'
<1>1. Step /\ left' \in [faults : Nat, refusals : Nat] BY StepIs
<1>2. /\ Placed' /\ cons' \in [Process -> Consolidator]
      /\ work' \in [Process -> {NoWork} \cup Job]
      /\ spoken' \in [Process -> SUBSET Episode] /\ heard' \in [Process -> SUBSET Episode]
  BY <1>1, JobsKept
<1>3. IL!TypeOK' BY <1>1, LockIs, LockTyped DEF TypeOK
<1> DEFINE Texts == /\ text \in [Episode -> {"absent", "pending", "done"}]
                    /\ withdrawn \subseteq Episode
                    /\ {written, doubled} \subseteq SUBSET Episode
           Beliefs == /\ facts \in Seq(Fact)
                      /\ status \in [Proposal -> Fates]
                      /\ tier \in [Proposal -> 0 .. 1]
                      /\ raised \subseteq Proposal /\ wedged \in BOOLEAN
           Goal == Texts' /\ Beliefs'
<1>4. Texts /\ Beliefs BY DEF TypeOK
<1>5. Goal
  <2>1. CASE UNCHANGED vars
    BY <1>4, <2>1 DEF vars, textVars, proposalVars, history
  <2>2. CASE Age
    BY <1>4, <2>2 DEF Age, textVars, proposalVars
  <2>3. ASSUME NEW e \in Episode, ForgetStep(e) PROVE Goal
    BY <1>4, <2>3 DEF ForgetStep, proposalVars, history
  <2>4. ASSUME NEW p \in Process, WakeStep(p) PROVE Goal
    BY <1>4, <2>4 DEF WakeStep, textVars, proposalVars, history
  <2>5. ASSUME NEW p \in Process, ReadStep(p) PROVE Goal
    <3>1. /\ UNCHANGED <<textVars, proposalVars, raised, wedged>>
          /\ UNCHANGED <<written, doubled>> \/ (Wrote(Reading(p)) /\ Reading(p) \in Episode)
          /\ facts' \in Seq(Fact)
      BY <1>4, <2>5, SupersededIs DEF ReadStep, Added
    <3>2. Texts'
      <4>1. CASE UNCHANGED <<written, doubled>> BY <1>4, <3>1, <4>1 DEF textVars
      <4>2. CASE Wrote(Reading(p)) /\ Reading(p) \in Episode
        BY <1>4, <3>1, <4>2 DEF textVars, Wrote
      <4> QED BY <3>1, <4>1, <4>2
    <3> QED BY <1>4, <3>1, <3>2 DEF proposalVars
  <2>6. ASSUME NEW p \in Process, TurnStep(p) PROVE Goal
    <3>1. /\ UNCHANGED <<proposalVars, raised, wedged, withdrawn, written, doubled, facts>>
          /\ Reading(p) \in Episode
          /\ text' = text \/ text' = [text EXCEPT ![Reading(p)] = "done"]
      BY <2>6 DEF TurnStep
    <3> QED BY <1>4, <3>1 DEF proposalVars
  <2>7. ASSUME NEW p \in Process, OfferStep(p) PROVE Goal
    <3>1. UNCHANGED <<textVars, history, tier>> BY <2>7 DEF OfferStep
    <3>2. facts' \in Seq(Fact) BY <1>4, <2>7 DEF OfferStep, Added
    <3>3. \/ UNCHANGED status
          \/ \E outcome \in {"merged", "rejected", "accepted"} : Resolve(Offered(p), outcome)
      BY <2>7 DEF OfferStep
    <3>4. status' \in [Proposal -> Fates] BY <1>4, <3>3 DEF Resolve, Fates
    <3> QED BY <1>4, <3>1, <3>2, <3>4 DEF textVars, history
  <2>8. ASSUME NEW p \in Process, EndStep(p) PROVE Goal
    <3>1. UNCHANGED <<textVars, proposalVars, doubled, raised, wedged>> /\ facts' \in Seq(Fact)
      BY <1>4, <2>8 DEF EndStep
    <3>2. written' \subseteq written BY <2>8 DEF EndStep, Unmarked
    <3> QED BY <1>4, <3>1, <3>2 DEF textVars, proposalVars
  <2>9. ASSUME NEW p \in Process, Close(p) PROVE Goal
    BY <1>4, <2>9 DEF Close, Quiet, textVars, proposalVars, history
  <2>10. ASSUME NEW p \in Process, Ends(p) PROVE Goal
    BY <1>4, <2>10 DEF Ends, Unmarked, textVars, proposalVars
  <2>11. ASSUME NEW p \in Process, Start(p) PROVE Goal
    BY <1>4, <2>11 DEF Start, Quiet, textVars, proposalVars, history
  <2>12. ASSUME NEW p \in Process, NEW e \in Episode, Speak(p, e) PROVE Goal
    BY <1>4, <2>12 DEF Speak, proposalVars, history
  <2>13. ASSUME NEW p \in Process, NEW q \in Proposal, RememberStep(p, q) PROVE Goal
    BY <1>4, <2>13 DEF RememberStep, textVars, Resolve, Fates
  <2> QED
    BY <1>1, <2>1, <2>2, <2>3, <2>4, <2>5, <2>6, <2>7, <2>8, <2>9, <2>10, <2>11, <2>12, <2>13
       DEF Step
<1> QED BY <1>1, <1>2, <1>3, <1>5 DEF TypeOK

\* And hold at first.
LEMMA TypeInit == Init => TypeOK /\ Placed
<1> SUFFICES ASSUME Init PROVE TypeOK /\ Placed
  OBVIOUS
<1>1. IL!TypeOK BY DEF Init, IL!Init, IL!TypeOK, IL!Row, IL!FreeRow, IL!Gone
<1>2. /\ cons \in [Process -> Consolidator] /\ work = [p \in Process |-> NoWork]
      /\ up = Process
  BY DEF Init, IL!Init, Resting, Consolidator
<1>3. NoWork \notin Job BY DEF NoWork, Job
<1>4. facts \in Seq(Fact) BY DEF Init
<1>5. wedged \in BOOLEAN BY DEF Init
<1>6. left \in [faults : Nat, refusals : Nat] BY Limits DEF Init
<1>7. tier \in [Proposal -> 0 .. 1] BY Tiers DEF Init
<1>8. /\ text \in [Episode -> {"absent", "pending", "done"}] /\ withdrawn \subseteq Episode
      /\ status \in [Proposal -> Fates]
      /\ spoken \in [Process -> SUBSET Episode] /\ heard \in [Process -> SUBSET Episode]
      /\ {written, doubled} \subseteq SUBSET Episode /\ raised \subseteq Proposal
  BY DEF Init, Fates
<1>9. work \in [Process -> {NoWork} \cup Job] BY <1>2
<1>10. TypeOK BY <1>1, <1>2, <1>4, <1>5, <1>6, <1>7, <1>8, <1>9 DEF TypeOK
<1>11. Placed BY <1>2, <1>3 DEF Placed
<1> QED BY <1>10, <1>11

----------------------------------------------------------------------------
(* The lock.                                                               *)

\* The process has work in hand that needs the lock.
Working(p) == work[p].at \notin {"none", "sweep"}

\* Who works holds the lock, unless somebody outlived it.
Locked ==
  ~wedged => \A p \in Process : Working(p) => p \in holders /\ row = IL!Claimed(p)

\* So there is no other, and the lock is taken.
LEMMA Alone ==
  ASSUME TypeOK, Placed, Locked, ~wedged, NEW p \in Process, Working(p)
  PROVE  p \in up /\ IL!Held /\ row.by = p /\ \A o \in Process : Working(o) => o = p
<1>1. p \in up BY DEF Placed, Working, NoWork
<1>2. row = IL!Claimed(p) /\ \A o \in Process : Working(o) => row = IL!Claimed(o) BY DEF Locked
<1>3. \A o \in Process : IL!Claimed(o).by = o /\ IL!Claimed(o).pid = PidOf[o] /\ ~IL!Claimed(o).old
  BY DEF IL!Claimed
<1>4. PidOf[p] # IL!NoPid BY Processes DEF IL!NoPid
<1> QED BY <1>1, <1>2, <1>3, <1>4 DEF IL!Held

\* Who takes the lock finds nobody at work.
LEMMA LockedNext ==
  ASSUME TypeOK, Placed, Locked, Step
  PROVE  Locked'
<1> SUFFICES ASSUME ~wedged'
             PROVE  (\A p \in Process : Working(p) => p \in holders /\ row = IL!Claimed(p))'
  BY DEF Locked
<1> DEFINE Goal == (\A p \in Process : Working(p) => p \in holders /\ row = IL!Claimed(p))'
<1>1. ~wedged /\ \A p \in Process : Working(p) => p \in holders /\ row = IL!Claimed(p)
  <2>1. UNCHANGED wedged \/ Age
    BY DEF Step, ForgetStep, WakeStep, ReadStep, TurnStep, OfferStep, EndStep, Close, Ends, Start,
           Speak, RememberStep, Quiet, history, vars
  <2>2. ~wedged BY <2>1 DEF Age
  <2> QED BY <2>2 DEF Locked
<1>2. ~IL!Held => \A p \in Process : ~Working(p) BY <1>1, Alone
<1>3. work \in [Process -> {NoWork} \cup Job] BY DEF TypeOK
<1>4. ASSUME UNCHANGED lockVars, \A p \in Process : Working(p)' => Working(p) PROVE Goal
  BY <1>1, <1>4 DEF lockVars, IL!Claimed
<1>5. ASSUME NEW p \in Process, IL!Acquire(p), \A o \in Process : o # p => work'[o] = work[o]
      PROVE  Goal
  <2>1. /\ row' = IL!Claimed(p) /\ p \in holders'
        /\ \A o \in Process : ~Working(o)
    BY <1>2, <1>5 DEF IL!Acquire
  <2>2. \A o \in Process : Working(o)' => o = p BY <1>5, <2>1 DEF Working
  <2> QED BY <2>1, <2>2 DEF IL!Claimed
<1>6. CASE UNCHANGED vars BY <1>4, <1>6 DEF vars, Working
<1>7. CASE Age
  <2>1. \A p \in Process : ~Working(p)
    <3>1. \A p \in up : row.by # p BY <1>7 DEF Age
    <3> QED BY <1>1, <3>1, Alone
  <2>2. UNCHANGED work BY <1>7 DEF Age
  <2> QED BY <2>1, <2>2 DEF Working
<1>8. ASSUME NEW e \in Episode, ForgetStep(e) PROVE Goal
  BY <1>2, <1>8 DEF ForgetStep, Working
<1>9. ASSUME NEW p \in Process, WakeStep(p) PROVE Goal
  <2>1. CASE UNCHANGED <<lockVars, work>>
    BY <1>4, <2>1 DEF Working
  <2>2. ASSUME NEW c \in Consolidator, Starts(p, c) PROVE Goal
    <3>1. IL!Acquire(p) /\ \A o \in Process : o # p => work'[o] = work[o]
      BY <1>3, <2>2 DEF Starts
    <3> QED BY <1>5, <3>1
  <2> QED BY <1>9, <2>1, <2>2 DEF WakeStep, Idles, Waits
<1>10. ASSUME NEW p \in Process, UNCHANGED lockVars, Working(p),
              \E w \in Job : Continues(p, w)
       PROVE  Goal
  <2>1. \A o \in Process : Working(o)' => Working(o) BY <1>3, <1>10 DEF Continues, Working
  <2> QED BY <1>4, <1>10, <2>1
<1>11. ASSUME NEW p \in Process, ReadStep(p) \/ TurnStep(p) \/ OfferStep(p) PROVE Goal
  BY <1>10, <1>11 DEF ReadStep, TurnStep, OfferStep, Working, At, Weighs
<1>12. ASSUME NEW p \in Process, EndStep(p) PROVE Goal
  <2>1. work[p] \in Job /\ ~Working(p)' /\ \A o \in Process : o # p => work'[o] = work[o]
    BY <1>3, <1>12 DEF EndStep, Drops, Continues, Working, NoWork
  <2>2. CASE Working(p)
    <3>1. \A o \in Process : ~Working(o)' BY <1>1, <2>1, <2>2, Alone DEF Working
    <3> QED BY <3>1
  <2>3. CASE ~Working(p)
    <3>1. UNCHANGED lockVars \/ ~IL!Held BY <1>12, <2>3 DEF EndStep, Working, At, Thrown
    <3>2. \A o \in Process : Working(o)' => Working(o) BY <2>1 DEF Working
    <3> QED BY <1>2, <1>4, <3>1, <3>2
  <2> QED BY <2>2, <2>3
<1>13. ASSUME NEW p \in Process, Close(p) PROVE Goal
  <2>1. UNCHANGED lockVars /\ work' = [work EXCEPT ![p] = NoWork] BY <1>13 DEF Close
  <2>2. \A o \in Process : Working(o)' => Working(o) BY <1>3, <2>1 DEF Working, NoWork
  <2> QED BY <1>4, <2>1, <2>2
<1>14. ASSUME NEW p \in Process, Ends(p) PROVE Goal
  <2>1. IL!Die(p) /\ work' = [work EXCEPT ![p] = NoWork] BY <1>14 DEF Ends
  <2>2. \A o \in Process : Working(o)' => Working(o) /\ o # p BY <1>3, <2>1 DEF Working, NoWork
  <2>3. ASSUME NEW o \in Process, Working(o)' PROVE o \in holders' /\ row' = row
    <3>1. o \in holders /\ row.by = o /\ o # p BY <1>1, <2>2, <2>3, Alone
    <3> QED BY <2>1, <3>1 DEF IL!Die
  <2> QED BY <1>1, <2>2, <2>3 DEF IL!Claimed
<1>15. ASSUME NEW p \in Process, Start(p) PROVE Goal
  BY <1>1, <1>15 DEF Start, IL!Start, IL!Claimed, Working
<1>16. ASSUME NEW p \in Process, NEW e \in Episode, Speak(p, e) PROVE Goal
  BY <1>4, <1>16 DEF Speak, Working
<1>17. ASSUME NEW p \in Process, NEW q \in Proposal, RememberStep(p, q) PROVE Goal
  <2>1. CASE UNCHANGED <<lockVars, work>> BY <1>4, <2>1 DEF Working
  <2>2. CASE IL!Acquire(p) /\ \E w \in Job : work' = [work EXCEPT ![p] = w]
    <3>1. \A o \in Process : o # p => work'[o] = work[o] BY <1>3, <2>2
    <3> QED BY <1>5, <2>2, <3>1
  <2> QED BY <1>17, <2>1, <2>2 DEF RememberStep
<1> QED
  BY <1>6, <1>7, <1>8, <1>9, <1>11, <1>12, <1>13, <1>14, <1>15, <1>16, <1>17 DEF Step

----------------------------------------------------------------------------
(* Proposals and beliefs.                                                  *)

\* The beliefs that come of a proposal.
Of(q) == {i \in DOMAIN facts : facts[i].from = q}

\* One if it is accepted, and none before.
Single == \A q \in Proposal : IF status[q] = "accepted" THEN \E i : Of(q) = {i} ELSE Of(q) = {}

\* What a process read of a proposal is its tier or less, and less only if it was
\* raised since, which is on record while the proposal is not yet decided.
Tainted ==
  \A p \in Process : work[p].at \in {"decide", "weigh"} =>
    /\ work[p].tier <= tier[Offered(p)]
    /\ At(p, "decide") /\ Offered(p) \notin raised => work[p].tier = tier[Offered(p)]

\* So each accepted proposal has one belief.
LEMMA SinglesCount == TypeOK /\ Single => OneBelief
<1> SUFFICES ASSUME TypeOK, Single, NEW q \in Proposal
             PROVE  Cardinality(Of(q)) = IF status[q] = "accepted" THEN 1 ELSE 0
  BY DEF OneBelief, Of
<1>1. CASE status[q] = "accepted" BY <1>1, FS_Singleton DEF Single
<1>2. CASE status[q] # "accepted" BY <1>2, FS_EmptySet DEF Single
<1> QED BY <1>1, <1>2

\* Only one who looks at a proposal comes to decide or to weigh it.
LEMMA OnlyLookers ==
  ASSUME TypeOK, Placed, Step, NEW o \in Process, work'[o].at \in {"decide", "weigh"}
  PROVE  work'[o] = work[o] \/ OfferStep(o)
<1>1. work \in [Process -> {NoWork} \cup Job] /\ NoWork.at = "none" BY DEF TypeOK, NoWork
<1>2. CASE UNCHANGED work BY <1>2
<1>3. ASSUME NEW p \in Process, WakeStep(p) PROVE work'[o] = work[o]
  <2>1. CASE UNCHANGED work BY <2>1
  <2>2. ASSUME NEW c \in Consolidator, Starts(p, c) PROVE work'[o] = work[o]
    BY <1>1, <2>2 DEF Starts, Fresh
  <2> QED BY <1>3, <2>1, <2>2 DEF WakeStep, Idles, Waits
<1>4. ASSUME NEW p \in Process, ReadStep(p) PROVE work'[o] = work[o]
  BY <1>1, <1>4 DEF ReadStep, Continues
<1>5. ASSUME NEW p \in Process, TurnStep(p) PROVE work'[o] = work[o]
  BY <1>1, <1>5 DEF TurnStep, Continues
<1>6. ASSUME NEW p \in Process, OfferStep(p), o # p PROVE work'[o] = work[o]
  BY <1>1, <1>6 DEF OfferStep, Continues
<1>7. ASSUME NEW p \in Process, EndStep(p) PROVE work'[o] = work[o]
  BY <1>1, <1>7 DEF EndStep, Continues, Drops
<1>8. ASSUME NEW p \in Process, Close(p) \/ Ends(p) PROVE work'[o] = work[o]
  BY <1>1, <1>8 DEF Close, Ends
<1>9. ASSUME NEW p \in Process, NEW q \in Proposal, RememberStep(p, q) PROVE work'[o] = work[o]
  BY <1>1, <1>9 DEF RememberStep
<1> QED
  BY <1>2, <1>3, <1>4, <1>5, <1>6, <1>7, <1>8, <1>9
     DEF Step, Age, ForgetStep, Start, Speak, Quiet, vars

\* What a step does to the beliefs and to the proposals: nothing is added, or the
\* belief of an episode, or of a proposal that is accepted with it.
LEMMA BeliefsMove ==
  ASSUME TypeOK, Placed, Step
  PROVE  \/ /\ facts' \in Seq(Fact) /\ Len(facts') = Len(facts) /\ Faded(facts', facts)
            /\ \/ UNCHANGED <<status, tier, raised>>
               \/ \E p \in Process :
                    /\ OfferStep(p) /\ UNCHANGED <<tier, raised>> /\ status[Offered(p)] = "pending"
                    /\ \E outcome \in {"merged", "rejected"} : Resolve(Offered(p), outcome)
               \/ \E p \in Process, q \in Proposal : RememberStep(p, q)
         \/ /\ UNCHANGED <<status, tier, raised>>
            /\ \E e \in Episode : Added(facts', facts, Belief(e, 0))
         \/ \E p \in Process :
              /\ OfferStep(p) /\ Offered(p) \in Proposal /\ UNCHANGED <<tier, raised>>
              /\ status[Offered(p)] = "pending" /\ Resolve(Offered(p), "accepted")
              /\ \/ At(p, "decide") /\ Added(facts', facts, Belief(Offered(p), work[p].tier))
                 \/ /\ At(p, "weigh")
                    /\ Added(facts', facts, Belief(Offered(p), TierNow(p, Offered(p))))
<1> DEFINE Fades == facts' \in Seq(Fact) /\ Len(facts') = Len(facts) /\ Faded(facts', facts)
           Still == Fades /\ UNCHANGED <<status, tier, raised>>
<1>1. facts' = facts => Fades BY SameFaded DEF TypeOK
<1>2. CASE UNCHANGED vars \/ Age
  BY <1>1, <1>2 DEF vars, Age, proposalVars, history
<1>3. CASE \E e \in Episode : ForgetStep(e)
  BY <1>3 DEF ForgetStep, proposalVars, history
<1>4. CASE \E p \in Process : \/ WakeStep(p) \/ TurnStep(p) \/ Close(p) \/ Ends(p) \/ Start(p)
                              \/ \E e \in Episode : Speak(p, e)
  BY <1>1, <1>4 DEF WakeStep, TurnStep, Close, Ends, Start, Speak, Quiet, proposalVars, history
<1>5. CASE \E p \in Process : EndStep(p)
  BY <1>1, <1>5 DEF EndStep, proposalVars
<1>6. ASSUME NEW p \in Process, ReadStep(p)
      PROVE  Still \/ (/\ UNCHANGED <<status, tier, raised>>
                       /\ \E e \in Episode : Added(facts', facts, Belief(e, 0)))
  <2>1. UNCHANGED <<status, tier, raised>> /\ Reading(p) \in Episode
    BY <1>6 DEF ReadStep, proposalVars
  <2>2. Fades \/ Added(facts', facts, Belief(Reading(p), 0))
    <3>1. facts' = Superseded(work[p].basis) => Fades BY SupersededIs DEF TypeOK
    <3> HIDE DEF Fades
    <3> QED BY <1>1, <1>6, <3>1 DEF ReadStep
  <2> QED BY <2>1, <2>2
<1>7. ASSUME NEW p \in Process, OfferStep(p)
      PROVE  \/ Still
             \/ /\ Fades /\ UNCHANGED <<tier, raised>> /\ status[Offered(p)] = "pending"
                /\ \E outcome \in {"merged", "rejected"} : Resolve(Offered(p), outcome)
             \/ /\ Offered(p) \in Proposal /\ UNCHANGED <<tier, raised>>
                /\ status[Offered(p)] = "pending" /\ Resolve(Offered(p), "accepted")
                /\ \/ At(p, "decide") /\ Added(facts', facts, Belief(Offered(p), work[p].tier))
                   \/ /\ At(p, "weigh")
                      /\ Added(facts', facts, Belief(Offered(p), TierNow(p, Offered(p))))
  <2> HIDE DEF Fades
  <2> QED BY <1>1, <1>7 DEF OfferStep, history
<1>8. CASE \E p \in Process, q \in Proposal : RememberStep(p, q)
  BY <1>1, <1>8 DEF RememberStep
<1> HIDE DEF Fades
<1> QED BY <1>2, <1>3, <1>4, <1>5, <1>6, <1>7, <1>8 DEF Step, Fades

\* A belief recorded is one more of its proposal, and of no other.
LEMMA OfAdded ==
  ASSUME TypeOK, NEW x, NEW t, Added(facts', facts, Belief(x, t)), NEW q \in Proposal
  PROVE  /\ q # x => Of(q)' = Of(q)
         /\ q = x => Of(q)' = Of(q) \cup {Len(facts) + 1}
         /\ DOMAIN facts' = DOMAIN facts \cup {Len(facts) + 1}
         /\ Len(facts) + 1 \notin DOMAIN facts
         /\ facts'[Len(facts) + 1] = Belief(x, t)
<1>1. /\ facts \in Seq(Fact) /\ facts' \in Seq(Fact) /\ Len(facts') = Len(facts) + 1
      /\ facts'[Len(facts) + 1] = Belief(x, t)
      /\ \A i \in DOMAIN facts : facts'[i].from = facts[i].from
  BY DEF TypeOK, Added, Faded
<1>2. /\ DOMAIN facts' = DOMAIN facts \cup {Len(facts) + 1}
      /\ Len(facts) + 1 \notin DOMAIN facts
  BY <1>1
<1>3. Belief(x, t).from = x BY DEF Belief
<1>4. \A i : i \in Of(q)' <=> i \in DOMAIN facts' /\ facts'[i].from = q BY DEF Of
<1>5. \A i : i \in Of(q) <=> i \in DOMAIN facts /\ facts[i].from = q BY DEF Of
<1> QED BY <1>1, <1>2, <1>3, <1>4, <1>5

\* Beliefs that are closed are still of their proposals.
LEMMA OfFaded ==
  ASSUME TypeOK, facts' \in Seq(Fact), Len(facts') = Len(facts), Faded(facts', facts)
  PROVE  /\ DOMAIN facts' = DOMAIN facts
         /\ \A q \in Proposal : Of(q)' = Of(q)
         /\ \A i \in DOMAIN facts : facts'[i].from = facts[i].from /\ facts'[i].tier = facts[i].tier
<1>1. facts \in Seq(Fact) /\ DOMAIN facts' = DOMAIN facts BY DEF TypeOK
<1>2. \A i \in DOMAIN facts : facts'[i].from = facts[i].from /\ facts'[i].tier = facts[i].tier
  BY DEF Faded
<1> QED BY <1>1, <1>2 DEF Of

\* The tiers are numbers that can be compared.
LEMMA TiersAre ==
  ASSUME TypeOK, NEW p \in Process, work[p] \in Job, Offered(p) \in Proposal
  PROVE  tier[Offered(p)] \in Nat /\ work[p].tier \in Nat
<1>1. tier[Offered(p)] \in 0 .. 1 /\ work[p].tier \in 0 .. 1 BY DEF TypeOK, Job
<1> QED BY <1>1

\* A belief is recorded of a proposal only as it is accepted.
LEMMA SingleNext ==
  ASSUME TypeOK, Placed, Single, Step
  PROVE  Single'
<1> USE DEF Single
<1>1. status \in [Proposal -> Fates] BY DEF TypeOK
<1>2. CASE /\ facts' \in Seq(Fact) /\ Len(facts') = Len(facts) /\ Faded(facts', facts)
           /\ \/ UNCHANGED <<status, tier, raised>>
              \/ \E p \in Process :
                   /\ OfferStep(p) /\ UNCHANGED <<tier, raised>> /\ status[Offered(p)] = "pending"
                   /\ \E outcome \in {"merged", "rejected"} : Resolve(Offered(p), outcome)
              \/ \E p \in Process, q \in Proposal : RememberStep(p, q)
  <2>1. \A q \in Proposal : Of(q)' = Of(q) BY <1>2, OfFaded
  <2>2. \A q \in Proposal : status'[q] = "accepted" <=> status[q] = "accepted"
    BY <1>1, <1>2 DEF Fates, Resolve, RememberStep
  <2> QED BY <2>1, <2>2
<1>3. CASE /\ UNCHANGED <<status, tier, raised>>
           /\ \E e \in Episode : Added(facts', facts, Belief(e, 0))
  <2>1. PICK e \in Episode : Added(facts', facts, Belief(e, 0)) BY <1>3
  <2>2. \A q \in Proposal : q # e BY Words
  <2>3. \A q \in Proposal : Of(q)' = Of(q) BY <2>1, <2>2, OfAdded
  <2> QED BY <1>3, <2>3
<1>4. ASSUME NEW q \in Proposal, NEW t, status[q] = "pending", Resolve(q, "accepted"),
             Added(facts', facts, Belief(q, t))
      PROVE  Single'
  <2>1. Of(q) = {} BY <1>4
  <2>2. Of(q)' = {Len(facts) + 1} BY <1>4, <2>1, OfAdded
  <2>3. \A r \in Proposal : r # q => Of(r)' = Of(r) BY <1>4, OfAdded
  <2>4. status'[q] = "accepted" /\ \A r \in Proposal : r # q => status'[r] = status[r]
    BY <1>1, <1>4 DEF Resolve
  <2> QED BY <2>2, <2>3, <2>4
<1> QED BY <1>2, <1>3, <1>4, BeliefsMove

\* The tier of a row is raised only, and that is on record.
LEMMA TaintedNext ==
  ASSUME TypeOK, Placed, Tainted, Step
  PROVE  Tainted'
<1> SUFFICES ASSUME NEW o \in Process, work'[o].at \in {"decide", "weigh"}
             PROVE  /\ work'[o].tier <= tier'[Offered(o)']
                    /\ work'[o].at = "decide" /\ Offered(o)' \notin raised' =>
                         work'[o].tier = tier'[Offered(o)']
  BY DEF Tainted, At
<1>1. CASE OfferStep(o)
  <2>1. UNCHANGED <<tier, raised>> /\ Offered(o) \in Proposal
    BY <1>1 DEF OfferStep, history
  <2>2. PICK w \in Job :
          /\ Continues(o, w)
          /\ w.at = "decide" => w.offers = work[o].offers /\ w.tier = tier[Offered(o)]
          /\ w.at = "weigh" => At(o, "decide") /\ w.offers = work[o].offers /\ w.tier = work[o].tier
    BY <1>1 DEF OfferStep
  <2>3. work'[o] = w /\ work[o] \in Job BY <2>2 DEF Continues, TypeOK
  <2>4. Offered(o)' = Offered(o) BY <2>2, <2>3 DEF Offered
  <2>5. tier[Offered(o)] \in Nat BY <2>1, <2>3, TiersAre
  <2> QED BY <2>1, <2>2, <2>3, <2>4, <2>5 DEF Tainted, At
<1>2. CASE work'[o] = work[o]
  <2>1. Offered(o)' = Offered(o) BY <1>2 DEF Offered
  <2>2. /\ work[o].tier <= tier[Offered(o)]
        /\ work[o].at = "decide" /\ Offered(o) \notin raised => work[o].tier = tier[Offered(o)]
    BY <1>2 DEF Tainted, At
  <2>3. CASE UNCHANGED <<tier, raised>> BY <1>2, <2>1, <2>2, <2>3
  <2>4. ASSUME NEW p \in Process, NEW q \in Proposal, RememberStep(p, q)
        PROVE  /\ work[o].tier <= tier'[Offered(o)]
               /\ work[o].at = "decide" /\ Offered(o) \notin raised' =>
                    work[o].tier = tier'[Offered(o)]
    <3>1. work[o] \in Job /\ Offered(o) \in Proposal
      <4>1. work[o] \in Job BY <1>2, AtJob
      <4> QED BY <1>2, <4>1, AtHand DEF Placed, Sound, Weighs
    <3>2. PICK t \in 0 .. 1 : tier[q] <= t /\ tier' = [tier EXCEPT ![q] = t]
      BY <2>4 DEF RememberStep
    <3>3. raised \subseteq raised' /\ (work[o].at = "decide" /\ Offered(o) = q => q \in raised')
      BY <2>4 DEF RememberStep, At
    <3>4. tier \in [Proposal -> 0 .. 1] BY DEF TypeOK
    <3>5. CASE Offered(o) = q
      <4>1. tier'[q] = t /\ tier[q] \in Nat /\ t \in Nat /\ work[o].tier \in Nat
        BY <3>1, <3>2, <3>4, TiersAre
      <4> QED BY <2>2, <3>2, <3>3, <3>5, <4>1
    <3>6. CASE Offered(o) # q
      <4>1. tier'[Offered(o)] = tier[Offered(o)] BY <3>1, <3>2, <3>4, <3>6
      <4> QED BY <2>2, <3>3, <4>1
    <3> QED BY <3>5, <3>6
  <2>5. UNCHANGED <<tier, raised>> \/ \E p \in Process, q \in Proposal : RememberStep(p, q)
    BY BeliefsMove
  <2> QED BY <1>2, <2>1, <2>3, <2>4, <2>5
<1> QED BY <1>1, <1>2, OnlyLookers

\* So the belief that is recorded has the tier of its row.
LEMMA TaintNext ==
  ASSUME TypeOK, Placed, Single, Tainted, TaintTravels, Step
  PROVE  TaintTravels'
<1> SUFFICES ASSUME NEW i \in DOMAIN facts', facts'[i].from \in Proposal \ raised'
             PROVE  facts'[i].tier = tier'[facts'[i].from]
  BY DEF TaintTravels
<1>1. CASE /\ facts' \in Seq(Fact) /\ Len(facts') = Len(facts) /\ Faded(facts', facts)
           /\ UNCHANGED <<tier, raised>>
  BY <1>1, OfFaded DEF TaintTravels
<1>2. ASSUME NEW p \in Process, NEW q \in Proposal, RememberStep(p, q),
             facts' \in Seq(Fact), Len(facts') = Len(facts), Faded(facts', facts)
      PROVE  facts'[i].tier = tier'[facts'[i].from]
  <2>1. /\ i \in DOMAIN facts /\ facts'[i].from = facts[i].from /\ facts'[i].tier = facts[i].tier
    BY <1>2, OfFaded
  <2>2. raised \subseteq raised' /\ status[q] \in {"absent", "pending"} BY <1>2 DEF RememberStep
  <2>3. facts[i].from # q BY <2>1, <2>2 DEF Single, Of
  <2>4. facts[i].tier = tier[facts[i].from] BY <2>1, <2>2 DEF TaintTravels
  <2>5. tier'[facts[i].from] = tier[facts[i].from]
    BY <1>2, <2>1, <2>3 DEF RememberStep, TypeOK
  <2> QED BY <2>1, <2>4, <2>5
<1>3. ASSUME NEW x \in Episode \cup Proposal, NEW t, Added(facts', facts, Belief(x, t)),
             UNCHANGED <<tier, raised>>, x \in Proposal \ raised => t = tier[x]
      PROVE  facts'[i].tier = tier'[facts'[i].from]
  <2>1. Belief(x, t).from = x /\ Belief(x, t).tier = t BY DEF Belief
  <2>2. \A j \in DOMAIN facts : facts'[j].from = facts[j].from /\ facts'[j].tier = facts[j].tier
    BY <1>3 DEF Added, Faded
  <2>3. facts'[Len(facts) + 1] = Belief(x, t) /\ (i \in DOMAIN facts \/ i = Len(facts) + 1)
    <3>1. facts'[i].from \in Proposal OBVIOUS
    <3> QED BY <1>3, <3>1, OfAdded
  <2> QED BY <1>3, <2>1, <2>2, <2>3 DEF TaintTravels
<1>4. ASSUME NEW p \in Process, OfferStep(p), Offered(p) \in Proposal, At(p, "decide"),
             UNCHANGED <<tier, raised>>, Added(facts', facts, Belief(Offered(p), work[p].tier))
      PROVE  facts'[i].tier = tier'[facts'[i].from]
  <2>1. Offered(p) \notin raised => work[p].tier = tier[Offered(p)] BY <1>4 DEF Tainted, At
  <2> QED BY <1>3, <1>4, <2>1
<1>5. ASSUME NEW p \in Process, OfferStep(p), Offered(p) \in Proposal, At(p, "weigh"),
             UNCHANGED <<tier, raised>>,
             Added(facts', facts, Belief(Offered(p), TierNow(p, Offered(p))))
      PROVE  facts'[i].tier = tier'[facts'[i].from]
  <2>1. work[p].tier <= tier[Offered(p)] BY <1>5 DEF Tainted, At
  <2>2. work[p].tier \in Nat /\ tier[Offered(p)] \in Nat BY <1>5, AtJob, TiersAre DEF At
  <2>3. TierNow(p, Offered(p)) = tier[Offered(p)] BY <2>1, <2>2 DEF TierNow
  <2> QED BY <1>3, <1>5, <2>3
<1>6. CASE /\ UNCHANGED <<status, tier, raised>>
           /\ \E e \in Episode : Added(facts', facts, Belief(e, 0))
  <2>1. PICK e \in Episode : Added(facts', facts, Belief(e, 0)) BY <1>6
  <2>2. e \notin Proposal BY Words
  <2> QED BY <1>3, <1>6, <2>1, <2>2
<1> QED BY <1>1, <1>2, <1>4, <1>5, <1>6, BeliefsMove

----------------------------------------------------------------------------
(* The evidence.                                                           *)

\* A proposal that is being decided or weighed rests on evidence that stands.
Standing ==
  ~wedged => \A p \in Process : work[p].at \in {"decide", "weigh"} => EvidenceStands(Offered(p))

\* Who has outlived the lock stays on record.
LEMMA WedgedStays ==
  ASSUME Step, ~wedged'
  PROVE  ~wedged
<1>1. UNCHANGED wedged \/ Age
  BY DEF Step, ForgetStep, WakeStep, ReadStep, TurnStep, OfferStep, EndStep, Close, Ends, Start,
         Speak, RememberStep, Quiet, history, vars
<1> QED BY <1>1 DEF Age

\* Only forgetting withdraws evidence, and nobody works meanwhile.
LEMMA WithdrawnMoves ==
  ASSUME TypeOK, Placed, Locked, ~wedged, Step
  PROVE  \/ UNCHANGED withdrawn
         \/ /\ \A p \in Process : ~Working(p)
            /\ UNCHANGED <<work, status>> /\ \E e \in Episode : ForgetStep(e)
<1>1. UNCHANGED withdrawn \/ \E e \in Episode : ForgetStep(e)
  BY DEF Step, Age, WakeStep, ReadStep, TurnStep, OfferStep, EndStep, Close, Ends, Start,
         Speak, RememberStep, Quiet, textVars, vars
<1>2. ASSUME NEW e \in Episode, ForgetStep(e)
      PROVE  (\A p \in Process : ~Working(p)) /\ UNCHANGED <<work, status>>
  BY <1>2, Alone DEF ForgetStep, proposalVars
<1> QED BY <1>1, <1>2

\* Evidence looked at stands until the decision.
LEMMA StandingNext ==
  ASSUME TypeOK, Placed, Locked, Standing, Step
  PROVE  Standing'
<1> SUFFICES ASSUME ~wedged', NEW o \in Process, work'[o].at \in {"decide", "weigh"}
             PROVE  Cites[Offered(o)'] \notin withdrawn'
  BY DEF Standing, EvidenceStands
<1>1. ~wedged BY WedgedStays
<1>2. CASE OfferStep(o)
  <2>1. UNCHANGED withdrawn BY <1>2 DEF OfferStep, textVars
  <2>2. PICK w \in Job :
          /\ Continues(o, w)
          /\ w.at = "decide" => w.offers = work[o].offers /\ EvidenceStands(Offered(o))
          /\ w.at = "weigh" => At(o, "decide") /\ w.offers = work[o].offers
    BY <1>2 DEF OfferStep
  <2>3. work'[o] = w BY <2>2 DEF Continues, TypeOK
  <2>4. Offered(o)' = Offered(o) BY <2>2, <2>3 DEF Offered
  <2> QED BY <1>1, <2>1, <2>2, <2>3, <2>4 DEF Standing, EvidenceStands, At
<1>3. CASE work'[o] = work[o]
  <2>1. Offered(o)' = Offered(o) BY <1>3 DEF Offered
  <2>2. Working(o) BY <1>3 DEF Working
  <2>3. UNCHANGED withdrawn BY <1>1, <2>2, WithdrawnMoves
  <2> QED BY <1>1, <1>3, <2>1, <2>3 DEF Standing, EvidenceStands
<1> QED BY <1>2, <1>3, OnlyLookers

\* So no belief is recorded on evidence that was withdrawn.
LEMMA EvidenceNext ==
  ASSUME TypeOK, Placed, Locked, Standing, ForgottenIsNoEvidence, Step
  PROVE  ForgottenIsNoEvidence'
<1> SUFFICES ASSUME ~wedged', NEW i \in DOMAIN facts', facts'[i].live = "active",
                    facts'[i].from \in Proposal
             PROVE  Cites[facts'[i].from] \notin withdrawn'
  <2>1. \A j \in DOMAIN facts' :
          facts'[j].from \in Proposal => EvidenceOf(facts'[j]) = Cites[facts'[j].from]
    BY Words DEF EvidenceOf
  <2> QED BY <2>1 DEF ForgottenIsNoEvidence, Active
<1>1. ~wedged BY WedgedStays
<1>2. ASSUME NEW j \in DOMAIN facts, facts[j].live = "active", facts[j].from \in Proposal
      PROVE  EvidenceOf(facts[j]) = Cites[facts[j].from] /\ Cites[facts[j].from] \notin withdrawn
  <2>1. EvidenceOf(facts[j]) = Cites[facts[j].from] BY <1>2, Words DEF EvidenceOf
  <2> QED BY <1>1, <1>2, <2>1 DEF ForgottenIsNoEvidence, Active
<1>3. ASSUME NEW j \in DOMAIN facts, Faded(facts', facts), i = j
      PROVE  facts[j].live = "active" /\ facts'[j].from = facts[j].from
  BY <1>3 DEF Faded
<1>4. CASE UNCHANGED withdrawn
  <2>1. CASE Faded(facts', facts) /\ Len(facts') = Len(facts) /\ facts' \in Seq(Fact)
    BY <1>2, <1>3, <1>4, <2>1, OfFaded
  <2>2. ASSUME NEW x \in Episode \cup Proposal, NEW t, Added(facts', facts, Belief(x, t)),
               x \in Proposal => Cites[x] \notin withdrawn
        PROVE  Cites[facts'[i].from] \notin withdrawn'
    <3>1. Belief(x, t).from = x /\ Faded(facts', facts) BY <2>2 DEF Belief, Added
    <3>2. facts'[Len(facts) + 1] = Belief(x, t) /\ (i \in DOMAIN facts \/ i = Len(facts) + 1)
      <4>1. facts'[i].from \in Proposal OBVIOUS
      <4> QED BY <2>2, <4>1, OfAdded
    <3> QED BY <1>2, <1>3, <1>4, <2>2, <3>1, <3>2
  <2>3. CASE \E e \in Episode : Added(facts', facts, Belief(e, 0))
    BY <2>2, <2>3, Words
  <2>4. ASSUME NEW p \in Process, NEW t, Offered(p) \in Proposal,
               work[p].at \in {"decide", "weigh"}, Added(facts', facts, Belief(Offered(p), t))
        PROVE  Cites[facts'[i].from] \notin withdrawn'
    BY <1>1, <2>2, <2>4 DEF Standing, EvidenceStands
  <2> QED BY <2>1, <2>3, <2>4, BeliefsMove DEF At
<1>5. ASSUME NEW e \in Episode, ForgetStep(e)
      PROVE  Cites[facts'[i].from] \notin withdrawn'
  <2>1. /\ facts' \in Seq(Fact) /\ Len(facts') = Len(facts) /\ Faded(facts', facts)
        /\ withdrawn' = withdrawn \cup {e}
        /\ \A j \in Active : EvidenceOf(facts[j]) = e => facts'[j].live # "active"
    BY <1>5 DEF ForgetStep
  <2>2. i \in DOMAIN facts BY <2>1, OfFaded
  <2>3. facts[i].live = "active" /\ facts'[i].from = facts[i].from BY <1>3, <2>1, <2>2
  <2>4. Cites[facts[i].from] \notin withdrawn /\ Cites[facts[i].from] # e
    BY <1>2, <2>1, <2>2, <2>3 DEF Active
  <2> QED BY <2>1, <2>3, <2>4
<1> QED BY <1>1, <1>4, <1>5, WithdrawnMoves

----------------------------------------------------------------------------
(* The episodes.                                                           *)

\* A batch reads what is still to be mined; an episode has its beliefs written when
\* it is marked, and before it only while its batch is about to mark it.
Mining ==
  ~wedged =>
    /\ \A p \in Process : work[p].at \in Reads => work[p].page \subseteq Pending
    /\ \A p \in Process : work[p].at \in {"close", "mark"} => Reading(p) \in written
    /\ \A e \in written :
         text[e] = "done" \/ \E p \in Process : work[p].at \in {"close", "mark"} /\ Reading(p) = e
    /\ doubled = {} /\ \A e \in Episode : text[e] = "done" => e \in written

\* The episodes stay as they are, and who has written of one goes on to mark it.
LEMMA MiningKept ==
  ASSUME Mining, ~wedged, UNCHANGED <<text, written, doubled>>,
         \A o \in Process : work'[o].at \in Reads =>
           /\ work'[o].page \subseteq Pending
           /\ work'[o].at \in {"close", "mark"} =>
                work[o].at \in {"close", "mark"} /\ work'[o].page = work[o].page,
         \A o \in Process : work[o].at \in {"close", "mark"} =>
           work'[o].at \in {"close", "mark"} /\ work'[o].page = work[o].page
  PROVE  Mining'
<1>1. Pending' = Pending BY DEF Pending
<1>2. \A o \in Process : work'[o].page = work[o].page => Reading(o)' = Reading(o) BY DEF Reading
<1>3. \A o \in Process : work'[o].at \in {"close", "mark"} =>
        work[o].at \in {"close", "mark"} /\ Reading(o)' = Reading(o)
  BY <1>2 DEF Reads
<1>4. \A o \in Process : work[o].at \in {"close", "mark"} =>
        work'[o].at \in {"close", "mark"} /\ Reading(o)' = Reading(o)
  BY <1>2
<1>5. /\ \A o \in Process : work[o].at \in {"close", "mark"} => Reading(o) \in written
      /\ \A e \in written :
           text[e] = "done" \/ \E o \in Process : work[o].at \in {"close", "mark"} /\ Reading(o) = e
      /\ doubled = {} /\ \A e \in Episode : text[e] = "done" => e \in written
  BY DEF Mining
<1>6. \A o \in Process : work'[o].at \in Reads => work'[o].page \subseteq Pending' BY <1>1
<1>7. \A o \in Process : work'[o].at \in {"close", "mark"} => Reading(o)' \in written' BY <1>3, <1>5
<1>8. \A e \in written' :
        text'[e] = "done" \/ \E o \in Process : work'[o].at \in {"close", "mark"} /\ Reading(o)' = e
  BY <1>4, <1>5
<1> QED BY <1>5, <1>6, <1>7, <1>8 DEF Mining

\* Only the batch at an episode writes of it, and marks it next.
LEMMA MiningNext ==
  ASSUME TypeOK, Placed, Locked, Mining, Step
  PROVE  Mining'
<1> SUFFICES ASSUME ~wedged' PROVE Mining'
  BY DEF Mining
<1>1. ~wedged BY WedgedStays
<1>2. /\ \A o \in Process : work[o].at \in Reads => work[o].page \subseteq Pending
      /\ \A o \in Process : work[o].at \in {"close", "mark"} => Reading(o) \in written
      /\ \A e \in written :
           text[e] = "done" \/ \E o \in Process : work[o].at \in {"close", "mark"} /\ Reading(o) = e
      /\ doubled = {} /\ \A e \in Episode : text[e] = "done" => e \in written
  BY <1>1 DEF Mining
<1>3. /\ work \in [Process -> {NoWork} \cup Job] /\ NoWork.at = "none"
      /\ written \subseteq Episode /\ text \in [Episode -> {"absent", "pending", "done"}]
  BY DEF TypeOK, NoWork
<1>4. \A p \in Process : work[p].at \in Reads => \A o \in Process : o # p => work[o].at \notin Reads
  BY <1>1, Alone DEF Working, Reads
<1>5. ASSUME UNCHANGED <<text, written, doubled, work>> PROVE Mining'
  BY <1>1, <1>2, <1>5, MiningKept
<1>6. CASE UNCHANGED vars BY <1>5, <1>6 DEF vars, textVars, history
<1>7. CASE Age BY <1>5, <1>7 DEF Age, textVars
<1>8. ASSUME NEW e \in Episode, ForgetStep(e) PROVE Mining' BY <1>5, <1>8 DEF ForgetStep, history
<1>9. ASSUME NEW p \in Process, NEW w \in {NoWork} \cup Job, work' = [work EXCEPT ![p] = w],
             UNCHANGED <<text, written, doubled>>, work[p].at \notin {"close", "mark"},
             w.at \in Reads => w.at \in {"extract", "judge"} /\ w.page \subseteq Pending
      PROVE  Mining'
  <2>1. work'[p] = w /\ \A o \in Process : o # p => work'[o] = work[o] BY <1>3, <1>9
  <2>2. \A o \in Process : work'[o].at \in Reads =>
           /\ work'[o].page \subseteq Pending
           /\ work'[o].at \in {"close", "mark"} =>
                work[o].at \in {"close", "mark"} /\ work'[o].page = work[o].page
    BY <1>2, <1>9, <2>1
  <2>3. \A o \in Process : work[o].at \in {"close", "mark"} =>
           work'[o].at \in {"close", "mark"} /\ work'[o].page = work[o].page
    BY <1>9, <2>1
  <2> QED BY <1>1, <1>9, <2>2, <2>3, MiningKept
<1>10. ASSUME NEW p \in Process, WakeStep(p) PROVE Mining'
  <2>1. UNCHANGED <<text, written, doubled>> BY <1>10 DEF WakeStep, textVars, history
  <2>2. CASE UNCHANGED work BY <1>5, <2>1, <2>2
  <2>3. ASSUME NEW c \in Consolidator, Starts(p, c) PROVE Mining'
    <3>1. work[p].at \notin {"close", "mark"}
      BY <2>3 DEF Starts, Free, Placed, Sound, Reads, TypeOK, Job, NoWork
    <3> QED BY <1>9, <2>1, <2>3, <3>1 DEF Starts, Fresh, Reads
  <2> QED BY <1>10, <2>2, <2>3 DEF WakeStep, Idles, Waits
<1>11. ASSUME NEW p \in Process, ReadStep(p) PROVE Mining'
  <2>1. PICK w \in Job :
          /\ Continues(p, w) /\ Alike(work[p], w)
          /\ \/ At(p, "extract") /\ w.at = "judge" /\ UNCHANGED <<written, doubled>>
             \/ /\ work[p].at \in {"extract", "judge"} /\ w.at \in {"close", "mark"}
                /\ Wrote(Reading(p))
             \/ At(p, "close") /\ w.at = "mark" /\ UNCHANGED <<written, doubled>>
    BY <1>11 DEF ReadStep
  <2>2. /\ work' = [work EXCEPT ![p] = w] /\ w.page = work[p].page /\ UNCHANGED text
        /\ work[p].at \in Reads
    BY <1>11, <2>1 DEF ReadStep, Continues, Alike, textVars, At, Reads
  <2>3. work'[p] = w /\ \A o \in Process : o # p => work'[o] = work[o] BY <1>3, <2>2
  <2>4. w.page \subseteq Pending BY <1>2, <2>2
  <2>5. CASE At(p, "extract") /\ w.at = "judge" /\ UNCHANGED <<written, doubled>>
    BY <1>9, <2>2, <2>4, <2>5 DEF At
  <2>6. CASE At(p, "close") /\ w.at = "mark" /\ UNCHANGED <<written, doubled>>
    <3>1. \A o \in Process : work'[o].at \in Reads =>
           /\ work'[o].page \subseteq Pending
           /\ work'[o].at \in {"close", "mark"} =>
                work[o].at \in {"close", "mark"} /\ work'[o].page = work[o].page
      BY <1>2, <2>2, <2>3, <2>4, <2>6 DEF At
    <3>2. \A o \in Process : work[o].at \in {"close", "mark"} =>
           work'[o].at \in {"close", "mark"} /\ work'[o].page = work[o].page
      BY <2>2, <2>3, <2>6
    <3> QED BY <1>1, <2>2, <2>6, <3>1, <3>2, MiningKept
  <2>7. CASE /\ work[p].at \in {"extract", "judge"} /\ w.at \in {"close", "mark"}
             /\ Wrote(Reading(p))
    <3>1. Reading(p) \in Episode /\ Reading(p) \in work[p].page
      BY <2>1, <2>2, AtHand DEF Continues, Placed, Sound
    <3>2. text[Reading(p)] = "pending" BY <1>2, <2>2, <3>1 DEF Pending
    <3>3. \A o \in Process : work[o].at \notin {"close", "mark"}
      BY <1>4, <2>2, <2>7 DEF Reads
    <3>4. Reading(p) \notin written BY <1>2, <3>2, <3>3
    <3>5. written' = written \cup {Reading(p)} /\ doubled' = {} BY <1>2, <2>7, <3>4 DEF Wrote
    <3>6. Reading(p)' = Reading(p) BY <2>2, <2>3 DEF Reading
    <3>7. \A o \in Process : work'[o].at \in {"close", "mark"} => o = p BY <2>3, <3>3
    <3>8. Pending' = Pending BY <2>2 DEF Pending
    <3>9. \A o \in Process : work'[o].at \in Reads => work'[o].page \subseteq Pending'
      BY <1>2, <2>3, <2>4, <3>8
    <3>10. \A o \in Process : work'[o].at \in {"close", "mark"} => Reading(o)' \in written'
      BY <3>5, <3>6, <3>7
    <3>11. \A e \in written' :
        text'[e] = "done" \/ \E o \in Process : work'[o].at \in {"close", "mark"} /\ Reading(o)' = e
      BY <1>2, <2>2, <2>3, <2>7, <3>3, <3>5, <3>6
    <3>12. doubled' = {} /\ \A e \in Episode : text'[e] = "done" => e \in written'
      BY <1>2, <2>2, <3>5
    <3> QED BY <3>9, <3>10, <3>11, <3>12 DEF Mining
  <2> QED BY <2>1, <2>5, <2>6, <2>7
<1>12. ASSUME NEW p \in Process, TurnStep(p) PROVE Mining'
  <2>1. PICK w \in Job :
          /\ Continues(p, w) /\ w.at \in {"extract", "offer", "end"}
          /\ w.page = work[p].page \ {Reading(p)}
          /\ \/ At(p, "extract") /\ UNCHANGED text
             \/ At(p, "mark") /\ text' = [text EXCEPT ![Reading(p)] = "done"]
    BY <1>12 DEF TurnStep
  <2>2. /\ work' = [work EXCEPT ![p] = w] /\ UNCHANGED <<written, doubled>>
        /\ work[p].at \in Reads /\ Reading(p) \in Episode
    BY <1>12, <2>1 DEF TurnStep, Continues, At, Reads
  <2>3. work'[p] = w /\ \A o \in Process : o # p => work'[o] = work[o] BY <1>3, <2>2
  <2>4. w.page \subseteq Pending BY <1>2, <2>1, <2>2
  <2>5. CASE At(p, "extract") /\ UNCHANGED text
    BY <1>9, <2>1, <2>2, <2>4, <2>5 DEF At, Reads
  <2>6. CASE At(p, "mark") /\ text' = [text EXCEPT ![Reading(p)] = "done"]
    <3>1. Reading(p) \in written BY <1>2, <2>6 DEF At
    <3>2. \A o \in Process : work'[o].at \in Reads => o = p
      BY <1>4, <2>2, <2>3
    <3>3. \A o \in Process : work'[o].at \notin {"close", "mark"}
      BY <2>1, <2>3, <3>2 DEF Reads
    <3>4. w.page \subseteq Pending' BY <1>3, <2>1, <2>2, <2>4, <2>6 DEF Pending
    <3>5. \A o \in Process : work'[o].at \in Reads => work'[o].page \subseteq Pending'
      BY <2>3, <3>2, <3>4
    <3>6. \A o \in Process : work[o].at \in {"close", "mark"} => o = p
      BY <1>4, <2>2 DEF Reads
    <3>7. \A e \in written' : text'[e] = "done" BY <1>2, <1>3, <2>2, <2>6, <3>6
    <3>8. doubled' = {} /\ \A e \in Episode : text'[e] = "done" => e \in written'
      BY <1>2, <1>3, <2>2, <2>6, <3>1
    <3> QED BY <3>3, <3>5, <3>7, <3>8 DEF Mining
  <2> QED BY <2>1, <2>5, <2>6
<1>13. ASSUME NEW p \in Process, OfferStep(p) PROVE Mining'
  <2>1. PICK w \in Job : Continues(p, w) /\ w.at \in {"offer", "decide", "weigh", "end"}
    BY <1>13 DEF OfferStep
  <2> QED BY <1>9, <1>13, <2>1 DEF OfferStep, Continues, Reads, Weighs, textVars, history
<1>14. ASSUME NEW p \in Process, work' = [work EXCEPT ![p] = NoWork], UNCHANGED <<text, doubled>>,
              written' = Unmarked(p)
       PROVE  Mining'
  <2>1. /\ work' = [work EXCEPT ![p] = NoWork] /\ UNCHANGED <<text, doubled>>
        /\ written' = IF At(p, "mark") \/ At(p, "close") THEN written \ {Reading(p)} ELSE written
    BY <1>14 DEF Unmarked
  <2>2. CASE ~(At(p, "mark") \/ At(p, "close"))
    BY <1>3, <1>9, <2>1, <2>2 DEF At, Reads
  <2>3. CASE At(p, "mark") \/ At(p, "close")
    <3>1. work[p].at \in Reads BY <2>3 DEF At, Reads
    <3>2. \A o \in Process : work'[o].at \notin Reads BY <1>3, <1>4, <2>1, <3>1 DEF Reads
    <3>3. \A o \in Process : work[o].at \in {"close", "mark"} => o = p BY <1>4, <3>1 DEF Reads
    <3>4. Reading(p) \in Episode /\ text[Reading(p)] = "pending"
      <4>1. work[p] \in Job /\ work[p].page # {}
        BY <1>3, <3>1 DEF Placed, Sound, Reads
      <4> QED BY <1>2, <3>1, <4>1, AtHand DEF Pending
    <3>5. written' = written \ {Reading(p)} BY <2>1, <2>3
    <3>6. \A e \in written' : text'[e] = "done" BY <1>2, <2>1, <3>3, <3>5
    <3>7. doubled' = {} /\ \A e \in Episode : text'[e] = "done" => e \in written'
      BY <1>2, <2>1, <3>4, <3>5
    <3> QED BY <3>2, <3>6, <3>7 DEF Mining, Reads
  <2> QED BY <2>2, <2>3
<1>16. ASSUME NEW p \in Process, EndStep(p) \/ Ends(p) PROVE Mining'
  <2>1. UNCHANGED <<text, doubled>> /\ written' = Unmarked(p)
    BY <1>16 DEF EndStep, Ends, textVars
  <2>2. CASE work' = [work EXCEPT ![p] = NoWork] BY <1>14, <2>1, <2>2
  <2>3. CASE At(p, "end") /\ \E w \in Job : Continues(p, w) /\ w.at = "sweep"
    <3>1. written' = written BY <2>1, <2>3 DEF At, Unmarked
    <3>2. \E w \in Job : work' = [work EXCEPT ![p] = w] /\ w.at \notin Reads
      BY <2>3 DEF Continues, Reads
    <3> QED BY <1>9, <2>1, <2>3, <3>1, <3>2 DEF At
  <2> QED BY <1>16, <2>2, <2>3 DEF EndStep, Ends, Drops
<1>15. ASSUME NEW p \in Process, Close(p) PROVE Mining'
  BY <1>3, <1>9, <1>15 DEF Close, Awaiting, Quiet, textVars, history, Reads
<1>17. ASSUME NEW p \in Process, Start(p) PROVE Mining'
  BY <1>5, <1>17 DEF Start, Quiet, textVars, history
<1>18. ASSUME NEW p \in Process, NEW e \in Episode, Speak(p, e) PROVE Mining'
  <2>1. /\ UNCHANGED <<work, written, doubled>> /\ text' = [text EXCEPT ![e] = "pending"]
        /\ text[e] = "absent"
    BY <1>18 DEF Speak, history
  <2>2. Pending \subseteq Pending' /\ \A d \in Episode : text'[d] = "done" <=> text[d] = "done"
    BY <1>3, <2>1 DEF Pending
  <2>3. \A o \in Process : Reading(o)' = Reading(o) BY <2>1 DEF Reading
  <2> QED BY <1>2, <1>3, <2>1, <2>2, <2>3 DEF Mining
<1>19. ASSUME NEW p \in Process, NEW q \in Proposal, RememberStep(p, q) PROVE Mining'
  <2>1. UNCHANGED <<text, written, doubled>> BY <1>19 DEF RememberStep, textVars
  <2>2. CASE UNCHANGED work BY <1>5, <2>1, <2>2
  <2>3. CASE Free(p) /\ \E w \in Job : work' = [work EXCEPT ![p] = w] /\ w.at = "offer"
    <3>1. work[p] \notin Job BY <2>3 DEF Free, Job
    <3>2. work[p].at \notin {"close", "mark"} BY <1>3, <3>1
    <3> QED BY <1>9, <2>1, <2>3, <3>2 DEF Reads
  <2> QED BY <1>19, <2>2, <2>3 DEF RememberStep
<1> QED
  BY <1>6, <1>7, <1>8, <1>10, <1>11, <1>12, <1>13, <1>14, <1>15, <1>16, <1>17, <1>18, <1>19 DEF Step

----------------------------------------------------------------------------
(* The turns.                                                              *)

\* A turn that p was told of is still to be mined.  A batch whose page was full
\* gets on or has something left to read; one whose page was not has all the turns
\* of p in it, unless one ended since, and then it is followed by another.
CaughtBy(p) ==
  /\ Running(p) /\ work[p].full /\ work[p].clean => work[p].moved \/ work[p].page # {}
  /\ Running(p) /\ ~cons[p].stopped /\ Owed(p) /\ work[p].clean /\ ~work[p].full =>
       heard[p] \subseteq work[p].page
  /\ ~Running(p) /\ ~cons[p].stopped => ~cons[p].again
  /\ /\ ~cons[p].stopped /\ cons[p].timer = "off" /\ ~Running(p)
     /\ cons[p].last \in {"none", "ran"}
     => heard[p] = {}

Heard == \A p \in Process : heard[p] \subseteq Pending
Caught == \A p \in Process : CaughtBy(p)

\* An episode that is marked is forgotten by all.
LEMMA HeardNext ==
  ASSUME TypeOK, Heard, Step
  PROVE  Heard'
<1>1. /\ text \in [Episode -> {"absent", "pending", "done"}]
      /\ heard \in [Process -> SUBSET Episode]
  BY DEF TypeOK
<1>2. ASSUME UNCHANGED <<text, heard>> PROVE Heard' BY <1>2 DEF Heard, Pending
<1>3. CASE UNCHANGED vars BY <1>2, <1>3 DEF vars, textVars, turnVars
<1>4. CASE Age BY <1>2, <1>4 DEF Age, textVars, turnVars
<1>5. ASSUME NEW e \in Episode, ForgetStep(e) PROVE Heard'
  BY <1>2, <1>5 DEF ForgetStep, turnVars
<1>6. ASSUME NEW p \in Process, WakeStep(p) PROVE Heard'
  <2>1. UNCHANGED text BY <1>6 DEF WakeStep, textVars
  <2>2. CASE UNCHANGED turnVars BY <1>2, <2>1, <2>2 DEF turnVars
  <2>3. CASE \E e \in Episode : heard' = [heard EXCEPT ![p] = @ \cup ({e} \cap Pending)]
    BY <1>1, <2>1, <2>3 DEF Heard, Pending
  <2> QED BY <1>6, <2>2, <2>3 DEF WakeStep
<1>7. ASSUME NEW p \in Process, ReadStep(p) \/ OfferStep(p) \/ EndStep(p) \/ Close(p) \/ Start(p)
      PROVE  Heard'
  BY <1>2, <1>7 DEF ReadStep, OfferStep, EndStep, Close, Start, Quiet, textVars, turnVars
<1>8. ASSUME NEW p \in Process, TurnStep(p) PROVE Heard'
  <2>1. CASE UNCHANGED <<text, heard>> BY <1>2, <2>1
  <2>2. CASE /\ text' = [text EXCEPT ![Reading(p)] = "done"]
             /\ heard' = [o \in Process |-> heard[o] \ {Reading(p)}]
    BY <1>1, <2>2 DEF Heard, Pending
  <2> QED BY <1>8, <2>1, <2>2 DEF TurnStep
<1>9. ASSUME NEW p \in Process, Ends(p) PROVE Heard'
  <2>1. UNCHANGED text /\ heard' = [heard EXCEPT ![p] = {}] BY <1>9 DEF Ends, textVars
  <2> QED BY <1>1, <2>1 DEF Heard, Pending
<1>10. ASSUME NEW p \in Process, NEW e \in Episode, Speak(p, e) PROVE Heard'
  <2>1. UNCHANGED heard /\ text' = [text EXCEPT ![e] = "pending"] BY <1>10 DEF Speak
  <2> QED BY <1>1, <2>1 DEF Heard, Pending
<1>11. ASSUME NEW p \in Process, NEW q \in Proposal, RememberStep(p, q) PROVE Heard'
  BY <1>2, <1>11 DEF RememberStep, textVars, turnVars
<1> QED
  BY <1>3, <1>4, <1>5, <1>6, <1>7, <1>8, <1>9, <1>10, <1>11 DEF Step

\* A process whose job and consolidator stay as they are, or whose job goes on
\* with its page.
LEMMA CaughtKept ==
  ASSUME Caught, NEW o \in Process, cons'[o] = cons[o], heard'[o] \subseteq heard[o],
         \/ work'[o] = work[o]
         \/ Alike(work[o], work'[o])
         \/ ~Running(o) /\ work'[o].by # "batch"
  PROVE  CaughtBy(o)'
<1>1. CaughtBy(o) BY DEF Caught
<1> QED BY <1>1 DEF CaughtBy, Alike, Running, Owed

\* Each process keeps track of its own turns.
LEMMA CaughtNext ==
  ASSUME TypeOK, Placed, Heard, Caught, Step
  PROVE  Caught'
<1>1. /\ work \in [Process -> {NoWork} \cup Job] /\ NoWork.by = "none" /\ NoWork \notin Job
      /\ cons \in [Process -> Consolidator] /\ heard \in [Process -> SUBSET Episode]
  BY DEF TypeOK, NoWork, Job
<1>2. ASSUME UNCHANGED <<cons, work, heard>> PROVE Caught'
  BY <1>2, CaughtKept DEF Caught
<1>3. ASSUME NEW p \in Process, CaughtBy(p)',
             \A o \in Process : o # p =>
               work'[o] = work[o] /\ cons'[o] = cons[o] /\ heard'[o] \subseteq heard[o]
      PROVE  Caught'
  <2>1. ASSUME NEW o \in Process, o # p PROVE CaughtBy(o)' BY <1>3, <2>1, CaughtKept
  <2> QED BY <1>3, <2>1 DEF Caught
<1>4. CASE UNCHANGED vars BY <1>2, <1>4 DEF vars, turnVars
<1>5. CASE Age BY <1>2, <1>5 DEF Age, turnVars
<1>6. ASSUME NEW e \in Episode, ForgetStep(e) PROVE Caught'
  BY <1>2, <1>6 DEF ForgetStep, turnVars
<1>7. ASSUME NEW p \in Process, WakeStep(p) PROVE Caught'
  <2>1. /\ UNCHANGED text /\ heard'[p] \subseteq heard[p] \cup Pending
        /\ \A o \in Process : o # p => heard'[o] = heard[o]
    BY <1>1, <1>7 DEF WakeStep, textVars, turnVars
  <2>2. heard'[p] \subseteq Pending' BY <2>1 DEF Heard, Pending
  <2>3. ASSUME NEW d \in Consolidator, cons' = [cons EXCEPT ![p] = d], UNCHANGED work,
               d.stopped = cons[p].stopped, ~d.stopped /\ ~Running(p) => ~d.again,
               \/ d.stopped
               \/ d.again /\ Running(p)
               \/ d.timer # "off"
               \/ d.last \notin {"none", "ran"} /\ ~Running(p)
        PROVE  Caught'
    <3>1. cons'[p] = d /\ \A o \in Process : o # p => cons'[o] = cons[o] BY <1>1, <2>3
    <3>2. CaughtBy(p) BY DEF Caught
    <3>3. CaughtBy(p)' BY <2>3, <3>1, <3>2 DEF CaughtBy, Running, Owed
    <3> QED BY <1>3, <2>1, <2>3, <3>1, <3>3
  <2>4. CASE UNCHANGED <<cons, work>> /\ cons[p].stopped
    <3>1. CaughtBy(p)' BY <2>4 DEF Caught, CaughtBy, Running
    <3> QED BY <1>3, <2>1, <2>4, <3>1
  <2>5. ASSUME NEW c \in Consolidator, c.stopped = cons[p].stopped, Idles(p, c), ~Running(p)
        PROVE  Caught'
    <3>1. PICK d \in Consolidator :
            /\ cons' = [cons EXCEPT ![p] = d] /\ d.last \in {"budget", "busy"}
            /\ d.stopped = c.stopped /\ (~c.stopped => ~d.again)
      BY <2>5 DEF Idles
    <3>2. UNCHANGED work BY <2>5 DEF Idles
    <3> QED BY <2>3, <2>5, <3>1, <3>2
  <2>6. ASSUME NEW c \in Consolidator, c.stopped = cons[p].stopped, Waits(p, c) PROVE Caught'
    <3> DEFINE d == [c EXCEPT !.again = TRUE]
    <3>1. d \in Consolidator /\ d.again /\ d.stopped = cons[p].stopped
      BY <2>6 DEF Consolidator
    <3>2. cons' = [cons EXCEPT ![p] = d] /\ Running(p) /\ UNCHANGED work BY <2>6 DEF Waits
    <3> HIDE DEF d
    <3> QED BY <2>3, <3>1, <3>2
  <2>7. ASSUME NEW c \in Consolidator, Starts(p, c) PROVE Caught'
    <3>1. PICK w \in Job : Fresh(w) /\ work' = [work EXCEPT ![p] = w] BY <2>7 DEF Starts
    <3>2. PICK d \in Consolidator : cons' = [cons EXCEPT ![p] = d] BY <2>7 DEF Starts
    <3>3. work'[p] = w /\ cons'[p] = d
          /\ \A o \in Process : o # p => work'[o] = work[o] /\ cons'[o] = cons[o]
      BY <1>1, <3>1, <3>2
    <3>4. w.by = "batch" /\ (w.full => w.page # {}) /\ (~w.full => w.page = Pending')
      BY <2>1, <3>1 DEF Fresh, Pending
    <3>5. CaughtBy(p)' BY <2>2, <3>3, <3>4 DEF CaughtBy, Running
    <3> QED BY <1>3, <2>1, <3>3, <3>5
  <2>8. ASSUME NEW d \in Consolidator, cons' = [cons EXCEPT ![p] = d], UNCHANGED work,
               d.stopped = cons[p].stopped, d.again = cons[p].again, d.timer # "off"
        PROVE  Caught'
    <3>1. ~cons[p].stopped /\ ~Running(p) => ~cons[p].again BY DEF Caught, CaughtBy
    <3> QED BY <2>3, <2>8, <3>1
  <2> QED BY <1>7, <2>4, <2>5, <2>6, <2>7, <2>8 DEF WakeStep
<1>8. ASSUME NEW p \in Process, UNCHANGED <<cons, heard>>,
             \E w \in Job : Continues(p, w) /\ Alike(work[p], w)
      PROVE  Caught'
  <2>1. PICK w \in Job : Continues(p, w) /\ Alike(work[p], w) BY <1>8
  <2>2. work'[p] = w /\ \A o \in Process : o # p => work'[o] = work[o]
    BY <1>1, <2>1 DEF Continues
  <2>3. CaughtBy(p)' BY <1>8, <2>1, <2>2, CaughtKept
  <2> QED BY <1>3, <1>8, <2>2, <2>3
<1>9. ASSUME NEW p \in Process, ReadStep(p) \/ OfferStep(p) PROVE Caught'
  BY <1>8, <1>9 DEF ReadStep, OfferStep, turnVars
<1>10. ASSUME NEW p \in Process, TurnStep(p) PROVE Caught'
  <2>1. PICK w \in Job :
          /\ Continues(p, w) /\ w.page = work[p].page \ {Reading(p)}
          /\ \/ At(p, "extract") /\ ~w.clean /\ UNCHANGED heard
             \/ /\ At(p, "mark") /\ w.moved /\ w.clean = work[p].clean
                /\ heard' = [o \in Process |-> heard[o] \ {Reading(p)}]
    BY <1>10 DEF TurnStep
  <2>2. work'[p] = w /\ \A o \in Process : o # p => work'[o] = work[o]
    BY <1>1, <2>1 DEF Continues
  <2>3. UNCHANGED cons BY <1>10 DEF TurnStep
  <2>4. w.by = "batch" /\ Running(p) /\ w.full = work[p].full
    BY <2>1 DEF Continues, Placed, Sound, At, Reads, Running
  <2>5. \A o \in Process : heard'[o] \subseteq heard[o] BY <2>1
  <2>6. ASSUME ~w.clean PROVE CaughtBy(p)'
    <3>1. CaughtBy(p) BY DEF Caught
    <3> QED BY <2>2, <2>3, <2>4, <2>6, <3>1 DEF CaughtBy, Running
  <2>7. ASSUME w.moved, w.clean = work[p].clean,
               heard' = [o \in Process |-> heard[o] \ {Reading(p)}]
        PROVE  CaughtBy(p)'
    <3>1. heard'[p] = heard[p] \ {Reading(p)} BY <2>7
    <3>2. CaughtBy(p) BY DEF Caught
    <3> QED BY <2>1, <2>2, <2>3, <2>4, <2>7, <3>1, <3>2 DEF CaughtBy, Running, Owed
  <2> QED BY <1>3, <2>1, <2>2, <2>3, <2>5, <2>6, <2>7
<1>11. ASSUME NEW p \in Process, EndStep(p) PROVE Caught'
  <2>1. UNCHANGED heard BY <1>11 DEF EndStep, turnVars
  <2>2. CASE work[p].by = "tool" /\ Drops(p) /\ UNCHANGED cons
    <3>1. work'[p] = NoWork /\ \A o \in Process : o # p => work'[o] = work[o]
      BY <1>1, <2>2 DEF Drops
    <3>2. CaughtBy(p)' BY <1>1, <2>1, <2>2, <3>1, CaughtKept DEF Running
    <3> QED BY <1>3, <2>1, <2>2, <3>1, <3>2
  <2>3. CASE UNCHANGED cons /\ \E w \in Job : Continues(p, w) /\ Alike(work[p], w)
    BY <1>8, <2>1, <2>3
  <2>4. CASE Drops(p) /\ Rests(p)
    <3>1. work[p] \in Job /\ work'[p] = NoWork /\ \A o \in Process : o # p => work'[o] = work[o]
      BY <1>1, <2>4 DEF Drops
    <3>2. PICK d \in Consolidator :
            /\ cons' = [cons EXCEPT ![p] = d]
            /\ d.stopped = cons[p].stopped
            /\ d.last \in {"none", "ran"} => work[p].at \in {"end", "sweep"} /\ work[p].clean
            /\ ~cons[p].stopped =>
                 /\ ~d.again
                 /\ d.timer = "off" /\ d.last \in {"none", "ran"} =>
                      Owed(p) /\ ~(work[p].full /\ work[p].moved)
      BY <2>4 DEF Rests
    <3>3. cons'[p] = d /\ \A o \in Process : o # p => cons'[o] = cons[o] BY <1>1, <3>2
    <3>4. Running(p) /\ (work[p].at \in {"end", "sweep"} => work[p].page = {})
      BY <2>4, <3>1 DEF Rests, Placed, Sound
    <3>5. ~d.stopped /\ d.timer = "off" /\ d.last \in {"none", "ran"} => heard'[p] = {}
      BY <2>1, <3>2, <3>4 DEF Caught, CaughtBy
    <3>6. CaughtBy(p)' BY <1>1, <3>1, <3>2, <3>3, <3>5 DEF CaughtBy, Running
    <3> QED BY <1>3, <2>1, <3>1, <3>3, <3>6
  <2> QED BY <1>11, <2>2, <2>3, <2>4 DEF EndStep
<1>12. ASSUME NEW p \in Process, Close(p) PROVE Caught'
  <2> DEFINE d == [cons[p] EXCEPT !.stopped = TRUE, !.timer = "off"]
  <2>1. d.stopped BY <1>1 DEF Consolidator
  <2>2. cons' = [cons EXCEPT ![p] = d] /\ work' = [work EXCEPT ![p] = NoWork] /\ UNCHANGED heard
    BY <1>12 DEF Close, turnVars
  <2> HIDE DEF d
  <2>3. cons'[p] = d /\ work'[p] = NoWork
        /\ \A o \in Process : o # p => work'[o] = work[o] /\ cons'[o] = cons[o]
    BY <1>1, <2>2
  <2>4. CaughtBy(p)' BY <1>1, <2>1, <2>3 DEF CaughtBy, Running
  <2> QED BY <1>3, <2>2, <2>3, <2>4
<1>13. ASSUME NEW p \in Process, Ends(p) PROVE Caught'
  <2>1. /\ cons' = [cons EXCEPT ![p] = Resting] /\ work' = [work EXCEPT ![p] = NoWork]
        /\ heard' = [heard EXCEPT ![p] = {}]
    BY <1>13 DEF Ends
  <2>2. /\ cons'[p] = Resting /\ work'[p] = NoWork /\ heard'[p] = {}
        /\ \A o \in Process : o # p =>
             work'[o] = work[o] /\ cons'[o] = cons[o] /\ heard'[o] = heard[o]
    BY <1>1, <2>1
  <2>3. CaughtBy(p)' BY <1>1, <2>2 DEF CaughtBy, Running, Resting
  <2> QED BY <1>3, <2>2, <2>3
<1>14. ASSUME NEW p \in Process, Start(p) PROVE Caught'
  BY <1>2, <1>14 DEF Start, turnVars
<1>15. ASSUME NEW p \in Process, NEW e \in Episode, Speak(p, e) PROVE Caught'
  BY <1>2, <1>15 DEF Speak
<1>16. ASSUME NEW p \in Process, NEW q \in Proposal, RememberStep(p, q) PROVE Caught'
  <2>1. UNCHANGED <<cons, heard>> BY <1>16 DEF RememberStep, turnVars
  <2>2. CASE UNCHANGED work BY <1>2, <2>1, <2>2
  <2>3. CASE Free(p) /\ \E w \in Job : work' = [work EXCEPT ![p] = w] /\ w.by = "tool"
    <3>1. /\ ~Running(p) /\ work'[p].by # "batch"
          /\ \A o \in Process : o # p => work'[o] = work[o]
      BY <1>1, <2>3 DEF Free, Running
    <3>2. CaughtBy(p)' BY <2>1, <3>1, CaughtKept
    <3> QED BY <1>3, <2>1, <3>1, <3>2
  <2> QED BY <1>16, <2>2, <2>3 DEF RememberStep
<1> QED
  BY <1>4, <1>5, <1>6, <1>7, <1>9, <1>10, <1>11, <1>12, <1>13, <1>14, <1>15, <1>16 DEF Step

----------------------------------------------------------------------------
(* The theorems.                                                           *)

\* The inductive invariant.
Inv ==
  /\ TypeOK /\ Placed /\ Locked
  /\ Single /\ Tainted /\ TaintTravels
  /\ Standing /\ ForgottenIsNoEvidence
  /\ Mining /\ Heard /\ Caught

\* At first nobody works and nothing was said.
LEMMA InvInit == Init => Inv
<1> SUFFICES ASSUME Init PROVE Inv
  OBVIOUS
<1>1. TypeOK /\ Placed BY TypeInit
<1>2. \A p \in Process : work[p].at = "none" /\ work[p].by = "none" BY DEF Init, NoWork
<1>3. Locked /\ Tainted /\ Standing BY <1>2 DEF Locked, Working, Tainted, At, Standing
<1>4. DOMAIN facts = {} BY DEF Init
<1>5. Single /\ TaintTravels /\ ForgottenIsNoEvidence
  <2>1. \A q \in Proposal : status[q] # "accepted" BY DEF Init
  <2>2. \A q \in Proposal : Of(q) = {} BY <1>4 DEF Of
  <2>3. Active = {} BY <1>4 DEF Active
  <2> QED BY <1>4, <2>1, <2>2, <2>3 DEF Single, TaintTravels, ForgottenIsNoEvidence
<1>6. Mining
  <2>1. written = {} /\ doubled = {} /\ \A e \in Episode : text[e] = "absent" BY DEF Init
  <2> QED BY <1>2, <2>1 DEF Mining, Reads
<1>7. Heard /\ Caught
  <2>1. \A p \in Process : heard[p] = {} /\ cons[p] = Resting BY DEF Init
  <2> QED BY <1>2, <2>1 DEF Heard, Caught, CaughtBy, Running, Resting
<1> QED BY <1>1, <1>3, <1>5, <1>6, <1>7 DEF Inv

\* No step breaks the invariant.
LEMMA InvNext == Inv /\ [Next]_vars => Inv'
<1> SUFFICES ASSUME Inv, [Next]_vars PROVE Inv'
  OBVIOUS
<1> USE DEF Inv
<1>1. Step BY StepIs
<1>2. TypeOK' /\ Placed' BY TypeNext
<1>3. Locked' BY <1>1, LockedNext
<1>4. Single' /\ Tainted' /\ TaintTravels' BY <1>1, SingleNext, TaintedNext, TaintNext
<1>5. Standing' /\ ForgottenIsNoEvidence' BY <1>1, StandingNext, EvidenceNext
<1>6. Mining' BY <1>1, MiningNext
<1>7. Heard' /\ Caught' BY <1>1, HeardNext, CaughtNext
<1> QED BY <1>2, <1>3, <1>4, <1>5, <1>6, <1>7

\* The invariant holds in every behaviour.
LEMMA InvAlways == Spec => []Inv
BY InvInit, InvNext, PTL DEF Spec

\* The variables keep their types.
THEOREM TypeCorrect == Spec => []TypeOK
<1>1. Inv => TypeOK BY DEF Inv
<1> QED BY <1>1, InvAlways, PTL

\* A consolidator at rest after a run that was neither refused nor cut short has
\* left no turn it was told of to be mined (fire and its edges, consolidator.ts).
THEOREM NothingForgottenCorrect == Spec => []NothingForgotten
<1>1. Inv => NothingForgotten
  <2>1. TypeOK => up \subseteq Process BY DEF TypeOK, IL!TypeOK
  <2> QED BY <2>1 DEF Inv, Caught, CaughtBy, NothingForgotten
<1> QED BY <1>1, InvAlways, PTL

\* Unless somebody outlived the lock, no episode has its beliefs written twice by
\* batches that both lived to mark it, and none is marked without (ingestOne and
\* markExtracted, ingest.ts).
THEOREM MinedCorrect == Spec => []MinedOnce
<1>1. Inv => MinedOnce BY DEF Inv, Mining, MinedOnce
<1> QED BY <1>1, InvAlways, PTL

\* A proposal that is accepted has one belief, any other has none, and the belief
\* has the taint of the proposal but for a raise between the look at it and the
\* transaction that decides without a judge (reconcileProposalLocked, ingest.ts).
THEOREM BelievedCorrect == Spec => []BelievedOnce
<1>1. Inv => BelievedOnce BY SinglesCount DEF Inv, BelievedOnce
<1> QED BY <1>1, InvAlways, PTL

\* Unless somebody outlived the lock, no proposal is believed on evidence that the
\* owner has had forgotten (the look at the evidence, ingest.ts; memory_forget).
THEOREM EvidenceCorrect == Spec => []ForgottenIsNoEvidence
<1>1. Inv => ForgottenIsNoEvidence BY DEF Inv
<1> QED BY <1>1, InvAlways, PTL
=============================================================================
