------------------------------- MODULE Memory -------------------------------
(***************************************************************************)
(* How episodes and proposals become beliefs: the consolidator and its     *)
(* timers (core/memory/consolidator.ts), the batch it runs and the         *)
(* reconciler of proposals (core/memory/ingest.ts), the tools that propose *)
(* and forget (agent/tools/memory-propose.ts, memory-forget.ts).           *)
(*                                                                         *)
(* Every process has a consolidator and takes the one lock of the memory   *)
(* (DurableLock).  A batch gives way at its model calls only; elsewhere a  *)
(* step can be cut short by the end of the process, and other processes    *)
(* can act in between, but its own process cannot.                         *)
(*                                                                         *)
(* All candidates are about one subject and predicate, where they meet; an *)
(* episode yields at most one.  Agent output, documents and empty episodes *)
(* are marked like the ones that yield none.  Vectors are left out.        *)
(***************************************************************************)
EXTENDS Naturals, Sequences, FiniteSetsExt

CONSTANTS
  Process,   \* processes that build a runtime: gateway, terminal, `memory extract`
  Hosts,     \* those of them that run turns
  Pid, PidOf, \* see DurableLock
  Episode,   \* a finite set of naturals, in the order of created_at
  Proposal,  \* a finite set of naturals, in the order of id, none an episode
  Broken,    \* episodes whose extraction always fails
  Says,      \* the object of the candidate of each episode and proposal
  Cites,     \* the episode a proposal cites as its evidence
  Limit,     \* CONSOLIDATION_BATCH
  Ceiling,   \* CONSOLIDATION_CEILING
  DrainLimit, \* PROPOSAL_DRAIN_LIMIT
  MaxFaults, \* bound: processes that end, horizons that pass
  MaxRefusals, \* bound: budgets spent, extractions that fail, batches that throw
  MaxForgets \* bound: episodes the owner has had forgotten

ASSUME Processes ==
  /\ Hosts \subseteq Process
  /\ "gone" \notin Process /\ "no pid" \notin Pid /\ PidOf \in [Process -> Pid]

ASSUME Words ==
  /\ Episode \cup Proposal \subseteq Nat /\ Episode \cap Proposal = {}
  /\ IsFiniteSet(Episode) /\ Broken \subseteq Episode
  /\ Cites \in [Proposal -> Episode]

\* The two batch limits are positive constants of the source.
ASSUME Limits ==
  /\ {Limit, DrainLimit} \subseteq Nat \ {0}
  /\ {Ceiling, MaxFaults, MaxRefusals, MaxForgets} \subseteq Nat

VARIABLES
  row, up, holders, late,   \* the lock of the memory (DurableLock)
  cons,      \* of each process, its consolidator
  work,      \* of each process, the batch or the tool call that holds the lock
  text,      \* episodes: absent, pending or done
  withdrawn, \* episodes whose superseded_at is set
  facts,     \* beliefs, in the order they were recorded
  status,    \* proposals
  tier,      \* trust_tier of the proposals: 0, the owner, or 1
  spoken, heard,   \* of each process: turns under way; those it was told of and that are not mined
  written, doubled, \* history: episodes with their beliefs, and with them twice
  raised,    \* history: proposals raised between the look at them and the decision
  wedged,    \* history: a holder let its horizon pass with work in hand
  left       \* how much of each bound is left

lockVars == <<row, up, holders, late>>
textVars == <<text, withdrawn>>
proposalVars == <<status, tier>>
turnVars == <<spoken, heard>>
history == <<written, doubled, raised, wedged>>
vars == <<lockVars, cons, work, textVars, facts, proposalVars, turnVars, history, left>>

IL == INSTANCE DurableLock WITH holds <- holders

----------------------------------------------------------------------------

Resting ==
  [timer |-> "off", since |-> 0, again |-> FALSE, stopped |-> FALSE, last |-> "none"]

NoWork == [by |-> "none", at |-> "none"]

\* What a batch has in hand, and what its report will say.
Batch ==
  [by |-> "batch", at |-> "extract", page |-> {}, offers |-> {}, full |-> FALSE, moved |-> FALSE,
   more |-> FALSE, added |-> FALSE, clean |-> TRUE, basis |-> 0, tier |-> 0]

Free(p) == work[p].by = "none"
At(p, where) == work[p].at = where
Running(p) == work[p].by = "batch"

\* The process waits for a model, or for nothing: its own callbacks can run.
Awaiting(p) == work[p].at \in {"none", "extract", "judge", "weigh", "end"}

\* pendingEpisodes and pendingProposals.
Pending == {e \in Episode : text[e] = "pending"}
Staged == {q \in Proposal : status[q] = "pending"}
\* The first n of them.
Page(S, n) == {x \in S : Cardinality({y \in S : y < x}) < n}

Active == {i \in DOMAIN facts : facts[i].live = "active"}

\* The belief recorded last is the candidate; 0 when there is none.
Newest == IF Active = {} THEN 0 ELSE Max(Active)

EvidenceOf(f) == IF f.from \in Episode THEN f.from ELSE Cites[f.from]
Belief(from, t) == [from |-> from, tier |-> t, live |-> "active"]
Repeats(i, from) == i # 0 /\ Says[facts[i].from] = Says[from]

\* MemoryStore.supersede.
Superseded(i) ==
  IF facts[i].live = "active" THEN [facts EXCEPT ![i].live = "superseded"] ELSE facts

Init ==
  /\ IL!Init
  /\ cons = [p \in Process |-> Resting]
  /\ work = [p \in Process |-> NoWork]
  /\ text = [e \in Episode |-> "absent"]
  /\ withdrawn = {}
  /\ facts = <<>>
  /\ status = [q \in Proposal |-> "absent"]
  /\ tier = [q \in Proposal |-> 0]
  /\ spoken = [p \in Process |-> {}] /\ heard = [p \in Process |-> {}]
  /\ written = {} /\ doubled = {} /\ raised = {}
  /\ wedged = FALSE
  /\ left = [faults |-> MaxFaults, refusals |-> MaxRefusals]

Fault == left.faults > 0 /\ left' = [left EXCEPT !.faults = @ - 1]
Refusal == left.refusals > 0 /\ left' = [left EXCEPT !.refusals = @ - 1]

----------------------------------------------------------------------------
(* The consolidator.                                                       *)

\* Fault: the drain forgets the trailing edge that was put off.
Fault_DrainOnly(c, drains, outcome) ==
  IF c.stopped THEN [c EXCEPT !.last = outcome]
  ELSE [c EXCEPT !.again = FALSE, !.last = outcome,
                 !.timer = IF drains THEN "drain" ELSE @]

\* The end of a run: what came while it ran is served first, then the drain.
Rested(c, drains, outcome) ==
  IF c.stopped THEN [c EXCEPT !.last = outcome]
  ELSE [c EXCEPT !.again = FALSE, !.last = outcome,
                 !.timer = IF c.again THEN "idle" ELSE IF drains THEN "drain" ELSE @]

\* What comes after an episode: the next one, or the proposals.
NextText(w) ==
  IF w.page # {} THEN [w EXCEPT !.at = "extract"]
  ELSE LET offers == Page(Staged, DrainLimit)
       IN [w EXCEPT !.at = IF offers = {} THEN "end" ELSE "offer",
                    !.offers = offers, !.more = Cardinality(offers) = DrainLimit]

\* The episode a batch is at, and the batch once it is done with it.
Reading(p) == Min(work[p].page)
Turned(w) == [w EXCEPT !.page = @ \ {Min(@)}]

\* Fault: two processes mine at a time.
Fault_NoLock(p) == UNCHANGED lockVars

TakesLock(p) == IL!Acquire(p)

\* execute up to the first model call: the count starts again, a spent budget or a
\* taken lock ends the run, else the page is read under the lock.
Begin(p, c) ==
  \/ /\ Refusal
     /\ cons' = [cons EXCEPT ![p] = Rested([c EXCEPT !.since = 0], FALSE, "budget")]
     /\ UNCHANGED <<lockVars, work>>
  \/ /\ IL!Held
     /\ cons' = [cons EXCEPT ![p] = Rested([c EXCEPT !.since = 0], FALSE, "busy")]
     /\ UNCHANGED <<lockVars, work, left>>
  \/ /\ TakesLock(p)
     /\ cons' = [cons EXCEPT ![p] = [c EXCEPT !.since = 0]]
     /\ work' = [work EXCEPT ![p] = NextText([Batch EXCEPT !.page = Page(Pending, Limit),
                                              !.full = Cardinality(Pending) >= Limit])]
     /\ UNCHANGED left

Quiet == UNCHANGED <<textVars, facts, proposalVars, history>>

\* fire.  A tool call of the same process that has the lock makes the batch busy;
\* one that has outlived it is let finish first.
Fire(p, c) ==
  IF Running(p)
  THEN cons' = [cons EXCEPT ![p] = [c EXCEPT !.again = TRUE]] /\ UNCHANGED <<lockVars, work, left>>
  ELSE (Free(p) \/ IL!Held) /\ Begin(p, c)

TimerFires(p) ==
  /\ p \in up /\ Awaiting(p) /\ cons[p].timer # "off"
  /\ Fire(p, [cons[p] EXCEPT !.timer = "off"])
  /\ Quiet /\ UNCHANGED turnVars

\* A message comes in: its episode is written as the turn begins.
Speak(p, e) ==
  /\ p \in up \cap Hosts /\ Awaiting(p) /\ ~cons[p].stopped
  /\ text[e] = "absent" /\ \A d \in Episode : d < e => text[d] # "absent"
  /\ text' = [text EXCEPT ![e] = "pending"]
  /\ spoken' = [spoken EXCEPT ![p] = @ \cup {e}]
  /\ UNCHANGED <<lockVars, cons, work, withdrawn, facts, proposalVars, heard, history, left>>

\* notify, as a turn ends.
Notify(p, e) ==
  /\ e \in spoken[p] /\ Awaiting(p)
  /\ spoken' = [spoken EXCEPT ![p] = @ \ {e}]
  /\ heard' = [heard EXCEPT ![p] = @ \cup ({e} \cap Pending)]
  /\ LET c == [cons[p] EXCEPT !.since = @ + 1] IN
     IF cons[p].stopped THEN UNCHANGED <<lockVars, cons, work, left>>
     ELSE IF c.since >= Ceiling THEN Fire(p, [c EXCEPT !.timer = "off"])
     ELSE cons' = [cons EXCEPT ![p] = [c EXCEPT !.timer = "idle"]]
          /\ UNCHANGED <<lockVars, work, left>>
  /\ Quiet

\* runNow, by `memory extract`: it waits for the run in flight first.
RunNow(p) ==
  /\ p \in up \ Hosts /\ Free(p) /\ ~cons[p].stopped
  /\ Pending # {} \/ Staged # {}   \* bound: only when there is something to do
  /\ Begin(p, cons[p])
  /\ Quiet /\ UNCHANGED turnVars

\* runtime.close: the timer is off and the database closed.  A batch in flight
\* throws at its next write, and so does the release of its lock.
Close(p) ==
  /\ Fault
  /\ p \in up /\ Awaiting(p) /\ ~cons[p].stopped
  /\ cons' = [cons EXCEPT ![p] = [@ EXCEPT !.stopped = TRUE, !.timer = "off"]]
  /\ work' = [work EXCEPT ![p] = NoWork]
  /\ Quiet /\ UNCHANGED <<lockVars, turnVars>>

\* What is cut short between the belief and the mark leaves the episode to be
\* mined again.
Unmarked(p) == IF At(p, "mark") \/ At(p, "close") THEN written \ {Reading(p)} ELSE written

\* The process ends after that, or anywhere.
Ends(p) ==
  /\ cons[p].stopped \/ left.faults > 0
  /\ left' = [left EXCEPT !.faults = IF cons[p].stopped THEN @ ELSE @ - 1]
  /\ IL!Die(p)
  /\ written' = Unmarked(p)
  /\ cons' = [cons EXCEPT ![p] = Resting]
  /\ work' = [work EXCEPT ![p] = NoWork]
  /\ spoken' = [spoken EXCEPT ![p] = {}] /\ heard' = [heard EXCEPT ![p] = {}]
  /\ UNCHANGED <<textVars, facts, proposalVars, doubled, raised, wedged>>

Start(p) ==
  /\ IL!Start(p)
  /\ Quiet /\ UNCHANGED <<cons, work, turnVars, left>>

Age ==
  /\ Fault /\ IL!Age
  /\ wedged' = (wedged \/ \E p \in up : row.by = p)
  /\ UNCHANGED <<cons, work, textVars, facts, proposalVars, turnVars, written, doubled, raised>>

----------------------------------------------------------------------------
(* The batch.                                                              *)

Calm == UNCHANGED <<lockVars, cons, turnVars, raised, wedged>>

Wrote(e) ==
  /\ written' = written \cup {e}
  /\ doubled' = IF e \in written THEN doubled \cup {e} ELSE doubled

Goes(p, where) == work' = [work EXCEPT ![p] = [@ EXCEPT !.at = where]]

\* The extraction answers.  It may hold no candidate; what is believed already is
\* no news; a first belief is written at once, and the rest goes to the judge.
Extracted(p) ==
  /\ At(p, "extract") /\ Reading(p) \notin Broken
  /\ LET e == Reading(p) IN
     \/ /\ Newest = 0 \/ Repeats(Newest, e)
        /\ facts' = IF Newest = 0 THEN Append(facts, Belief(e, 0)) ELSE facts
        /\ Wrote(e)
        /\ work' = [work EXCEPT ![p] =
             [@ EXCEPT !.at = "mark", !.added = work[p].added \/ Newest = 0]]
     \/ /\ Newest # 0 /\ ~Repeats(Newest, e)
        /\ work' = [work EXCEPT ![p] = [@ EXCEPT !.at = "judge", !.basis = Newest]]
        /\ UNCHANGED <<facts, written, doubled>>
  /\ Calm /\ UNCHANGED <<textVars, proposalVars, left>>

\* It holds no candidate, or the episode is one that is not mined.
Barren(p) ==
  /\ At(p, "extract")
  /\ Refusal /\ Reading(p) \notin Broken
  /\ Wrote(Reading(p)) /\ Goes(p, "mark")
  /\ Calm /\ UNCHANGED <<textVars, facts, proposalVars>>

\* It cannot be read: the episode keeps its place for the next run.
Unreadable(p) ==
  /\ At(p, "extract")
  /\ IF Reading(p) \in Broken THEN UNCHANGED left ELSE Refusal
  /\ work' = [work EXCEPT ![p] = NextText([Turned(work[p]) EXCEPT !.clean = FALSE])]
  /\ Calm /\ UNCHANGED <<textVars, facts, proposalVars, written, doubled>>

\* The new belief is written, and then, a write of its own, the old one is closed
\* if the judge says so.  coexist, review and a judge that fails keep both.
Judged(p, verdict) ==
  /\ At(p, "judge")
  /\ LET e == Reading(p) IN facts' = Append(facts, Belief(e, 0)) /\ Wrote(e)
  /\ work' = [work EXCEPT ![p] =
       [@ EXCEPT !.at = IF verdict = "supersede" THEN "close" ELSE "mark", !.added = TRUE]]
  /\ Calm /\ UNCHANGED <<textVars, proposalVars, left>>

Closes(p) ==
  /\ At(p, "close")
  /\ facts' = Superseded(work[p].basis)
  /\ Goes(p, "mark")
  /\ Calm /\ UNCHANGED <<textVars, proposalVars, written, doubled, left>>

\* markExtracted, right after the beliefs of the episode.
Mark(p) ==
  /\ At(p, "mark")
  /\ text' = [text EXCEPT ![Reading(p)] = "done"]
  /\ work' = [work EXCEPT ![p] = NextText([Turned(work[p]) EXCEPT !.moved = TRUE, !.basis = 0])]
  /\ heard' = [o \in Process |-> heard[o] \ {Reading(p)}]
  /\ UNCHANGED <<lockVars, cons, withdrawn, facts, proposalVars, spoken, history, left>>

(* The proposals, by a batch or by the tool that has just staged one.      *)

Offered(p) == Min(work[p].offers)
Resolved(w) ==
  LET others == w.offers \ {Min(w.offers)}
  IN [w EXCEPT !.at = IF others = {} THEN "end" ELSE "offer",
               !.offers = others, !.basis = 0, !.tier = 0]
NextOffer(p) == work' = [work EXCEPT ![p] = Resolved(@)]
Resolve(q, outcome) == status' = [status EXCEPT ![q] = outcome]

\* The tool memory_propose: insertProposal, then reconcileProposal unless the
\* memory is busy.  The tier of a pending row can only be raised.
Remember(p, q, t) ==
  /\ spoken[p] # {} /\ Awaiting(p) /\ ~cons[p].stopped
  /\ text[Cites[q]] # "absent"
  /\ status[q] = "absent" \/ (status[q] = "pending" /\ t > tier[q])   \* bound
  /\ Resolve(q, "pending")
  /\ tier' = [tier EXCEPT ![q] = IF t > @ THEN t ELSE @]
  /\ raised' = raised \cup {r \in {q} : \E o \in Process : At(o, "decide") /\ Offered(o) = r}
  /\ \/ /\ Free(p) /\ TakesLock(p)
        /\ work' = [work EXCEPT ![p] =
             [Batch EXCEPT !.by = "tool", !.at = "offer", !.offers = {q}]]
     \/ IL!Held /\ UNCHANGED <<lockVars, work>>
  /\ UNCHANGED <<cons, textVars, facts, turnVars, written, doubled, wedged, left>>

\* Fault: the evidence is not looked at again.
Fault_AnyEvidence(q) == TRUE

EvidenceStands(q) == Cites[q] \notin withdrawn

\* reconcileProposalLocked up to its first transaction.
Look(p) ==
  /\ At(p, "offer")
  /\ LET q == Offered(p) IN
     IF status[q] # "pending" THEN NextOffer(p) /\ UNCHANGED status
     ELSE IF ~EvidenceStands(q) THEN NextOffer(p) /\ Resolve(q, "rejected")
     ELSE /\ work' = [work EXCEPT ![p] =
                [@ EXCEPT !.at = "decide", !.basis = Newest, !.tier = tier[q]]]
          /\ UNCHANGED status
  /\ Calm /\ UNCHANGED <<textVars, facts, tier, written, doubled, left>>

\* The first transaction: it writes the belief and the outcome together, or
\* leaves both to the judge.
Decide(p) ==
  /\ At(p, "decide")
  /\ LET q == Offered(p)  w == work[p] IN
     IF status[q] # "pending" THEN NextOffer(p) /\ UNCHANGED <<facts, status>>
     ELSE IF w.basis = 0
     THEN facts' = Append(facts, Belief(q, w.tier)) /\ Resolve(q, "accepted") /\ NextOffer(p)
     ELSE IF Repeats(w.basis, q) THEN Resolve(q, "merged") /\ NextOffer(p) /\ UNCHANGED facts
     ELSE Goes(p, "weigh") /\ UNCHANGED <<facts, status>>
  /\ Calm /\ UNCHANGED <<textVars, tier, written, doubled, left>>

\* Fault: the tier is the one of the look.
Fault_TierOfTheLook(p, q) == work[p].tier

TierNow(p, q) == IF tier[q] > work[p].tier THEN tier[q] ELSE work[p].tier

\* Fault: the row is not asked again when the judge answers.
Fault_StillAsked(q) == TRUE

StillPending(q) == status[q] = "pending"

\* The judge answers, and the second transaction: here the belief, the closing of
\* the old one and the outcome are one.  Accepted, superseded and review are one
\* status.
Weighed(p, verdict) ==
  /\ At(p, "weigh")
  /\ LET q == Offered(p) IN
     IF StillPending(q)
     THEN /\ facts' = Append(IF verdict = "supersede" THEN Superseded(work[p].basis) ELSE facts,
                             Belief(q, TierNow(p, q)))
          /\ Resolve(q, "accepted")
     ELSE UNCHANGED <<facts, status>>
  /\ NextOffer(p)
  /\ Calm /\ UNCHANGED <<textVars, tier, written, doubled, left>>

(* The end of a batch.                                                     *)

\* Fault: a full page is followed by another whether the head moved or not.
Fault_DrainsFull(w) == w.full \/ w.more

Drains(w) == (w.full /\ w.moved) \/ w.more

\* A tool call is over; a batch that added nothing is, too.
Release(p) ==
  /\ At(p, "end")
  /\ IL!Release(p)
  /\ IF work[p].by = "batch" /\ work[p].added
     THEN Goes(p, "sweep") /\ UNCHANGED cons
     ELSE /\ work' = [work EXCEPT ![p] = NoWork]
          /\ cons' = IF work[p].by = "tool" THEN cons
                     ELSE [cons EXCEPT ![p] = Rested(@, Drains(work[p]),
                             IF work[p].clean THEN "ran" ELSE "partly")]
  /\ Quiet /\ UNCHANGED <<turnVars, left>>

\* The model call throws, or a write: the lock is let go, nothing more is marked.
Throws(p) ==
  /\ Refusal
  /\ work[p].at \in {"extract", "judge", "close", "mark", "weigh"}
  /\ IL!Release(p)
  /\ work' = [work EXCEPT ![p] = NoWork]
  /\ cons' = IF work[p].by = "tool" THEN cons ELSE [cons EXCEPT ![p] = Rested(@, FALSE, "error")]
  /\ written' = Unmarked(p)
  /\ UNCHANGED <<textVars, facts, proposalVars, turnVars, doubled, raised, wedged>>

\* The lock taken and let go between two callbacks.
TakesAndFrees ==
  row' = IL!FreeRow /\ UNCHANGED <<up, holders, late>>

\* sweepDuplicates, under the lock again: of the beliefs that say the same the one
\* recorded last stays.
Sweep(p) ==
  /\ At(p, "sweep")
  /\ IF IL!Held THEN UNCHANGED <<lockVars, facts>>
     ELSE /\ TakesAndFrees
          /\ facts' = [i \in DOMAIN facts |->
               IF i \in Active /\ \E j \in Active : j > i /\ Repeats(j, facts[i].from)
               THEN [facts[i] EXCEPT !.live = "superseded"] ELSE facts[i]]
  /\ work' = [work EXCEPT ![p] = NoWork]
  /\ cons' = [cons EXCEPT ![p] = Rested(@, Drains(work[p]),
       IF IL!Held THEN "busy" ELSE IF work[p].clean THEN "ran" ELSE "partly")]
  /\ UNCHANGED <<textVars, proposalVars, turnVars, history, left>>

\* memory_forget, after its judgement, in one transaction and under the lock: an
\* episode and every belief that has it for its source, or nothing.  A turn asks
\* for what came before it, not for its own message.
Forget(p, e) ==
  /\ spoken[p] \ {e} # {} /\ Awaiting(p) /\ ~cons[p].stopped
  /\ text[e] # "absent" /\ e \notin withdrawn
  /\ Cardinality(withdrawn) < MaxForgets
  /\ ~IL!Held /\ TakesAndFrees
  /\ withdrawn' = withdrawn \cup {e}
  /\ facts' = [i \in DOMAIN facts |->
       IF i \in Active /\ EvidenceOf(facts[i]) = e
       THEN [facts[i] EXCEPT !.live = "retired"] ELSE facts[i]]
  /\ UNCHANGED <<cons, work, text, proposalVars, turnVars, history, left>>

----------------------------------------------------------------------------

Works(p) ==
  \/ Extracted(p) \/ Barren(p) \/ Unreadable(p) \/ Throws(p)
  \/ Closes(p) \/ Mark(p) \/ Look(p) \/ Decide(p) \/ Release(p) \/ Sweep(p)
  \/ \E verdict \in {"supersede", "keep both"} : Judged(p, verdict) \/ Weighed(p, verdict)

Next ==
  \/ Age
  \/ \E p \in Process :
       \/ TimerFires(p) \/ RunNow(p) \/ Close(p) \/ Ends(p) \/ Start(p) \/ Works(p)
       \/ \E e \in Episode : Speak(p, e) \/ Notify(p, e) \/ Forget(p, e)
       \/ \E q \in Proposal, t \in 0 .. 1 : Remember(p, q, t)

Spec == Init /\ [][Next]_vars

\* A timer that is armed fires, and a batch goes on.
Fairness == \A p \in Process : WF_vars(TimerFires(p)) /\ WF_vars(Works(p))

FairSpec == Spec /\ Fairness

----------------------------------------------------------------------------
(* Properties.                                                             *)

Consolidator ==
  [timer : {"off", "idle", "drain"}, since : Nat, again : BOOLEAN, stopped : BOOLEAN,
   last : {"none", "ran", "partly", "budget", "busy", "error"}]

Job ==
  [by : {"batch", "tool"},
   at : {"extract", "judge", "close", "mark", "offer", "decide", "weigh", "end", "sweep"},
   page : SUBSET Episode, offers : SUBSET Proposal, full : BOOLEAN, moved : BOOLEAN,
   more : BOOLEAN, added : BOOLEAN, clean : BOOLEAN, basis : Nat, tier : 0 .. 1]

Fact == [from : Episode \cup Proposal, tier : 0 .. 1, live : {"active", "superseded", "retired"}]

Fates == {"absent", "pending", "accepted", "merged", "rejected"}

TypeOK ==
  /\ IL!TypeOK
  /\ cons \in [Process -> Consolidator]
  /\ work \in [Process -> {NoWork} \cup Job]
  /\ text \in [Episode -> {"absent", "pending", "done"}] /\ withdrawn \subseteq Episode
  /\ facts \in Seq(Fact)
  /\ status \in [Proposal -> Fates]
  /\ tier \in [Proposal -> 0 .. 1]
  /\ spoken \in [Process -> SUBSET Episode] /\ heard \in [Process -> SUBSET Episode]
  /\ {written, doubled} \subseteq SUBSET Episode /\ raised \subseteq Proposal
  /\ wedged \in BOOLEAN
  /\ left \in [faults : Nat, refusals : Nat]

\* When a consolidator has nothing armed and nothing in hand, and its last run was
\* neither refused nor cut short nor left an episode it could not read, no turn it
\* was told of is still to be mined: not the one that ended while a batch ran, nor
\* those behind a full page.
NothingForgotten ==
  \A p \in up :
    /\ ~cons[p].stopped /\ cons[p].timer = "off" /\ ~Running(p)
    /\ cons[p].last \in {"none", "ran"}
    => heard[p] = {}

\* When the turns have ceased the lane comes to rest, even before an episode whose
\* extraction will never succeed: the drain asks for progress and not for work.
LaneRests == \A p \in Hosts : <>[](p \notin up \/ (~Running(p) /\ cons[p].timer = "off"))

\* An episode is marked only once its beliefs are written, and it has them written
\* twice only when a process ended, or a write threw, between the two, or outlived
\* its lock.
MinedOnce ==
  ~wedged => doubled = {} /\ \A e \in Episode : text[e] = "done" => e \in written

\* A proposal and its belief are decided together and once, whoever reconciles it:
\* the tool that staged it, a batch after a crash, or two at a time.
OneBelief ==
  \A q \in Proposal :
    Cardinality({i \in DOMAIN facts : facts[i].from = q}) = IF status[q] = "accepted" THEN 1 ELSE 0

\* A belief is at least as tainted as its proposal was when it was decided, what
\* was learnt during the judgement included, unless another process raised it
\* between the look at the row and the transaction that decides without a judge.
TaintTravels ==
  \A i \in DOMAIN facts :
    facts[i].from \in Proposal \ raised => facts[i].tier = tier[facts[i].from]

\* Both: what a proposal becomes is decided once, and with its taint.
BelievedOnce == OneBelief /\ TaintTravels

\* A proposal is not believed on evidence the owner has had forgotten, unless the
\* one that weighed it had outlived its lock.
ForgottenIsNoEvidence ==
  \A i \in Active : facts[i].from \in Proposal /\ EvidenceOf(facts[i]) \in withdrawn => wedged

\* ingest.ts on retireBeliefs: "Evidence stays; normal recall stops using it": what
\* the owner has had forgotten is not among the beliefs again.
ForgottenStaysForgotten == \A i \in Active : EvidenceOf(facts[i]) \notin withdrawn
=============================================================================
