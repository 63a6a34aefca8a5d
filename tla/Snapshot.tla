------------------------------ MODULE Snapshot ------------------------------
(***************************************************************************)
(* What a turn knows of its permissions while it runs (makeSnapshot in     *)
(* agent/loop/permissions.ts): its taint, the addresses that came in from  *)
(* the owner's words or from the open web, and the memo of the verdicts    *)
(* already given, kept while other turns and processes spend the same      *)
(* money (core/budget) that the kernel looks at.  (Names that Commitments  *)
(* has too begin with Snap: Commitments_proofs extends both.)              *)
(***************************************************************************)
EXTENDS Policy

CONSTANTS
  Catalog,     \* the declarations of the runtime, doors included
  Call,        \* the calls the model may make: a declaration and a resource
  Reply,       \* the declaration of the reply door
  File,        \* the sealed files the runtime may have been booted on
  Turn,        \* kind, home and tenant of the turns considered
  MonthlyCap, DailyCap

\* The zod schema of the file, the types of the declarations and of the principal.
ASSUME FileAssumption == File \subseteq SealedFile
ASSUME DeclAssumption == Catalog \subseteq CapabilityDecl /\ Reply \in Catalog
ASSUME CallAssumption == Call \subseteq Catalog \X Resource
ASSUME TurnAssumption ==
  Turn \subseteq [kind : PrincipalKind, home : Room \cup {Host}, tenant : Room \cup {Host}]
ASSUME CapAssumption == MonthlyCap \in Nat /\ DailyCap \in Nat

VARIABLES
  file, safe,  \* fixed at boot
  turn,        \* fixed at the start of the turn
  stage,       \* "opening", "rounds"
  taint,
  cited,       \* the resources whose bytes came in from a quotable source
  cache,       \* [key -> Verdict]
  handler,     \* the call whose handler is running, or none
  purse,       \* spent this month, and by this tenant today
  moved        \* history: the purse ran out, or was refilled, behind the memo

snapVars == <<file, safe, turn, stage, taint, cited, cache, handler, purse, moved>>

NoCall == <<>>

Purse == [month : 0..MonthlyCap, today : 0..DailyCap]

\* exhausted() and tenantExhausted(): the daily cap is not the owner's.
Exhausted(p) == p.month >= MonthlyCap \/ (turn.tenant # Host /\ p.today >= DailyCap)

Quoted(resource) == resource \in cited

\* What check() puts to the kernel for a declaration and a resource.
Asks(d, resource) ==
  [kind |-> turn.kind, home |-> turn.home, tenant |-> turn.tenant,
   decl |-> d, resource |-> resource, taint |-> taint, quoted |-> Quoted(resource)]

Ctx == [matrix |-> Load(file), safe |-> safe, exhausted |-> Exhausted(purse),
        declared |-> Catalog]

\* Fault: the provenance is not in the key.
Fault_KeyUnquoted(c) == <<c[1], c[2], taint>>

Key(c) == <<c[1], c[2], taint, Quoted(c[2])>>

Answer(c) ==
  IF Key(c) \in DOMAIN cache THEN cache[Key(c)] ELSE Decide(Ctx, Asks(c[1], c[2]))

\* check(): the memo, or the kernel and then the memo.
Check(calls) ==
  cache' = [k \in DOMAIN cache \cup {Key(c) : c \in calls} |->
              IF k \in DOMAIN cache THEN cache[k] ELSE Answer(<<k[1], k[2]>>)]

Forget == cache' = <<>> /\ moved' = FALSE

TierOf(kind) == IF kind = "member" THEN 2 ELSE 0

\* The owner's words may hold any of the addresses; an outside event none.
SnapInit ==
  /\ file \in File /\ safe \in BOOLEAN /\ turn \in Turn
  /\ stage = "opening"
  /\ taint \in TierOf(turn.kind)..3
  /\ cited \in SUBSET {c[2] : c \in {c \in Call : c[2].composed}}
  /\ cache = <<>> /\ handler = NoCall
  /\ purse = [month |-> 0, today |-> 0]
  /\ moved = FALSE

----------------------------------------------------------------------------

\* The tools shown to an autonomous turn are those the kernel does not refuse
\* it outright, asked about with no resource.
Probe ==
  /\ stage = "opening" /\ turn.kind = "system"
  /\ Check({<<d, NoResource>> : d \in Catalog})
  /\ UNCHANGED <<file, safe, turn, stage, taint, cited, handler, purse, moved>>

\* raiseTaint and raiseCeiling: recalled memory, the conversation read again.
Raise(t) ==
  /\ taint' = IF t > taint THEN t ELSE taint
  /\ IF t > taint THEN Forget ELSE UNCHANGED <<cache, moved>>

Remember(t) ==
  /\ stage = "opening"
  /\ Raise(t)
  /\ UNCHANGED <<file, safe, turn, stage, cited, handler, purse>>

\* Before each call of the model: may what it says reach the channel?
Door ==
  /\ handler = NoCall
  /\ Check({<<Reply, NoResource>>})
  /\ UNCHANGED <<file, safe, turn, stage, taint, cited, handler, purse, moved>>

Up(n, cap) == IF n < cap THEN n + 1 ELSE n

\* Fault: the turn's own spending leaves the memo as it is.
Fault_Remembered == UNCHANGED cache /\ moved' = FALSE

\* snapshot.invalidate(), once the call has been billed.
Billed == Forget

\* A call of the model, billed to the tenant and to the month.
ModelCall ==
  /\ handler = NoCall
  /\ ~Exhausted(purse)
  /\ stage' = "rounds"
  /\ purse' = [month |-> Up(purse.month, MonthlyCap), today |-> Up(purse.today, DailyCap)]
  /\ Billed
  /\ UNCHANGED <<file, safe, turn, taint, cited, handler>>

\* runTool: refused, or its handler starts (an ask once it is answered).
ToolCall(c) ==
  /\ stage = "rounds" /\ handler = NoCall
  /\ Check({c})
  /\ handler' = IF Answer(c) \in DenyCode THEN NoCall ELSE c
  /\ UNCHANGED <<file, safe, turn, stage, taint, cited, purse, moved>>

\* QUOTABLE_TOOL_CAPABILITIES.
Quotable(d) == d.id \in {<<"sys", "http">>, <<"sys", "search">>}

\* recordInput: what came in, if whoever brought it can vouch for it.
Recorded(d, resource) == IF Quotable(d) THEN cited \cup {resource} ELSE cited

\* The result raises the taint to its tier, then enters; an error raises it only.
ToolResult(t, resource) ==
  /\ handler # NoCall
  /\ Raise(t)
  /\ cited' \in {cited, Recorded(handler[1], resource)}
  /\ handler' = NoCall
  /\ UNCHANGED <<file, safe, turn, stage, purse>>

\* The rows that other turns, the light lane and other processes write.
SpentElsewhere(here) ==
  /\ purse' = [month |-> Up(purse.month, MonthlyCap),
               today |-> IF here THEN Up(purse.today, DailyCap) ELSE purse.today]
  /\ moved' = (moved \/ Exhausted(purse') # Exhausted(purse))
  /\ UNCHANGED <<file, safe, turn, stage, taint, cited, cache, handler>>

\* A new day, and sometimes a new month.
Midnight(month) ==
  /\ purse' = [month |-> month, today |-> 0]
  /\ moved' = (moved \/ Exhausted(purse') # Exhausted(purse))
  /\ UNCHANGED <<file, safe, turn, stage, taint, cited, cache, handler>>

SnapNext ==
  \/ Probe
  \/ \E t \in Tier : Remember(t)
  \/ Door \/ ModelCall
  \/ \E c \in Call : ToolCall(c)
  \/ \E t \in Tier, c \in Call : c[2].composed /\ ToolResult(t, c[2])
  \/ \E here \in BOOLEAN : SpentElsewhere(here)
  \/ \E month \in {0, purse.month} : Midnight(month)

SnapSpec == SnapInit /\ [][SnapNext]_snapVars

----------------------------------------------------------------------------
(* Properties.                                                             *)

TypeOK ==
  /\ file \in File /\ safe \in BOOLEAN /\ turn \in Turn
  /\ stage \in {"opening", "rounds"}
  /\ taint \in Tier
  /\ cited \in SUBSET {c[2] : c \in Call}
  /\ \A k \in DOMAIN cache : cache[k] \in Verdict
  /\ handler \in Call \cup {NoCall}
  /\ purse \in Purse
  /\ moved \in BOOLEAN

\* What check() would answer from its memo is what the kernel would answer now:
\* a decision taken at a lower taint, before an address was quoted or before this
\* turn's own spending reached the cap does not survive.  Money that others spend
\* between two calls of the model is the exception.
CachedIsCurrent ==
  ~moved => \A c \in Call \cup {<<Reply, NoResource>>} :
              Answer(c) = Decide(Ctx, Asks(c[1], c[2]))

Reachable == {c[2] : c \in Call} \cup {NoResource}

Requests == {Asks(d, resource) : d \in Catalog, resource \in Reachable}

OnTheFloor == [Ctx EXCEPT !.matrix = Floor]

\* Above a ceiling, what leaves the tenant is asked of the owner before any later
\* gate, the empty purse included, could refuse it.
AskedAbove(m, r) == ByOwner(r) /\ Leaves(r) /\ r.taint > Ceiling(m, r)

\* Whatever the sealed file says, no act gets an easier verdict than with no file
\* at all, but for the capability a room was given by name and for the owner's
\* own question above a ceiling that the file has lowered.
OnlyTightens ==
  \A r \in Requests :
    \/ Strictness(Decide(Ctx, r)) >= Strictness(Decide(OnTheFloor, r))
    \/ r.kind = "member" /\ GrantedTo(Load(file), r.tenant, r.decl.id)
    \/ AskedAbove(Load(file), r)

\* A member of a room reaches a capability of the host only if the file names that
\* room and that capability, one by one, and the closed list does not hold it.
RoomsAreClosed ==
  \A r \in Requests :
    (r.kind = "member" /\ r.decl.hostOnly /\ Decide(Ctx, r) \notin DenyCode) =>
      /\ r.tenant \in file.named /\ r.decl.id \in file.grants[r.tenant]
      /\ ~Covers(ClosedToRooms, r.decl.id)

\* A turn that climbs a tier gets no easier verdict for the same act, but for the
\* owner's own question above the ceiling.
TaintOnlyTightens ==
  \A r \in Requests :
    r.taint < 3 =>
      LET after == [r EXCEPT !.taint = @ + 1]
      IN  \/ Strictness(Decide(Ctx, after)) >= Strictness(Decide(Ctx, r))
          \/ AskedAbove(Load(file), after)
=============================================================================
