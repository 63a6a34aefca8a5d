------------------------------- MODULE Policy -------------------------------
(***************************************************************************)
(* The policy kernel (core/policy): the permission matrix, the sealed file *)
(* that may tighten it and open single capabilities to single rooms, and   *)
(* decide(), which every act of a turn passes through.  All of it is pure; *)
(* what changes from one question to the next, the taint of the turn, the  *)
(* quoted addresses, the money spent and the memo of past answers, is in   *)
(* the module Snapshot.                                                    *)
(*                                                                         *)
(* A capability id is the sequence of its dotted segments.  A resource is  *)
(* its kind and what decide reads off its value: whether the host is on    *)
(* the egress allowlist, off it or unreadable, and whether the address     *)
(* carries bytes beyond the host.                                          *)
(***************************************************************************)
EXTENDS Integers, Sequences

CONSTANTS
  Room,       \* the group: and community: tenants
  Elsewhere   \* keys of the file's `tenants` that name no single room

Host == "host"

Tier == 0..3
Risk == {"low", "medium", "high"}
Reversibility == {"yes", "undoable", "no"}
Kind == {"path", "url", "url-read", "query", "tenant", "none"}
Site == {"listed", "away", "broken"}

EffectRow == {"context", "host", "reply", "egress", "memory", "vault",
              "external", "outward", "config", "rot"}

Resource == [kind : Kind, site : Site, composed : BOOLEAN]
NoResource == [kind |-> "none", site |-> "listed", composed |-> FALSE]

CapabilityId == Seq(STRING)

\* The ceiling is 3 where the declaration states no maxTaint.
CapabilityDecl ==
  [id : CapabilityId, effect : EffectRow, risk : Risk, reversible : Reversibility,
   kind : Kind, ceiling : Tier, hostOnly : BOOLEAN]

(***************************************************************************)
(* Deny lists and grants.                                                  *)
(***************************************************************************)

\* denyListCovers: the id itself, or `prefix.*` for a prefix of its segments.
Covers(list, id) ==
  \/ id \in list
  \/ \E i \in 1..(Len(id) - 1) : SubSeq(id, 1, i) \o <<"*">> \in list

\* MAI_CONCEDIBILI.
ClosedToRooms ==
  {<<"sys", "effects">>, <<"sys", "shell">>, <<"sys", "shell", "*">>,
   <<"sys", "process", "*">>, <<"fs", "*">>, <<"rot", "*">>,
   <<"outward", "*">>, <<"config", "*">>, <<"surface", "send_file">>,
   <<"skill", "read">>, <<"sys", "inspect">>, <<"jobs", "schedule">>}

\* nonConcedibile, the other way round: a family is never granted.
Grantable(id) == (\A i \in DOMAIN id : id[i] # "*") /\ ~Covers(ClosedToRooms, id)

(***************************************************************************)
(* The matrix.  A field that the file leaves out is written here as the    *)
(* value that tightens nothing; defaultMaxTaint, which nothing reads, is   *)
(* left out.                                                               *)
(***************************************************************************)

RowPolicy == [asks : BOOLEAN, denyAbove : -1..3]

SealedFile ==
  [readable : BOOLEAN,
   rows : [EffectRow -> RowPolicy],
   params : Tier, search : Tier,
   never : SUBSET CapabilityId, forbidden : SUBSET CapabilityId,
   grants : [Room \cup Elsewhere -> SUBSET CapabilityId],
   named : SUBSET (Room \cup Elsewhere)]

RowFloor ==
  [e \in EffectRow |->
     [asks |-> e \in {"host", "external", "outward", "config", "rot"},
      denyAbove |-> IF e = "rot" THEN -1
                    ELSE IF e \in {"external", "outward", "config"} THEN 1 ELSE 3]]

Matrix ==
  [rows : [EffectRow -> RowPolicy], params : Tier, search : Tier,
   never : SUBSET CapabilityId, forbidden : SUBSET CapabilityId,
   grants : [Room -> SUBSET CapabilityId]]

\* POLICY_FLOOR.
Floor ==
  [rows |-> RowFloor, params |-> 1, search |-> 3,
   never |-> {<<"rot", "write">>, <<"rot", "*">>},
   forbidden |-> {<<"outward", "send">>, <<"outward", "*">>, <<"config", "ratchet">>,
                  <<"jobs", "schedule">>, <<"events", "trigger", "create">>,
                  <<"events", "trigger", "manage">>},
   grants |-> [t \in Room |-> {}]]

\* The refinement on `tenants`: rooms by name, and nothing from the closed list.
\* One entry that fails it makes the whole file fall back.
Acceptable(f) ==
  \A t \in f.named : t \in Room /\ \A c \in f.grants[t] : Grantable(c)

\* Fault: the file's word is taken as it stands.
Fault_Widened(said, floor) == said

Tighter(said, floor) == IF said < floor THEN said ELSE floor

TighterRows(rows) ==
  [e \in EffectRow |->
     [asks |-> rows[e].asks \/ RowFloor[e].asks,
      denyAbove |-> Tighter(rows[e].denyAbove, RowFloor[e].denyAbove)]]

Merged(f) ==
  [rows |-> TighterRows(f.rows),
   params |-> Tighter(f.params, Floor.params),
   search |-> Tighter(f.search, Floor.search),
   never |-> Floor.never \cup f.never,
   forbidden |-> Floor.forbidden \cup f.forbidden,
   grants |-> [t \in Room |-> IF t \in f.named THEN f.grants[t] ELSE {}]]

\* Fault: what is wrong with the grants is not looked at.
Fault_AnyGrant(f) == IF f.readable THEN Merged(f) ELSE Floor

\* loadPolicyMatrix.
Load(f) == IF f.readable /\ Acceptable(f) THEN Merged(f) ELSE Floor

(***************************************************************************)
(* The kernel.  A context is what createDecide is given, a request what    *)
(* check() asks; both doors are among the declarations.                    *)
(***************************************************************************)

PrincipalKind == {"owner", "member", "system", "agent"}

Context == [matrix : Matrix, safe : BOOLEAN, exhausted : BOOLEAN,
            declared : SUBSET CapabilityDecl]

Request == [kind : PrincipalKind, home : Room \cup {Host}, tenant : Room \cup {Host},
            decl : CapabilityDecl, resource : Resource, taint : Tier, quoted : BOOLEAN]

DenyCode == {"no_capability", "taint_exceeded", "tenant_mismatch", "budget_exhausted",
             "rot_violation", "safe_mode", "resource_denied", "principal_forbidden"}

\* A verdict is allow, draft, ask, or the code of the refusal.
Verdict == DenyCode \cup {"allow", "draft", "ask"}

\* 'allow' < 'draft' < 'ask' < any refusal.
Strictness(v) ==
  IF v \in DenyCode THEN 3 ELSE IF v = "ask" THEN 2 ELSE IF v = "draft" THEN 1 ELSE 0

ByOwner(r) == r.kind = "owner"

\* A system principal acts within the tenant it was armed for.
Misplaced(r) ==
  \/ r.kind = "member" /\ r.tenant # r.home
  \/ r.kind \in {"owner", "agent"} /\ r.tenant # Host

\* Fault: the owner's word for one room opens them all.
Fault_GrantedSomewhere(m, tenant, id) ==
  tenant \in Room /\ \E t \in Room : id \in m.grants[t]

GrantedTo(m, tenant, id) == tenant \in Room /\ id \in m.grants[tenant]

NotForRooms(m, r) ==
  r.decl.hostOnly /\ r.kind = "member" /\ ~GrantedTo(m, r.tenant, r.decl.id)

Ceiling(m, r) == Tighter(m.rows[r.decl.effect].denyAbove, r.decl.ceiling)

\* What leaves the tenant is the owner's to decide, even above the ceiling.
Leaves(r) == r.decl.effect \in {"external", "outward"}

Addressed(r) == r.decl.kind \in {"url", "url-read"}

\* A request whose resource is not of the declared kind would skip the gate.
Unreadable(r) ==
  \/ r.decl.kind \in {"url", "url-read", "query"} /\ r.resource.kind # r.decl.kind
  \/ Addressed(r) /\ r.resource.site = "broken"

OffTheList(r) == r.decl.kind = "url" /\ r.resource.site = "away"

\* Fault: the owner is asked at the first tier above the threshold only.
Fault_ComposedAtTheEdge(m, r) ==
  \/ /\ Addressed(r) /\ r.resource.composed /\ ~r.quoted
     /\ ByOwner(r) => r.taint = m.params + 1
  \/ /\ r.decl.kind = "query"
     /\ ByOwner(r) => r.taint = m.search + 1

\* gateParams: the bytes are the model's own, and not the owner's to let pass.
Composed(m, r) ==
  \/ /\ Addressed(r) /\ r.resource.composed /\ ~r.quoted
     /\ ByOwner(r) => r.taint > m.params
  \/ /\ r.decl.kind = "query"
     /\ ByOwner(r) => r.taint > m.search

Queued(r) == r.kind \in {"system", "agent"} /\ r.decl.risk = "high"

Irreversible(m, r) == r.decl.reversible = "no" /\ m.rows[r.decl.effect].asks

AskOwner(r, otherwise) == IF ByOwner(r) THEN "ask" ELSE otherwise

\* decide: the first gate that closes answers.
Decide(c, r) ==
  LET m == c.matrix
  IN  IF r.decl \notin c.declared THEN "no_capability"
      ELSE IF c.safe /\ r.decl.risk # "low" THEN "safe_mode"
      ELSE IF Covers(m.never, r.decl.id) THEN "rot_violation"
      ELSE IF Misplaced(r) THEN "tenant_mismatch"
      ELSE IF NotForRooms(m, r) THEN "principal_forbidden"
      ELSE IF r.kind = "system" /\ Covers(m.forbidden, r.decl.id) THEN "principal_forbidden"
      ELSE IF r.taint > Ceiling(m, r)
        THEN IF Leaves(r) THEN AskOwner(r, "taint_exceeded") ELSE "taint_exceeded"
      ELSE IF r.decl.risk # "low" /\ c.exhausted THEN "budget_exhausted"
      ELSE IF Unreadable(r) THEN "resource_denied"
      ELSE IF OffTheList(r)
        THEN IF r.taint <= 1 THEN AskOwner(r, "resource_denied") ELSE "resource_denied"
      ELSE IF Composed(m, r) THEN AskOwner(r, "resource_denied")
      ELSE IF Queued(r) \/ Irreversible(m, r) THEN "ask"
      ELSE IF r.decl.reversible = "undoable" /\ r.decl.risk # "low" THEN "draft"
      ELSE "allow"
=============================================================================
