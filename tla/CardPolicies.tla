----------------------------- MODULE CardPolicies -----------------------------
(***************************************************************************)
(* The card policy table (components/card-policies.tsx; guards and patches *)
(* in lib/tokens.ts) over the rows the gateway stores. The table is drawn  *)
(* from rows the page was served with. A confirmed edit is sent as a whole *)
(* row: the edited field, and the others as the page last saw them.        *)
(***************************************************************************)
EXTENDS ConsolePage

CONSTANTS
  Cards,               \* ICCIDs the fleet has reported
  NoRow,               \* a card without a policy
  MaxPolicyEdits       \* bound: edits confirmed here or elsewhere

Verticals == {"cn", "intl"}
Declarations == {"undeclared", "yes", "no"}
PolicyRows == [cellular : BOOLEAN, vertical : Verticals, capability : Declarations]

ASSUME PolicyAssumption == MaxPolicyEdits \in Nat /\ NoRow \notin PolicyRows

VARIABLES
  policies,            \* gateway: the stored row of each card
  seen,                \* props: the rows the page was served with
  proposed,            \* useState pending: the edit the dialog asks about
  policyBusy,          \* useState busy
  put,                 \* the PUT or DELETE on its way
  reload,              \* whether a router.refresh is on its way
  edits                \* edits confirmed so far

policyVars == <<policies, seen, proposed, policyBusy, put, reload, edits>>

Edit(kind, value) == [kind |-> kind, value |-> value]
NoEdit == Edit("none", "")

-----------------------------------------------------------------------------
\* The edits the controls of a row offer; a card without a row can be added.
CardEdits(row) ==
  IF row = NoRow THEN {Edit("add", "")}
  ELSE {Edit("cellular", ~row.cellular), Edit("remove", "")}
         \cup {Edit("vertical", v) : v \in Verticals \ {row.vertical}}
         \cup {Edit("capability", d) : d \in Declarations \ {row.capability}}

\* Which dialog an edit goes through; every one of them does.
cardPolicyGuardFor(edit) ==
  CASE edit.kind = "cellular" -> IF edit.value THEN "cellularOn" ELSE "cellularOff"
    [] edit.kind = "capability" ->
         (CASE edit.value = "no" -> "capabilityOff" [] edit.value = "yes" -> "capabilityOn"
            [] OTHER -> "capabilityClear")
    [] OTHER -> edit.kind

\* The fields an edit sets.
cardPolicyPatch(edit) ==
  CASE edit.kind = "add" -> [cellular |-> TRUE, vertical |-> "cn"]
    [] OTHER -> [f \in {edit.kind} |-> edit.value]

\* Slip: a cleared declaration counts as a field the edit does not set.
DeclaredNullish(patch, existing, field, otherwise) ==
  IF field \in DOMAIN patch /\ (field = "capability" => patch[field] # "undeclared") THEN patch[field]
  ELSE IF existing # NoRow THEN existing[field] ELSE otherwise

\* A field of the body: the edit's, or the row's, or what a new row starts with.
declared(patch, existing, field, otherwise) ==
  IF field \in DOMAIN patch THEN patch[field]
  ELSE IF existing # NoRow THEN existing[field] ELSE otherwise

SaveBody(edit, existing) ==
  LET patch == cardPolicyPatch(edit) IN
  [cellular |-> declared(patch, existing, "cellular", TRUE),
   vertical |-> declared(patch, existing, "vertical", "cn"),
   capability |-> declared(patch, existing, "capability", "undeclared")]

-----------------------------------------------------------------------------
Propose(c, edit) ==
  /\ ~policyBusy /\ proposed = NoEdit /\ edits < MaxPolicyEdits
  /\ edit \in CardEdits(seen[c])
  /\ proposed' = [kind |-> edit.kind, value |-> edit.value, card |-> c]
  /\ UNCHANGED <<policies, seen, policyBusy, put, reload, edits>> /\ ConnectionHolds

DismissProposal ==
  /\ proposed # NoEdit
  /\ proposed' = NoEdit
  /\ UNCHANGED <<policies, seen, policyBusy, put, reload, edits>> /\ ConnectionHolds

\* The dialog's confirmation: save, or removePolicy. The rest of the row is
\* read from the rows on the page at this moment.
ConfirmProposal ==
  /\ proposed # NoEdit
  /\ LET edit == Edit(proposed.kind, proposed.value)
         row == seen[proposed.card]
     IN put' = {[card |-> proposed.card, guard |-> cardPolicyGuardFor(edit),
                 body |-> IF edit.kind = "remove" THEN NoRow ELSE SaveBody(edit, row),
                 edit |-> edit, from |-> row]}
  /\ proposed' = NoEdit /\ policyBusy' = TRUE /\ edits' = edits + 1
  /\ UNCHANGED <<policies, seen, reload>> /\ ConnectionHolds

\* The gateway replaces the row. Removing one that is not there is accepted too.
StorePolicy(q) == policies' = [policies EXCEPT ![q.card] = q.body]

PolicyAnswered ==
  \E q \in put :
    /\ \/ StorePolicy(q) /\ reload' = TRUE
       \/ UNCHANGED <<policies, reload>>            \* refused
    /\ put' = {} /\ policyBusy' = FALSE
    /\ UNCHANGED <<seen, proposed, edits>> /\ ConnectionHolds

\* fetch rejects, before or after the row was stored; busy stays set.
PolicyBroken ==
  \E q \in put :
    /\ StorePolicy(q) \/ UNCHANGED policies
    /\ put' = {}
    /\ UNCHANGED <<seen, proposed, policyBusy, reload, edits>> /\ ConnectionBreaks

\* The refreshed rows arrive. The page goes on with the old ones until then.
PolicyRefreshed ==
  /\ reload
  /\ seen' = policies /\ reload' = FALSE
  /\ UNCHANGED <<policies, proposed, policyBusy, put, edits>> /\ ConnectionHolds

\* Another operator, who sees the stored row, confirms an edit of it.
PolicyElsewhere(c, edit) ==
  /\ edits < MaxPolicyEdits /\ edit \in CardEdits(policies[c])
  /\ policies' = [policies EXCEPT ![c] =
       IF edit.kind = "remove" THEN NoRow ELSE SaveBody(edit, policies[c])]
  /\ edits' = edits + 1
  /\ UNCHANGED <<seen, proposed, policyBusy, put, reload>> /\ ConnectionHolds

-----------------------------------------------------------------------------
\* A card whose data somebody has blocked, and one without a policy.
PolicyInit ==
  /\ policies \in [Cards -> {NoRow, [cellular |-> FALSE, vertical |-> "cn", capability |-> "undeclared"],
                             [cellular |-> TRUE, vertical |-> "cn", capability |-> "no"]}]
  /\ seen = policies
  /\ proposed = NoEdit /\ policyBusy = FALSE /\ put = {} /\ reload = FALSE
  /\ edits = 0

AnyEdit == {Edit("add", ""), Edit("remove", "")}
  \cup {Edit("cellular", b) : b \in BOOLEAN}
  \cup {Edit("vertical", v) : v \in Verticals}
  \cup {Edit("capability", d) : d \in Declarations}

PolicyNext ==
  \/ \E c \in Cards, edit \in AnyEdit : Propose(c, edit) \/ PolicyElsewhere(c, edit)
  \/ DismissProposal \/ ConfirmProposal
  \/ PolicyAnswered \/ PolicyBroken \/ PolicyRefreshed

-----------------------------------------------------------------------------
(* Properties.                                                               *)

\* What is sent is what the dialog asked, although the page may be redrawn
\* under it; and when the page shows the stored row, the request changes the
\* field asked about and nothing else, clearing a declaration included
\* (cardPolicyGuardFor, cardPolicyPatch, `declared` and the body of save).
SavedIsTheEdit ==
  \A q \in put :
    /\ q.guard = "remove" <=> q.body = NoRow
    /\ q.guard \in {"cellularOn", "cellularOff"} => (q.guard = "cellularOn" <=> q.body.cellular)
    /\ q.edit.kind \in {"cellular", "vertical", "capability"} /\ q.from = policies[q.card] /\ q.from # NoRow
         => q.body = [policies[q.card] EXCEPT ![q.edit.kind] = q.edit.value]
=============================================================================
