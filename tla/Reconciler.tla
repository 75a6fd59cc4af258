----------------------------- MODULE Reconciler -----------------------------
(***************************************************************************)
(* gateway-policy apply (planner.py): a run loads the policy file, plans   *)
(* against the live account and workspaces, and carries out its plan one   *)
(* API call at a time.  Runs may die anywhere, be repeated, see the policy *)
(* edited meanwhile, and overlap.                                          *)
(*                                                                         *)
(* What a budget says is one value (thresholds, workspaces, name shown,    *)
(* the tags of the policy).  Of the tags the code adds, those of the owner *)
(* are the field "owner"; the two that stay in a live budget's tags when   *)
(* it is compared with the policy are the field "labels".                  *)
(*                                                                         *)
(* Nothing checks that the names in a policy differ.  The planner goes     *)
(* through the lists, the applier looks the names up in dictionaries that  *)
(* keep the last entry of each: a budget listed twice is created twice, a  *)
(* rate limit whose name is listed again further down is never applied.    *)
(***************************************************************************)
EXTENDS Integers, SequencesExt

CONSTANTS
  Runs,        \* concurrent runs of apply
  Names,       \* names of budgets and rate limits in the policy
  Endpoints,   \* serving endpoints
  Contents,    \* what budgets say
  Limits,      \* lists of rate limits
  Policies,    \* the versions of the policy file
  NumIds,      \* bound: budgets ever created, with those of InitialBudgets
  InitialBudgets, InitialEndpoints,
  NoLimits,    \* an endpoint without rate limits
  Bundle,      \* bundle.metadata.name
  Stranger,    \* any other owner, or none
  MaxRuns      \* bound: runs started

Ids        == 1..NumIds
Fallbacks  == {"on", "off", "unset"}
Labels     == {"policy_name", "resource_type"}
Unnamed    == "unnamed"

Budget   == [state : {"never", "live", "deleted"}, name : Names \cup {Unnamed}, owner : {Bundle, Stranger},
             content : Contents, labels : SUBSET Labels]
Endpoint == [limits : Limits \cup {NoLimits}, fallback : Fallbacks, owner : {Bundle, Stranger}]

\* The entries of one version of the file, in its order.
BudgetEntry == [name : Names, content : Contents]
LimitEntry  == [name : Names, endpoint : Endpoints, limits : Limits, fallback : Fallbacks]

IsPolicy(p) == p.budgets \in Seq(BudgetEntry) /\ p.rateLimits \in Seq(LimitEntry)

ASSUME ReconcilerConstants ==
  /\ NumIds \in Nat /\ MaxRuns \in Nat /\ Bundle # Stranger
  /\ NoLimits \notin Limits /\ Unnamed \notin Names
  /\ InitialBudgets \in [Ids -> Budget]
  /\ InitialEndpoints \subseteq Endpoint
  /\ \A p \in Policies : IsPolicy(p)

VARIABLES
  policy,     \* the policy file
  budgets,    \* the account's budgets, by budget_configuration_id
  endpoint,   \* the AI Gateway configuration of each endpoint
  run,        \* the runs of apply
  started,
  alone       \* history: no two runs have overlapped so far

reconcilerVars == <<policy, budgets, endpoint, run, started, alone>>

\* A planned action.  Only updates and deletes carry the id of a budget.
Action == [kind : {"noop", "create", "limits"}, name : Names, id : {0}]
            \cup [kind : {"update", "delete"}, name : Names, id : Ids]

Act(kind, name, id) == [kind |-> kind, name |-> name, id |-> id]

\* The entries of a name, and budget_lookup and rate_lookup of the applier.
Entries(list, name) == {k \in DOMAIN list : list[k].name = name}

LastEntry(list, name) == list[CHOOSE k \in Entries(list, name) : \A j \in Entries(list, name) : j <= k]

NamesIn(list) == {list[k].name : k \in DOMAIN list}

ReconcilerInit ==
  /\ policy \in Policies
  /\ budgets = InitialBudgets
  /\ endpoint \in [Endpoints -> InitialEndpoints]
  /\ run = [r \in Runs |->
       [pc |-> "idle", policy |-> policy, prune |-> FALSE, plan |-> <<>>, next |-> 1]]
  /\ started = 0 /\ alone = TRUE

-----------------------------------------------------------------------------
(* Planner *)

\* Defect: _is_managed looks at the label of the tool only, not at the bundle.
LabelledOnly(i) == budgets[i].state = "live"

\* The budgets list_managed returns.
Managed(i) == budgets[i].state = "live" /\ budgets[i].owner = Bundle

Found(name) == {i \in Ids : Managed(i) /\ budgets[i].name = name}

\* find_budget_by_policy_name: the first listed.  The account is taken to list
\* budgets in the order they were made.
First(name) == CHOOSE i \in Found(name) : \A j \in Found(name) : i <= j

\* budgets_equal of the canonical forms.  canonical_budget_from_api takes the
\* ownership out of the tags of the live budget and leaves the labels in.
BudgetsEqual(content, b) == b.content = content /\ b.labels = {}

\* Defect: an update is planned without the id of its budget.
PlanWithoutId(entry) == Act(IF Found(entry.name) = {} THEN "create" ELSE "update", entry.name, 0)

\* Defect: a changed budget is planned as a new one.
PlanAnew(entry) ==
  Act(IF \E i \in Found(entry.name) : BudgetsEqual(entry.content, budgets[i])
      THEN "noop" ELSE "create", entry.name, 0)

\* The plan for one entry of the policy's budgets.
PlanBudget(entry) ==
  IF Found(entry.name) = {} THEN Act("create", entry.name, 0)
  ELSE IF BudgetsEqual(entry.content, budgets[First(entry.name)]) THEN Act("noop", entry.name, 0)
  ELSE Act("update", entry.name, First(entry.name))

\* Defect: budgets the policy still names are pruned too.
PrunableAll(p) == {i \in Ids : Managed(i) /\ budgets[i].name # Unnamed}

Prunable(p) ==
  {i \in Ids : Managed(i) /\ budgets[i].name # Unnamed /\ budgets[i].name \notin NamesIn(p.budgets)}

\* The budgets of the policy first, then the deletes, in the order of the
\* listing, here any.
PlanBudgets(p, prune) ==
  [k \in DOMAIN p.budgets |-> PlanBudget(p.budgets[k])]
    \o SetToSeq({Act("delete", budgets[i].name, i) : i \in IF prune THEN Prunable(p) ELSE {}})

\* Defect: the fallback is not among the keys compared.
FallbackIgnored(desired, e) == desired.limits = e.limits

RateLimitsEqual(desired, e) == desired.limits = e.limits /\ desired.fallback = e.fallback

\* Endpoints whose lookup fails count as changed.  With prune the endpoints
\* that _list_managed_endpoints returns would be added: it returns none.
PlanRateLimits(p, failed) == [k \in DOMAIN p.rateLimits |->
  LET desired == p.rateLimits[k]
  IN  Act(IF desired.endpoint \notin failed /\ RateLimitsEqual(desired, endpoint[desired.endpoint])
          THEN "noop" ELSE "limits", desired.name, 0)]

Plan(p, prune, failed) == PlanBudgets(p, prune) \o PlanRateLimits(p, failed)

\* apply loads the file and plans.  Planning reads each resource once and
\* changes nothing; what it read is stale by the time it is acted on.  Of the
\* runs that have ended only the outcome of the last one is kept.
StartRun(r) ==
  /\ run[r].pc \in {"idle", "done", "failed"} /\ started < MaxRuns
  /\ started' = started + 1
  /\ alone' = (alone /\ \A q \in Runs : run[q].pc # "apply")
  /\ \E prune \in BOOLEAN, failed \in SUBSET Endpoints :
       run' = [q \in Runs |->
         IF q = r THEN [pc |-> "apply", policy |-> policy, prune |-> prune,
                        plan |-> Plan(policy, prune, failed), next |-> 1]
         ELSE [run[q] EXCEPT !.pc = IF @ = "apply" THEN @ ELSE "idle"]]
  /\ UNCHANGED <<policy, budgets, endpoint>>

-----------------------------------------------------------------------------
(* Applier *)

Current(r) == run[r].plan[run[r].next]

Step(r, kinds) ==
  /\ run[r].pc = "apply" /\ run[r].next <= Len(run[r].plan) /\ Current(r).kind \in kinds

Continue(r) == run' = [run EXCEPT ![r].next = @ + 1]

Abort(r) == run' = [run EXCEPT ![r].pc = "failed", ![r].plan = <<>>, ![r].next = 1]

Skip(r) ==
  /\ Step(r, {"noop"})
  /\ Continue(r)
  /\ UNCHANGED <<policy, budgets, endpoint, started, alone>>

\* Defect: the tag with the name in the policy is missing.
PayloadUnnamed(r, name) ==
  [state |-> "live", name |-> Unnamed, owner |-> Bundle,
   content |-> LastEntry(run[r].policy.budgets, name).content, labels |-> Labels]

\* budget_to_api_payload, with_policy_name_tag and ensure_resource_type_tag.
Payload(r, name) ==
  [state |-> "live", name |-> name, owner |-> Bundle,
   content |-> LastEntry(run[r].policy.budgets, name).content, labels |-> Labels]

\* POST: the account picks the id.  The response may be lost.
CreateBudget(r) ==
  /\ Step(r, {"create"})
  /\ \E i \in Ids :
       /\ \A j \in Ids : j < i <=> budgets[j].state # "never"
       /\ budgets' = [budgets EXCEPT ![i] = Payload(r, Current(r).name)]
  /\ Continue(r) \/ Abort(r)
  /\ UNCHANGED <<policy, endpoint, started, alone>>

\* PATCH, of a budget that still exists: otherwise the call raises.
UpdateBudget(r) ==
  LET action == Current(r)
  IN  /\ Step(r, {"update"})
      /\ IF budgets[action.id].state = "live"
         THEN /\ budgets' = [budgets EXCEPT ![action.id] = Payload(r, action.name)]
              /\ Continue(r) \/ Abort(r)
         ELSE Abort(r) /\ UNCHANGED budgets
      /\ UNCHANGED <<policy, endpoint, started, alone>>

\* DELETE, likewise.
DeleteBudget(r) ==
  LET action == Current(r)
  IN  /\ Step(r, {"delete"})
      /\ IF budgets[action.id].state = "live"
         THEN /\ budgets' = [budgets EXCEPT ![action.id].state = "deleted"]
              /\ Continue(r) \/ Abort(r)
         ELSE Abort(r) /\ UNCHANGED budgets
      /\ UNCHANGED <<policy, endpoint, started, alone>>

\* merge_gateway_rate_limits: what the GET returned with limits, fallback if
\* the policy sets it, and ownership replaced.
Merge(e, desired) ==
  [limits |-> desired.limits, owner |-> Bundle,
   fallback |-> IF desired.fallback = "unset" THEN e.fallback ELSE desired.fallback]

\* GET and PUT; that another writer may come between them is in Governor.
ApplyLimits(r) ==
  LET desired == LastEntry(run[r].policy.rateLimits, Current(r).name)
  IN  /\ Step(r, {"limits"})
      /\ endpoint' = [endpoint EXCEPT ![desired.endpoint] = Merge(@, desired)]
      /\ Continue(r) \/ Abort(r)
      /\ UNCHANGED <<policy, budgets, started, alone>>

\* A call raises before it takes effect, or the process dies.
Fails(r) ==
  /\ Step(r, {"create", "update", "delete", "limits"})
  /\ Abort(r)
  /\ UNCHANGED <<policy, budgets, endpoint, started, alone>>

Finish(r) ==
  /\ run[r].pc = "apply" /\ run[r].next > Len(run[r].plan)
  /\ run' = [run EXCEPT ![r].pc = "done", ![r].plan = <<>>, ![r].next = 1]
  /\ UNCHANGED <<policy, budgets, endpoint, started, alone>>

EditPolicy ==
  /\ policy' \in Policies
  /\ UNCHANGED <<budgets, endpoint, run, started, alone>>

ReconcilerNext ==
  \/ \E r \in Runs : StartRun(r) \/ Skip(r) \/ CreateBudget(r) \/ UpdateBudget(r)
                     \/ DeleteBudget(r) \/ ApplyLimits(r) \/ Fails(r) \/ Finish(r)
  \/ EditPolicy

ReconcilerSpec == ReconcilerInit /\ [][ReconcilerNext]_reconcilerVars

-----------------------------------------------------------------------------
FoundAtFirst(name) ==
  {i \in Ids : InitialBudgets[i].state = "live" /\ InitialBudgets[i].owner = Bundle
                /\ InitialBudgets[i].name = name}

ReconcilerTypeOK ==
  /\ policy \in Policies
  /\ budgets \in [Ids -> Budget]
  /\ endpoint \in [Endpoints -> Endpoint]
  /\ \A r \in Runs :
       /\ run[r].pc \in {"idle", "apply", "done", "failed"}
       /\ run[r].policy \in Policies /\ run[r].prune \in BOOLEAN
       /\ run[r].plan \in Seq(Action) /\ run[r].next \in 1..(Len(run[r].plan) + 1)
  /\ started \in 0..MaxRuns /\ alone \in BOOLEAN

\* The account never holds more budgets of a name than one, or than a version of
\* the policy lists, or than it held to begin with, whichever calls of earlier
\* runs failed or lost their response: as long as runs do not overlap, a run
\* repeated after a failure finds what the earlier one created.
NoStrayBudgets ==
  alone => \A name \in Names :
    \/ Cardinality(Found(name)) <= 1
    \/ \E p \in Policies : Cardinality(Found(name)) <= Cardinality(Entries(p.budgets, name))
    \/ Cardinality(Found(name)) <= Cardinality(FoundAtFirst(name))

\* The entries rate_lookup keeps, and that one of them is in force.
Effective(p) == {LastEntry(p.rateLimits, name) : name \in NamesIn(p.rateLimits)}

InForce(desired, e) ==
  e.limits = desired.limits /\ (desired.fallback # "unset" => e.fallback = desired.fallback)

\* A run that ends without an error leaves what its version of the policy says,
\* whatever earlier runs left half done, as long as runs do not overlap: under
\* each name a budget as the last entry of that name has it, nothing prunable,
\* and on each endpoint the limits and the fallback of an entry for it that no
\* later entry of its name hides: those it asks for, where that entry is the only
\* one.
AppliedMatchesPolicy ==
  \A r \in Runs : alone /\ run[r].pc = "done" =>
    LET p == run[r].policy
    IN  /\ \A name \in NamesIn(p.budgets) :
             /\ Found(name) # {}
             /\ budgets[First(name)].content = LastEntry(p.budgets, name).content
        /\ run[r].prune => Prunable(p) = {}
        /\ \A d \in Effective(p) : \E e \in Effective(p) :
             e.endpoint = d.endpoint /\ InForce(e, endpoint[d.endpoint])

\* README.md: a run changes and deletes only budgets its bundle owns.  Those
\* without a policy name were not made by the tool, and are left alone too.
OthersUntouched ==
  [][\A i \in Ids :
       budgets[i].state = "live" /\ (budgets[i].owner # Bundle \/ budgets[i].name = Unnamed)
         => budgets'[i] = budgets[i]]_reconcilerVars

\* README.md: "Deletes require --prune".  A budget is deleted only by a run
\* with --prune whose own version of the policy does not name it, even when
\* its plan was made before other runs and edits.
DeletesArePruned ==
  [][\A i \in Ids : budgets[i].state = "live" /\ budgets'[i].state = "deleted" =>
       \E r \in Runs : /\ run[r].pc = "apply" /\ run[r].prune
                       /\ budgets[i].name \notin NamesIn(run[r].policy.budgets)]_reconcilerVars

\* Running apply again after it has succeeded changes nothing.  The plan need not
\* be empty: the labels in a live budget make it differ from its policy for ever,
\* and so does an entry that another of its name hides; but what is written is
\* there already, save for the ownership of an endpoint.  Two entries for one
\* endpoint may take turns.
ApplyIsIdempotent ==
  \A r \in Runs : alone /\ run[r].pc = "done" =>
    LET p == run[r].policy
    IN  \A a \in ToSet(Plan(p, run[r].prune, {})) :
          \/ a.kind = "noop"
          \/ a.kind = "update" /\ budgets[a.id] = Payload(r, a.name)
          \/ a.kind = "limits" /\
               LET d == LastEntry(p.rateLimits, a.name)
                   e == endpoint[d.endpoint]
               IN  (\A o \in Effective(p) : o.endpoint = d.endpoint => o = d)
                     => Merge(e, d) = [e EXCEPT !.owner = Bundle]

=============================================================================
