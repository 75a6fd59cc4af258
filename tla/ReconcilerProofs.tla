-------------------------- MODULE ReconcilerProofs --------------------------
(***************************************************************************)
(* The reconciler, for every policy, account and number of runs.  Whatever *)
(* overlaps, an action is carried out on a budget that is still about the  *)
(* name it was planned for; as long as runs do not overlap, what the       *)
(* policy asks for is at any time in place or still to be done, and the    *)
(* budgets there are and those still to be created stay within the bound.  *)
(***************************************************************************)
EXTENDS Reconciler, FiniteSetTheorems, SequenceTheorems, TLAPS

-----------------------------------------------------------------------------
(* Sequences *)

\* SetToSeq lists every finite set.
LEMMA SetToSeqLists ==
  ASSUME NEW S, IsFiniteSet(S)
  PROVE  SetToSeq(S) \in Seq(S) /\ ToSet(SetToSeq(S)) = S
<1> DEFINE n == Cardinality(S)
           s == SetToSeq(S)
<1>1. n \in Nat /\ ExistsBijection(1..n, S)
  BY FS_CardinalityType
<1>2. \E f \in [1..n -> S] : IsInjective(f)
  BY <1>1 DEF ExistsBijection, Bijection, Injection, Surjection
<1>3. s \in [1..n -> S] /\ IsInjective(s)
  BY <1>2 DEF SetToSeq
<1>4. IsFiniteSet(1..n) /\ Cardinality(1..n) = n
  BY <1>1, FS_Interval
<1>5. s \in Injection(1..n, S)
  BY <1>3 DEF Injection
<1> HIDE DEF s
<1>6. s \in Surjection(1..n, S)
  BY <1>4, <1>5, FS_Injection
<1>7. s \in Seq(S)
  BY <1>1, <1>3, SeqDef
<1>8. ToSet(s) = S
  <2>1. DOMAIN s = 1..n
    BY <1>3
  <2>2. \A t \in S : \E i \in 1..n : s[i] = t
    BY <1>6 DEF Surjection
  <2> QED BY <1>3, <2>1, <2>2 DEF ToSet
<1> QED BY <1>7, <1>8 DEF s

\* What is where in two lists, one after the other.
LEMMA ConcatElements ==
  ASSUME NEW S, NEW s \in Seq(S), NEW t \in Seq(S)
  PROVE  /\ s \o t \in Seq(S)
         /\ \A i \in DOMAIN (s \o t) :
              \/ i \in DOMAIN s /\ (s \o t)[i] = s[i]
              \/ \E j \in DOMAIN t : (s \o t)[i] = t[j]
         /\ \A i \in DOMAIN s : i \in DOMAIN (s \o t) /\ (s \o t)[i] = s[i]
         /\ ToSet(s \o t) = ToSet(s) \cup ToSet(t)
<1> DEFINE c == s \o t
<1>1. Len(s) \in Nat /\ DOMAIN s = 1..Len(s) /\ Len(t) \in Nat /\ DOMAIN t = 1..Len(t)
  BY LenProperties
<1>2. /\ c \in Seq(S) /\ Len(c) = Len(s) + Len(t)
      /\ \A i \in 1..Len(s) + Len(t) : c[i] = IF i <= Len(s) THEN s[i] ELSE t[i - Len(s)]
  BY ConcatProperties
<1>3. DOMAIN c = 1..Len(s) + Len(t)
  BY <1>2, LenProperties
<1> HIDE DEF c
<1>4. \A i \in DOMAIN s : i \in DOMAIN c /\ c[i] = s[i]
  BY <1>1, <1>2, <1>3
<1>5. \A j \in DOMAIN t : Len(s) + j \in DOMAIN c /\ c[Len(s) + j] = t[j]
  <2> TAKE j \in DOMAIN t
  <2>1. /\ Len(s) + j \in 1..Len(s) + Len(t) /\ ~ (Len(s) + j <= Len(s))
        /\ (Len(s) + j) - Len(s) = j
    BY <1>1
  <2> QED BY <1>2, <1>3, <2>1
<1>6. \A i \in DOMAIN c : \/ i \in DOMAIN s /\ c[i] = s[i]
                          \/ \E j \in DOMAIN t : c[i] = t[j]
  <2> TAKE i \in DOMAIN c
  <2>1. CASE i <= Len(s)
    BY <1>1, <1>3, <1>4, <2>1
  <2>2. CASE ~ (i <= Len(s))
    <3>1. i - Len(s) \in DOMAIN t /\ c[i] = t[i - Len(s)]
      BY <1>1, <1>2, <1>3, <2>2
    <3> QED BY <3>1
  <2> QED BY <2>1, <2>2
<1>7. ToSet(c) = ToSet(s) \cup ToSet(t)
  <2>1. ToSet(c) \subseteq ToSet(s) \cup ToSet(t)
    BY <1>6 DEF ToSet
  <2>2. ToSet(s) \subseteq ToSet(c)
    BY <1>4 DEF ToSet
  <2>3. ToSet(t) \subseteq ToSet(c)
    BY <1>5 DEF ToSet
  <2> QED BY <2>1, <2>2, <2>3
<1> QED BY <1>2, <1>4, <1>6, <1>7 DEF c

\* A nonempty set of numbers has a least one.
LEMMA LeastExists ==
  ASSUME NEW F, F \subseteq Nat, F # {}
  PROVE  \E x \in F : \A y \in F : x <= y
<1> DEFINE R == OpToRel(<, Nat)
<1>1. IsWellFoundedOn(R, Nat)
  BY NatLessThanWellFounded, Zenon DEF OpToRel
<1>2. \A x, y \in Nat : y < x => <<y, x>> \in R
  BY DEF OpToRel
<1> HIDE DEF R
<1>3. \E x \in F : \A y \in F : ~ (<<y, x>> \in R)
  BY <1>1, WFMin
<1>4. PICK x \in F : \A y \in F : ~ (<<y, x>> \in R)
  BY <1>3
<1>5. \A y \in F : x <= y
  <2> TAKE y \in F
  <2>1. x \in Nat /\ y \in Nat /\ ~ (y < x)
    BY <1>2, <1>4
  <2> QED BY <2>1
<1> QED BY <1>5

\* The entry the lookup keeps for a name is an entry of that name.
LEMMA LastIsEntry ==
  ASSUME NEW S, NEW list \in Seq(S), NEW name \in NamesIn(list)
  PROVE  \E k \in Entries(list, name) : LastEntry(list, name) = list[k]
<1> DEFINE E == Entries(list, name)
           n == Len(list)
           F == {n - k : k \in E}
<1>1. n \in Nat /\ DOMAIN list = 1..n
  BY LenProperties
<1>2. E \subseteq 1..n /\ E # {}
  BY <1>1 DEF Entries, NamesIn
<1> HIDE DEF E, n
<1>3. F \subseteq Nat /\ F # {}
  <2>1. \A k \in 1..n : n - k \in Nat
    BY <1>1
  <2>2. F \subseteq Nat
    BY <1>2, <2>1
  <2> QED BY <1>2, <2>2
<1> HIDE DEF F
<1>4. PICK x \in F : \A y \in F : x <= y
  BY <1>3, LeastExists
<1>5. PICK k \in E : x = n - k
  BY <1>4 DEF F
<1>6. \A j \in E : j <= k
  <2> TAKE j \in E
  <2>1. n - k <= n - j
    BY <1>4, <1>5 DEF F
  <2> QED BY <1>1, <1>2, <2>1
<1> DEFINE last == CHOOSE i \in E : \A j \in E : j <= i
<1>7. last \in E
  BY <1>6
<1>8. LastEntry(list, name) = list[last]
  BY DEF LastEntry, E
<1> HIDE DEF last
<1> QED BY <1>7, <1>8 DEF E

-----------------------------------------------------------------------------
(* The invariant *)

RunRecord == [pc : {"idle", "apply", "done", "failed"}, policy : Policies,
              prune : BOOLEAN, plan : Seq(Action), next : Nat]

\* ReconcilerTypeOK, with the domain and the fields of run.
ApplierTypes ==
  /\ policy \in Policies /\ budgets \in [Ids -> Budget]
  /\ endpoint \in [Endpoints -> Endpoint] /\ run \in [Runs -> RunRecord]
  /\ started \in 0..MaxRuns /\ alone \in BOOLEAN

\* A budget that has been made keeps its name and its owner for ever, so an
\* action that was planned on it is still about the same name.
Target(a) ==
  budgets[a.id].state # "never" /\ budgets[a.id].owner = Bundle /\ budgets[a.id].name = a.name

\* What a planned action may rely on whatever else happened since it was planned.
Justified(p, prune, a) ==
  /\ a.kind \in {"create", "update"} => a.name \in NamesIn(p.budgets)
  /\ a.kind \in {"update", "delete"} => Target(a)
  /\ a.kind = "delete" => prune /\ a.name \notin NamesIn(p.budgets)
  /\ a.kind = "limits" => a.name \in NamesIn(p.rateLimits)

\* The policy and the rest of a run are bound by quantifiers over singletons:
\* what is bound keeps its value when the formula is primed.
PlansInv ==
  \A r \in Runs :
    /\ \A p \in {run[r].policy}, prune \in {run[r].prune}, a \in ToSet(run[r].plan) :
         Justified(p, prune, a)
    /\ run[r].next \in 1..Len(run[r].plan) + 1
    /\ run[r].pc # "apply" => run[r].plan = <<>>

\* The actions of a plan from the n-th on, and which of them create a name.
Rest(plan, n) == {plan[j] : j \in n..Len(plan)}

CreatesIn(plan, n, name) ==
  {j \in n..Len(plan) : plan[j].kind = "create" /\ plan[j].name = name}

IsFirst(i, name) == i \in Found(name) /\ \A j \in Found(name) : i <= j

\* The budget a run looks at under a name says what the last entry does; with
\* no label left in its tags it was never written, so that no entry asks for
\* anything else.
BudgetInPlace(p, name) ==
  \E i \in Ids :
    /\ IsFirst(i, name)
    /\ budgets[i].content = LastEntry(p.budgets, name).content
    /\ \/ budgets[i].labels = Labels
       \/ /\ budgets[i].labels = {}
          /\ \A k \in Entries(p.budgets, name) : p.budgets[k].content = budgets[i].content

EndpointInPlace(p, w) == \E d \in Effective(p) : d.endpoint = w /\ InForce(d, endpoint[w])

\* Everything the policy asks for is in place or among the actions T left to do.
Covered(p, prune, T) ==
  /\ \A a \in T : a.kind = "update" => IsFirst(a.id, a.name)
  /\ \A a \in T : a.kind = "create" => Found(a.name) = {} \/ BudgetInPlace(p, a.name)
  /\ \A name \in NamesIn(p.budgets) :
       BudgetInPlace(p, name) \/ \E a \in T : a.kind \in {"create", "update"} /\ a.name = name
  /\ prune => \A i \in Prunable(p) : Act("delete", budgets[i].name, i) \in T
  /\ \A d \in Effective(p) :
       \/ EndpointInPlace(p, d.endpoint)
       \/ \E a \in T : a.kind = "limits" /\ LastEntry(p.rateLimits, a.name).endpoint = d.endpoint

\* So many budgets of a name there may be.
Allowed(name, n) ==
  \/ n <= 1
  \/ \E p \in Policies : n <= Cardinality(Entries(p.budgets, name))
  \/ n <= Cardinality(FoundAtFirst(name))

\* Those there are and those a run is still to create.
Bounded ==
  \A name \in Names :
    /\ Allowed(name, Cardinality(Found(name)))
    /\ \A r \in Runs : run[r].pc = "apply" =>
         Allowed(name, Cardinality(Found(name))
                         + Cardinality(CreatesIn(run[r].plan, run[r].next, name)))

OneRun == \A q, r \in Runs : run[q].pc = "apply" /\ run[r].pc \in {"apply", "done"} => q = r

AllCovered ==
  \A r \in Runs : run[r].pc \in {"apply", "done"} =>
    \A p \in {run[r].policy}, prune \in {run[r].prune}, T \in {Rest(run[r].plan, run[r].next)} :
      Covered(p, prune, T)

\* The inductive invariant.
ApplierInv ==
  /\ ApplierTypes /\ PlansInv
  /\ alone => OneRun /\ Bounded /\ AllCovered

-----------------------------------------------------------------------------
(* What a plan consists of *)

PlannedDeletes(p, prune) ==
  {Act("delete", budgets[i].name, i) : i \in IF prune THEN Prunable(p) ELSE {}}

\* The first budget with a name, if there is one, and there is only one first.
LEMMA FirstIsFirst ==
  ASSUME NEW name
  PROVE  /\ Found(name) # {} => IsFirst(First(name), name)
         /\ \A i, j : IsFirst(i, name) /\ IsFirst(j, name) => i = j
<1>1. Found(name) \subseteq Nat
  BY ReconcilerConstants DEF Found, Ids
<1>2. ASSUME Found(name) # {} PROVE IsFirst(First(name), name)
  <2>1. \E i \in Found(name) : \A j \in Found(name) : i <= j
    BY <1>1, <1>2, LeastExists
  <2> QED BY <2>1 DEF IsFirst, First
<1>3. \A i, j : IsFirst(i, name) /\ IsFirst(j, name) => i = j
  BY <1>1 DEF IsFirst
<1> QED BY <1>2, <1>3

\* planner.py plans one action for each entry of the policy's budgets.
LEMMA PlanOfBudget ==
  ASSUME ApplierTypes, NEW entry \in BudgetEntry, NEW a, a = PlanBudget(entry)
  PROVE  /\ a \in Action /\ a.name = entry.name
         /\ \/ a.kind = "create" /\ Found(a.name) = {}
            \/ a.kind = "noop" /\ \E i \in Ids : IsFirst(i, a.name) /\ BudgetsEqual(entry.content, budgets[i])
            \/ /\ a.kind = "update" /\ IsFirst(a.id, a.name) /\ a.id \in Ids
               /\ ~ BudgetsEqual(entry.content, budgets[a.id])
<1> DEFINE name == entry.name
<1>0. name \in Names
  BY DEF BudgetEntry
<1>1. CASE Found(name) = {}
  BY <1>0, <1>1 DEF PlanBudget, Act, Action
<1>2. CASE Found(name) # {}
  <2>1. PICK i : i = First(name)
    OBVIOUS
  <2>2. IsFirst(i, name) /\ i \in Ids
    BY <1>2, <2>1, FirstIsFirst DEF IsFirst, Found
  <2>3. CASE BudgetsEqual(entry.content, budgets[i])
    <3>1. a = Act("noop", name, 0)
      BY <1>2, <2>1, <2>3 DEF PlanBudget
    <3> QED BY <1>0, <2>2, <2>3, <3>1 DEF Act, Action
  <2>4. CASE ~ BudgetsEqual(entry.content, budgets[i])
    <3>1. a = Act("update", name, i)
      BY <1>2, <2>1, <2>4 DEF PlanBudget
    <3>2. a \in Action /\ a.kind = "update" /\ a.name = name /\ a.id = i
      BY <1>0, <2>2, <3>1 DEF Act, Action
    <3> QED BY <2>2, <2>4, <3>2
  <2> QED BY <2>3, <2>4
<1> QED BY <1>1, <1>2

\* One for each budget pruned.
LEMMA PlanOfDeletes ==
  ASSUME ApplierTypes, NEW p \in Policies, NEW prune \in BOOLEAN
  PROVE  /\ IsFiniteSet(PlannedDeletes(p, prune))
         /\ \A a \in PlannedDeletes(p, prune) :
              /\ a \in Action /\ a.kind = "delete" /\ prune
              /\ a.id \in Prunable(p) /\ a.name = budgets[a.id].name
<1> DEFINE D == PlannedDeletes(p, prune)
<1>1. \A a \in D : /\ a \in Action /\ a.kind = "delete" /\ prune
                   /\ a.id \in Prunable(p) /\ a.name = budgets[a.id].name
  <2> TAKE a \in D
  <2>1. PICK i \in Prunable(p) : a = Act("delete", budgets[i].name, i) /\ prune
    BY DEF PlannedDeletes
  <2>2. i \in Ids /\ budgets[i] \in Budget /\ budgets[i].name # Unnamed
    BY DEF Prunable, ApplierTypes
  <2>3. budgets[i].name \in Names
    BY <2>2 DEF Budget
  <2> QED BY <2>1, <2>2, <2>3 DEF Action, Act
<1>2. IsFiniteSet(D)
  <2> DEFINE f == [a \in D |-> a.id]
  <2>1. \A a, b \in D : a.id = b.id => a = b
    <3> TAKE a, b \in D
    <3>1. PICK i \in Ids : a = Act("delete", budgets[i].name, i)
      BY DEF PlannedDeletes, Prunable
    <3>2. PICK j \in Ids : b = Act("delete", budgets[j].name, j)
      BY DEF PlannedDeletes, Prunable
    <3> QED BY <3>1, <3>2 DEF Act
  <2>2. f \in Injection(D, Ids)
    <3>1. \A a \in D : a.id \in Ids
      BY <1>1 DEF Prunable
    <3> QED BY <2>1, <3>1 DEF Injection, IsInjective
  <2>3. IsFiniteSet(Ids)
    BY ReconcilerConstants, FS_Interval DEF Ids
  <2> HIDE DEF f, D
  <2> QED BY <2>2, <2>3, FS_Injection
<1> QED BY <1>1, <1>2

\* One for each entry of its rate limits.
LEMMA PlanOfLimits ==
  ASSUME NEW p \in Policies, NEW failed \in SUBSET Endpoints,
         NEW k \in DOMAIN p.rateLimits, NEW a, a = PlanRateLimits(p, failed)[k]
  PROVE  /\ a \in Action /\ a.name = p.rateLimits[k].name
         /\ \/ a.kind = "limits"
            \/ a.kind = "noop" /\ RateLimitsEqual(p.rateLimits[k], endpoint[p.rateLimits[k].endpoint])
<1>1. p.rateLimits[k] \in LimitEntry
  <2>1. p.rateLimits \in Seq(LimitEntry)
    BY ReconcilerConstants DEF IsPolicy
  <2> QED BY <2>1, LenProperties
<1>2. p.rateLimits[k].name \in Names
  BY <1>1 DEF LimitEntry
<1> QED BY <1>2 DEF PlanRateLimits, Act, Action

\* What is in the plan, and where the creates are.
LEMMA PlanElements ==
  ASSUME ApplierTypes, NEW p \in Policies, NEW prune \in BOOLEAN, NEW failed \in SUBSET Endpoints,
         NEW plan, plan = Plan(p, prune, failed)
  PROVE  /\ plan \in Seq(Action)
         /\ \A i \in DOMAIN plan :
              \/ i \in DOMAIN p.budgets /\ plan[i] = PlanBudget(p.budgets[i])
              \/ plan[i] \in PlannedDeletes(p, prune)
              \/ \E k \in DOMAIN p.rateLimits : plan[i] = PlanRateLimits(p, failed)[k]
         /\ \A k \in DOMAIN p.budgets : PlanBudget(p.budgets[k]) \in ToSet(plan)
         /\ PlannedDeletes(p, prune) \subseteq ToSet(plan)
         /\ \A k \in DOMAIN p.rateLimits : PlanRateLimits(p, failed)[k] \in ToSet(plan)
<1> DEFINE B == [k \in DOMAIN p.budgets |-> PlanBudget(p.budgets[k])]
           D == SetToSeq(PlannedDeletes(p, prune))
           L == PlanRateLimits(p, failed)
<1>0. p.budgets \in Seq(BudgetEntry) /\ p.rateLimits \in Seq(LimitEntry)
  BY ReconcilerConstants DEF IsPolicy
<1>1. B \in Seq(Action) /\ DOMAIN B = DOMAIN p.budgets
  <2>1. DOMAIN p.budgets = 1..Len(p.budgets) /\ Len(p.budgets) \in Nat
    BY <1>0, LenProperties
  <2>2. \A k \in DOMAIN p.budgets : PlanBudget(p.budgets[k]) \in Action
    <3> TAKE k \in DOMAIN p.budgets
    <3>1. p.budgets[k] \in BudgetEntry
      BY <1>0, LenProperties
    <3> QED BY <3>1, PlanOfBudget
  <2>3. B \in [1..Len(p.budgets) -> Action]
    BY <2>1, <2>2
  <2> QED BY <2>1, <2>3, SeqDef
<1>2. D \in Seq(Action) /\ ToSet(D) = PlannedDeletes(p, prune)
  <2>1. PlannedDeletes(p, prune) \subseteq Action
    BY PlanOfDeletes
  <2>2. D \in Seq(PlannedDeletes(p, prune)) /\ ToSet(D) = PlannedDeletes(p, prune)
    BY PlanOfDeletes, SetToSeqLists
  <2> QED BY <2>1, <2>2, SeqMonotonic
<1>3. L \in Seq(Action) /\ DOMAIN L = DOMAIN p.rateLimits
  <2>1. DOMAIN p.rateLimits = 1..Len(p.rateLimits) /\ Len(p.rateLimits) \in Nat
    BY <1>0, LenProperties
  <2>2. DOMAIN L = DOMAIN p.rateLimits /\ L = [k \in DOMAIN L |-> L[k]]
    BY DEF PlanRateLimits
  <2>3. \A k \in DOMAIN p.rateLimits : L[k] \in Action
    BY PlanOfLimits
  <2>4. L \in [1..Len(p.rateLimits) -> Action]
    BY <2>1, <2>2, <2>3
  <2> QED BY <2>1, <2>2, <2>4, SeqDef
<1>4. plan = (B \o D) \o L
  BY DEF Plan, PlanBudgets, PlannedDeletes
<1> HIDE DEF D, L
<1>5. \A k \in DOMAIN p.budgets : B[k] = PlanBudget(p.budgets[k])
  OBVIOUS
<1> HIDE DEF B
<1>6. PICK c : c = B \o D
  OBVIOUS
<1>7. /\ c \in Seq(Action) /\ ToSet(c) = ToSet(B) \cup ToSet(D)
      /\ \A i \in DOMAIN c : \/ i \in DOMAIN B /\ c[i] = B[i]
                             \/ \E j \in DOMAIN D : c[i] = D[j]
  BY <1>1, <1>2, <1>6, ConcatElements
<1>8. /\ plan \in Seq(Action) /\ ToSet(plan) = ToSet(c) \cup ToSet(L)
      /\ \A i \in DOMAIN plan : \/ i \in DOMAIN c /\ plan[i] = c[i]
                                \/ \E j \in DOMAIN L : plan[i] = L[j]
  <2>1. plan = c \o L
    BY <1>4, <1>6
  <2>2. /\ c \o L \in Seq(Action) /\ ToSet(c \o L) = ToSet(c) \cup ToSet(L)
        /\ \A i \in DOMAIN (c \o L) : \/ i \in DOMAIN c /\ (c \o L)[i] = c[i]
                                      \/ \E j \in DOMAIN L : (c \o L)[i] = L[j]
    BY <1>3, <1>7, ConcatElements
  <2> QED BY <2>1, <2>2
<1>9. \A i \in DOMAIN plan :
        \/ i \in DOMAIN p.budgets /\ plan[i] = PlanBudget(p.budgets[i])
        \/ plan[i] \in PlannedDeletes(p, prune)
        \/ \E k \in DOMAIN p.rateLimits : plan[i] = L[k]
  <2> TAKE i \in DOMAIN plan
  <2>1. CASE i \in DOMAIN c /\ plan[i] = c[i]
    <3>1. CASE i \in DOMAIN B /\ c[i] = B[i]
      BY <1>1, <1>5, <2>1, <3>1
    <3>2. CASE \E j \in DOMAIN D : c[i] = D[j]
      BY <1>2, <2>1, <3>2 DEF ToSet
    <3> QED BY <1>7, <2>1, <3>1, <3>2
  <2>2. CASE \E j \in DOMAIN L : plan[i] = L[j]
    BY <1>3, <2>2
  <2> QED BY <1>8, <2>1, <2>2
<1>10. \A k \in DOMAIN p.budgets : PlanBudget(p.budgets[k]) \in ToSet(plan)
  <2> TAKE k \in DOMAIN p.budgets
  <2>1. B[k] \in ToSet(B)
    BY <1>1 DEF ToSet
  <2> QED BY <1>5, <1>7, <1>8, <2>1
<1>11. \A k \in DOMAIN p.rateLimits : L[k] \in ToSet(plan)
  <2> TAKE k \in DOMAIN p.rateLimits
  <2>1. L[k] \in ToSet(L)
    BY <1>3 DEF ToSet
  <2> QED BY <1>8, <2>1
<1> QED BY <1>2, <1>7, <1>8, <1>9, <1>10, <1>11 DEF L

\* All of a plan is left to do at first.
LEMMA RestOfAll == ASSUME NEW S, NEW plan \in Seq(S) PROVE Rest(plan, 1) = ToSet(plan)
  BY LenProperties DEF Rest, ToSet

\* A plan can be justified.
LEMMA PlanIsJustified ==
  ASSUME ApplierTypes, NEW p \in Policies, NEW prune \in BOOLEAN, NEW failed \in SUBSET Endpoints,
         NEW a \in ToSet(Plan(p, prune, failed))
  PROVE  Justified(p, prune, a)
<1>0. p.budgets \in Seq(BudgetEntry) /\ p.rateLimits \in Seq(LimitEntry)
  BY ReconcilerConstants DEF IsPolicy
<1>1. PICK plan : plan = Plan(p, prune, failed)
  OBVIOUS
<1>2. PICK i \in DOMAIN plan : a = plan[i]
  BY <1>1 DEF ToSet
<1>3. CASE i \in DOMAIN p.budgets /\ a = PlanBudget(p.budgets[i])
  <2>1. p.budgets[i] \in BudgetEntry /\ p.budgets[i].name \in NamesIn(p.budgets)
    BY <1>0, <1>3, LenProperties DEF NamesIn
  <2>2. /\ a.name \in NamesIn(p.budgets)
        /\ a.kind \in {"create", "noop"} \/ (a.kind = "update" /\ IsFirst(a.id, a.name))
    BY <1>3, <2>1, PlanOfBudget
  <2>3. a.kind = "update" => Target(a)
    BY <2>2 DEF IsFirst, Found, Managed, Target
  <2> QED BY <2>2, <2>3 DEF Justified
<1>4. CASE a \in PlannedDeletes(p, prune)
  <2>1. a.kind = "delete" /\ prune /\ a.id \in Prunable(p) /\ a.name = budgets[a.id].name
    BY <1>4, PlanOfDeletes
  <2>2. a.name \notin NamesIn(p.budgets) /\ Target(a)
    BY <2>1 DEF Prunable, Managed, Target
  <2> QED BY <2>1, <2>2 DEF Justified
<1>5. CASE \E k \in DOMAIN p.rateLimits : a = PlanRateLimits(p, failed)[k]
  <2>1. PICK k \in DOMAIN p.rateLimits : a = PlanRateLimits(p, failed)[k]
    BY <1>5
  <2>2. a.kind \in {"limits", "noop"} /\ a.name = p.rateLimits[k].name
    BY <2>1, PlanOfLimits
  <2> QED BY <2>2 DEF Justified, NamesIn
<1> QED BY <1>1, <1>2, <1>3, <1>4, <1>5, PlanElements

\* A plan covers what the policy asks for.
LEMMA PlanCovers ==
  ASSUME ApplierTypes, NEW p \in Policies, NEW prune \in BOOLEAN, NEW failed \in SUBSET Endpoints
  PROVE  Covered(p, prune, ToSet(Plan(p, prune, failed)))
<1>0. p.budgets \in Seq(BudgetEntry) /\ p.rateLimits \in Seq(LimitEntry)
  BY ReconcilerConstants DEF IsPolicy
<1>1. PICK plan : plan = Plan(p, prune, failed)
  OBVIOUS
<1>2. PICK T : T = ToSet(plan)
  OBVIOUS
<1>3. \A k \in DOMAIN p.budgets : p.budgets[k] \in BudgetEntry
  BY <1>0, LenProperties
<1>4. \A a \in T : /\ a.kind = "update" => IsFirst(a.id, a.name)
                   /\ a.kind = "create" => Found(a.name) = {}
  <2> TAKE a \in T
  <2>1. PICK i \in DOMAIN plan : a = plan[i]
    BY <1>2 DEF ToSet
  <2>2. CASE i \in DOMAIN p.budgets /\ a = PlanBudget(p.budgets[i])
    BY <1>3, <2>2, PlanOfBudget
  <2>3. CASE a \in PlannedDeletes(p, prune)
    BY <2>3, PlanOfDeletes
  <2>4. CASE \E k \in DOMAIN p.rateLimits : a = PlanRateLimits(p, failed)[k]
    BY <2>4, PlanOfLimits
  <2> QED BY <1>1, <2>1, <2>2, <2>3, <2>4, PlanElements
<1>5. \A name \in NamesIn(p.budgets) :
        BudgetInPlace(p, name) \/ \E a \in T : a.kind \in {"create", "update"} /\ a.name = name
  <2> SUFFICES ASSUME NEW name \in NamesIn(p.budgets),
                      ~ \E a \in T : a.kind \in {"create", "update"} /\ a.name = name
               PROVE  BudgetInPlace(p, name)
    OBVIOUS
  <2>1. \A k \in Entries(p.budgets, name) :
          \E i \in Ids : IsFirst(i, name) /\ BudgetsEqual(p.budgets[k].content, budgets[i])
    <3> TAKE k \in Entries(p.budgets, name)
    <3>1. k \in DOMAIN p.budgets /\ p.budgets[k].name = name
      BY DEF Entries
    <3>2. PICK a : a = PlanBudget(p.budgets[k])
      OBVIOUS
    <3>3. a \in T
      BY <1>1, <1>2, <3>1, <3>2, PlanElements
    <3> QED BY <1>3, <3>1, <3>2, <3>3, PlanOfBudget
  <2>2. PICK k \in Entries(p.budgets, name) : LastEntry(p.budgets, name) = p.budgets[k]
    BY <1>0, LastIsEntry
  <2>3. PICK i \in Ids : IsFirst(i, name) /\ BudgetsEqual(p.budgets[k].content, budgets[i])
    BY <2>1
  <2>4. \A j \in Entries(p.budgets, name) : BudgetsEqual(p.budgets[j].content, budgets[i])
    BY <2>1, <2>3, FirstIsFirst
  <2>5. /\ budgets[i].labels = {} /\ budgets[i].content = LastEntry(p.budgets, name).content
        /\ \A j \in Entries(p.budgets, name) : p.budgets[j].content = budgets[i].content
    BY <2>2, <2>3, <2>4 DEF BudgetsEqual
  <2> QED BY <2>3, <2>5 DEF BudgetInPlace
<1>6. prune => \A i \in Prunable(p) : Act("delete", budgets[i].name, i) \in T
  BY <1>1, <1>2, PlanElements DEF PlannedDeletes
<1>7. \A d \in Effective(p) :
        \/ EndpointInPlace(p, d.endpoint)
        \/ \E a \in T : a.kind = "limits" /\ LastEntry(p.rateLimits, a.name).endpoint = d.endpoint
  <2> TAKE d \in Effective(p)
  <2>1. PICK name \in NamesIn(p.rateLimits) : d = LastEntry(p.rateLimits, name)
    BY DEF Effective
  <2>2. PICK k \in Entries(p.rateLimits, name) : d = p.rateLimits[k]
    BY <1>0, <2>1, LastIsEntry
  <2>3. k \in DOMAIN p.rateLimits /\ p.rateLimits[k].name = name
    BY DEF Entries
  <2>4. PICK a : a = PlanRateLimits(p, failed)[k]
    OBVIOUS
  <2>5. a \in T
    BY <1>1, <1>2, <2>3, <2>4, PlanElements
  <2>6. a.name = name /\ (a.kind = "limits" \/ RateLimitsEqual(d, endpoint[d.endpoint]))
    BY <2>2, <2>3, <2>4, PlanOfLimits
  <2>7. RateLimitsEqual(d, endpoint[d.endpoint]) => EndpointInPlace(p, d.endpoint)
    BY DEF RateLimitsEqual, EndpointInPlace, InForce
  <2> QED BY <2>1, <2>5, <2>6, <2>7
<1> QED BY <1>1, <1>2, <1>4, <1>5, <1>6, <1>7 DEF Covered

\* Fewer are allowed too.
LEMMA FewerAllowed ==
  ASSUME NEW name, NEW m \in Nat, NEW n \in Nat, m <= n, Allowed(name, n)
  PROVE  Allowed(name, m)
<1>1. \A p \in Policies : Cardinality(Entries(p.budgets, name)) \in Nat
  <2> TAKE p \in Policies
  <2>1. p.budgets \in Seq(BudgetEntry)
    BY ReconcilerConstants DEF IsPolicy
  <2>2. IsFiniteSet(DOMAIN p.budgets)
    BY <2>1, LenProperties, FS_Interval
  <2> QED BY <2>2, FS_Subset, FS_CardinalityType DEF Entries
<1>2. Cardinality(FoundAtFirst(name)) \in Nat
  <2>1. IsFiniteSet(Ids)
    BY ReconcilerConstants, FS_Interval DEF Ids
  <2> QED BY <2>1, FS_Subset, FS_CardinalityType DEF FoundAtFirst
<1>3. \A k \in Nat : n <= k => m <= k
  OBVIOUS
<1> QED BY <1>1, <1>2, <1>3, 1 \in Nat DEF Allowed

\* What is found and what is still to be created are finitely many.
LEMMA CountsAreNat ==
  ASSUME NEW name, NEW plan \in Seq(Action), NEW n \in Nat
  PROVE  /\ IsFiniteSet(Found(name)) /\ Cardinality(Found(name)) \in Nat
         /\ IsFiniteSet(CreatesIn(plan, n, name)) /\ Cardinality(CreatesIn(plan, n, name)) \in Nat
<1>1. IsFiniteSet(Ids)
  BY ReconcilerConstants, FS_Interval DEF Ids
<1>2. IsFiniteSet(Found(name))
  BY <1>1, FS_Subset DEF Found
<1>3. IsFiniteSet(n..Len(plan))
  BY LenProperties, FS_Interval
<1>4. IsFiniteSet(CreatesIn(plan, n, name))
  BY <1>3, FS_Subset DEF CreatesIn
<1> QED BY <1>2, <1>4, FS_CardinalityType

\* A plan creates a name as often as the policy lists it, if there is none yet.
LEMMA PlanIsBounded ==
  ASSUME ApplierTypes, NEW p \in Policies, NEW prune \in BOOLEAN, NEW failed \in SUBSET Endpoints,
         NEW plan, plan = Plan(p, prune, failed),
         NEW name \in Names, Allowed(name, Cardinality(Found(name)))
  PROVE  Allowed(name, Cardinality(Found(name)) + Cardinality(CreatesIn(plan, 1, name)))
<1> DEFINE C == CreatesIn(plan, 1, name)
           E == Entries(p.budgets, name)
<1>0. p.budgets \in Seq(BudgetEntry)
  BY ReconcilerConstants DEF IsPolicy
<1>1. plan \in Seq(Action)
  BY PlanElements
<1>2. DOMAIN plan = 1..Len(plan)
  BY <1>1, LenProperties
<1>3. \A j \in C : j \in E /\ Found(name) = {}
  <2> TAKE j \in C
  <2>1. j \in DOMAIN plan /\ plan[j].kind = "create" /\ plan[j].name = name
    BY <1>2 DEF CreatesIn
  <2>2. j \in DOMAIN p.budgets /\ plan[j] = PlanBudget(p.budgets[j])
    BY <2>1, PlanElements, PlanOfDeletes, PlanOfLimits
  <2>3. p.budgets[j] \in BudgetEntry
    BY <1>0, <2>2, LenProperties
  <2> QED BY <2>1, <2>2, <2>3, PlanOfBudget DEF Entries
<1>4. CASE Found(name) = {}
  <2>1. IsFiniteSet(DOMAIN p.budgets)
    <3>1. DOMAIN p.budgets = 1..Len(p.budgets) /\ Len(p.budgets) \in Nat
      BY <1>0, LenProperties
    <3> QED BY <3>1, FS_Interval
  <2>2. IsFiniteSet(E)
    BY <2>1, FS_Subset DEF Entries
  <2>3. Cardinality(C) <= Cardinality(E) /\ Cardinality(C) \in Nat
    BY <1>1, <1>3, <2>2, FS_Subset, CountsAreNat
  <2>4. Cardinality(Found(name)) + Cardinality(C) = Cardinality(C)
    BY <1>4, <2>3, FS_EmptySet
  <2> QED BY <2>3, <2>4 DEF Allowed
<1>5. CASE Found(name) # {}
  <2>1. C = {}
    BY <1>3, <1>5
  <2>2. Cardinality(C) = 0 /\ Cardinality(Found(name)) \in Nat
    BY <1>1, <2>1, FS_EmptySet, CountsAreNat
  <2>3. Cardinality(Found(name)) + Cardinality(C) = Cardinality(Found(name))
    BY <2>2
  <2> QED BY <2>3
<1> QED BY <1>4, <1>5

-----------------------------------------------------------------------------
(* One call of a run *)

\* Taking the next of the actions left to do.
LEMMA RestOfPlan ==
  ASSUME NEW S, NEW plan \in Seq(S), NEW n \in Nat, 1 <= n, n <= Len(plan)
  PROVE  /\ Rest(plan, n) = {plan[n]} \cup Rest(plan, n + 1)
         /\ Rest(plan, n) \subseteq ToSet(plan) /\ plan[n] \in S /\ plan[n] \in ToSet(plan)
         /\ \A name :
              /\ CreatesIn(plan, n + 1, name) \subseteq CreatesIn(plan, n, name)
              /\ n \notin CreatesIn(plan, n + 1, name)
              /\ plan[n].kind = "create" /\ plan[n].name = name => n \in CreatesIn(plan, n, name)
<1>1. Len(plan) \in Nat /\ DOMAIN plan = 1..Len(plan) /\ \A i \in 1..Len(plan) : plan[i] \in S
  BY LenProperties
<1>2. n..Len(plan) = {n} \cup (n + 1)..Len(plan) /\ n \notin (n + 1)..Len(plan)
  BY <1>1
<1>3. n..Len(plan) \subseteq DOMAIN plan /\ n \in 1..Len(plan)
  BY <1>1
<1>4. Rest(plan, n) = {plan[n]} \cup Rest(plan, n + 1)
  BY <1>2 DEF Rest
<1>5. Rest(plan, n) \subseteq ToSet(plan) /\ plan[n] \in S /\ plan[n] \in ToSet(plan)
  BY <1>1, <1>3 DEF Rest, ToSet
<1> QED BY <1>2, <1>4, <1>5 DEF CreatesIn

\* What a call of r does to the runs: its action is done with, or the run ends.
LEMMA CallOfRun ==
  ASSUME ApplierTypes, PlansInv, NEW r \in Runs, run[r].pc = "apply",
         run[r].next <= Len(run[r].plan), Continue(r) \/ Abort(r)
  PROVE  /\ run' \in [Runs -> RunRecord]
         /\ \A q \in Runs : q # r => run'[q] = run[q]
         /\ run'[r].policy = run[r].policy /\ run'[r].prune = run[r].prune
         /\ run'[r].next \in 1..Len(run'[r].plan) + 1
         /\ \/ /\ run'[r].pc = "apply" /\ run'[r].plan = run[r].plan
               /\ run'[r].next = run[r].next + 1
            \/ run'[r].pc = "failed" /\ run'[r].plan = <<>>
<1>1. run \in [Runs -> RunRecord] /\ run[r] \in RunRecord
  BY DEF ApplierTypes
<1>2. run[r].plan \in Seq(Action) /\ run[r].next \in Nat /\ Len(run[r].plan) \in Nat
  BY <1>1, LenProperties DEF RunRecord
<1>3. run[r].next \in 1..Len(run[r].plan) + 1
  BY DEF PlansInv
<1>4. CASE Continue(r)
  <2>1. run' = [run EXCEPT ![r] = [run[r] EXCEPT !.next = run[r].next + 1]]
    BY <1>1, <1>4 DEF Continue
  <2>2. [run[r] EXCEPT !.next = run[r].next + 1] \in RunRecord
    <3>1. run[r].next + 1 \in Nat
      BY <1>2
    <3> QED BY <1>1, <3>1 DEF RunRecord
  <2>3. run'[r] = [run[r] EXCEPT !.next = run[r].next + 1]
    BY <1>1, <2>1
  <2>4. run'[r].pc = run[r].pc /\ run'[r].policy = run[r].policy /\ run'[r].prune = run[r].prune
          /\ run'[r].plan = run[r].plan /\ run'[r].next = run[r].next + 1
    BY <1>1, <2>3 DEF RunRecord
  <2>5. run[r].next + 1 \in 1..Len(run[r].plan) + 1
    BY <1>2, <1>3
  <2> QED BY <1>1, <2>1, <2>2, <2>4, <2>5
<1>5. CASE Abort(r)
  <2>1. run' = [run EXCEPT ![r] = [run[r] EXCEPT !.pc = "failed", !.plan = <<>>, !.next = 1]]
    BY <1>1, <1>5 DEF Abort
  <2>2. [run[r] EXCEPT !.pc = "failed", !.plan = <<>>, !.next = 1] \in RunRecord
    <3>1. <<>> \in Seq(Action) /\ 1 \in Nat
      BY EmptySeq
    <3> QED BY <1>1, <3>1 DEF RunRecord
  <2>3. run'[r] = [run[r] EXCEPT !.pc = "failed", !.plan = <<>>, !.next = 1]
    BY <1>1, <2>1
  <2>4. run'[r].pc = "failed" /\ run'[r].policy = run[r].policy /\ run'[r].prune = run[r].prune
          /\ run'[r].plan = <<>> /\ run'[r].next = 1
    BY <1>1, <2>3 DEF RunRecord
  <2>5. 1 \in 1..Len(<<>>) + 1
    OBVIOUS
  <2> QED BY <1>1, <2>1, <2>2, <2>4, <2>5
<1> QED BY <1>4, <1>5

\* Budgets that have been made keep their name and owner, new ones may appear.
BudgetsKept ==
  \A i \in Ids : budgets[i].state # "never" =>
    /\ budgets'[i].state # "never"
    /\ budgets'[i].owner = budgets[i].owner /\ budgets'[i].name = budgets[i].name

\* Then every plan stays justified.
LEMMA PlansStayJustified ==
  ASSUME ApplierTypes, BudgetsKept, NEW p, NEW prune, NEW a \in Action, Justified(p, prune, a)
  PROVE  Justified(p, prune, a)'
<1>1. CASE a.kind \in {"update", "delete"}
  <2>1. a.id \in Ids
    BY <1>1 DEF Action
  <2>2. Target(a)'
    BY <1>1, <2>1 DEF Justified, Target, BudgetsKept
  <2> QED BY <2>2 DEF Justified
<1>2. CASE a.kind \notin {"update", "delete"}
  BY <1>2 DEF Justified
<1> QED BY <1>1, <1>2

\* A call to the gateway, with which its run goes on or ends, leaves every plan justified.
LEMMA PlansCall ==
  ASSUME ApplierTypes, PlansInv, BudgetsKept, NEW r \in Runs, run[r].pc = "apply",
         run[r].next <= Len(run[r].plan), Continue(r) \/ Abort(r)
  PROVE  PlansInv'
<1> SUFFICES ASSUME NEW q \in Runs
             PROVE  /\ \A p \in {run'[q].policy}, prune \in {run'[q].prune}, a \in ToSet(run'[q].plan) :
                         Justified(p, prune, a)'
                    /\ run'[q].next \in 1..Len(run'[q].plan) + 1
                    /\ run'[q].pc # "apply" => run'[q].plan = <<>>
  BY DEF PlansInv
<1>0. ToSet(<<>>) = {}
  BY EmptySeq DEF ToSet
<1>1. /\ run'[q].policy = run[q].policy /\ run'[q].prune = run[q].prune
      /\ run'[q].next \in 1..Len(run'[q].plan) + 1
      /\ ToSet(run'[q].plan) \subseteq ToSet(run[q].plan)
      /\ run'[q].pc # "apply" => run'[q].plan = <<>>
  BY <1>0, CallOfRun DEF PlansInv
<1>2. ToSet(run[q].plan) \subseteq Action
  <2>1. run[q].plan \in Seq(Action)
    BY DEF ApplierTypes, RunRecord
  <2> QED BY <2>1, LenProperties DEF ToSet
<1>3. \A p \in {run'[q].policy}, prune \in {run'[q].prune}, a \in ToSet(run'[q].plan) :
        a \in Action /\ Justified(p, prune, a)
  BY <1>1, <1>2 DEF PlansInv
<1>4. \A p \in {run'[q].policy}, prune \in {run'[q].prune}, a \in ToSet(run'[q].plan) :
        Justified(p, prune, a)'
  BY <1>3, PlansStayJustified
<1> QED BY <1>1, <1>4

\* Alone, a call of r keeps the rest of the invariant if what is left after it
\* is still covered, and a budget is made only for a create that is done with.
LEMMA AloneCall ==
  ASSUME ApplierInv, alone, NEW r \in Runs, run[r].pc = "apply",
         run[r].next <= Len(run[r].plan), Continue(r) \/ Abort(r),
         NEW p, NEW prune, NEW plan, NEW n, NEW T,
         p = run[r].policy, prune = run[r].prune, plan = run[r].plan, n = run[r].next,
         T = Rest(plan, n + 1),
         \A name \in Names :
           Cardinality(Found(name)') + Cardinality(CreatesIn(plan, n + 1, name))
             <= Cardinality(Found(name)) + Cardinality(CreatesIn(plan, n, name)),
         run'[r].pc = "apply" => Covered(p, prune, T)'
  PROVE  OneRun' /\ Bounded' /\ AllCovered'
<1>1. /\ \A q \in Runs : q # r => run'[q] = run[q]
      /\ run'[r].policy = p /\ run'[r].prune = prune
      /\ \/ run'[r].pc = "apply" /\ run'[r].plan = plan /\ run'[r].next = n + 1
         \/ run'[r].pc = "failed"
  BY CallOfRun DEF ApplierInv
<1>2. \A q \in Runs : run'[q].pc \in {"apply", "done"} => q = r
  <2> TAKE q \in Runs
  <2>1. run'[q].pc \in {"apply", "done"} => run[q].pc \in {"apply", "done"}
    BY <1>1
  <2> QED BY <2>1 DEF ApplierInv, OneRun
<1>3. OneRun'
  BY <1>2 DEF OneRun
<1>4. AllCovered'
  <2> SUFFICES ASSUME NEW q \in Runs, run'[q].pc \in {"apply", "done"},
                      NEW pp \in {run'[q].policy}, NEW pr \in {run'[q].prune},
                      NEW TT \in {Rest(run'[q].plan, run'[q].next)}
               PROVE  Covered(pp, pr, TT)'
    BY DEF AllCovered
  <2>1. q = r
    BY <1>2
  <2>2. run'[r].pc = "apply" /\ Rest(run'[r].plan, run'[r].next) = T
    BY <1>1, <2>1
  <2>3. pp = p /\ pr = prune /\ TT = T
    BY <1>1, <2>1, <2>2
  <2> QED BY <2>2, <2>3
<1>5. Bounded'
  <2>1. plan \in Seq(Action) /\ n \in Nat /\ n + 1 \in Nat
    BY DEF ApplierInv, ApplierTypes, RunRecord
  <2>2. \A name \in Names :
          /\ Cardinality(Found(name)') \in Nat /\ Cardinality(Found(name)) \in Nat
          /\ Cardinality(CreatesIn(plan, n, name)) \in Nat
          /\ Cardinality(CreatesIn(plan, n + 1, name)) \in Nat
    <3> TAKE name \in Names
    <3>1. IsFiniteSet(Ids)
      BY ReconcilerConstants, FS_Interval DEF Ids
    <3>2. Found(name)' \subseteq Ids
      BY DEF Found
    <3> QED BY <2>1, <3>1, <3>2, FS_Subset, FS_CardinalityType, CountsAreNat
  <2>3. \A name \in Names :
          Allowed(name, Cardinality(Found(name)) + Cardinality(CreatesIn(plan, n, name)))
    BY DEF ApplierInv, Bounded
  <2>4. \A name \in Names :
          /\ Allowed(name, Cardinality(Found(name)') + Cardinality(CreatesIn(plan, n + 1, name)))
          /\ Allowed(name, Cardinality(Found(name)'))
    <3> TAKE name \in Names
    <3>1. PICK f, c, ff, cc \in Nat :
             /\ f = Cardinality(Found(name)) /\ c = Cardinality(CreatesIn(plan, n, name))
             /\ ff = Cardinality(Found(name)') /\ cc = Cardinality(CreatesIn(plan, n + 1, name))
      BY <2>2
    <3>2. ff + cc <= f + c /\ ff <= f + c /\ ff + cc \in Nat /\ f + c \in Nat
      BY <3>1
    <3>3. Allowed(name, f + c)
      BY <2>3, <3>1
    <3> QED BY <3>1, <3>2, <3>3, FewerAllowed
  <2>5. \A q \in Runs : run'[q].pc = "apply" => run'[q].plan = plan /\ run'[q].next = n + 1
    BY <1>1, <1>2
  <2> QED BY <2>4, <2>5 DEF Bounded, Allowed, FoundAtFirst
<1> QED BY <1>3, <1>4, <1>5

-----------------------------------------------------------------------------
(* What the calls leave of what is covered *)

\* What is covered depends on the budgets and endpoints only, and what is done
\* with may be a noop.
LEMMA CoveredStays ==
  ASSUME UNCHANGED <<budgets, endpoint>>, NEW p, NEW prune, NEW T, Covered(p, prune, T)
  PROVE  Covered(p, prune, T)'
<1>1. \A name : Found(name)' = Found(name)
  BY DEF Found, Managed
<1>2. Prunable(p)' = Prunable(p)
  BY DEF Prunable, Managed
<1>3. \A name, i : IsFirst(i, name) => IsFirst(i, name)'
  BY <1>1 DEF IsFirst
<1>4. \A name : BudgetInPlace(p, name) => BudgetInPlace(p, name)'
  BY <1>3 DEF BudgetInPlace
<1>5. \A w : EndpointInPlace(p, w) => EndpointInPlace(p, w)'
  BY DEF EndpointInPlace
<1> QED BY <1>1, <1>2, <1>3, <1>4, <1>5 DEF Covered

\* A noop covers nothing.
LEMMA NoopCovers ==
  ASSUME NEW p, NEW prune, NEW T, NEW a, a.kind = "noop", Covered(p, prune, {a} \cup T)
  PROVE  Covered(p, prune, T)
<1>1. \A name, i : Act("delete", name, i) # a
  BY DEF Act
<1> QED BY <1>1 DEF Covered

\* A budget has just been written: the first of its name, or a new one when
\* there was none or when the first says what the policy does already.
LEMMA WriteCovers ==
  ASSUME NEW p, NEW prune, NEW T, NEW a \in Action, NEW name, NEW i \in Ids,
         budgets \in [Ids -> Budget], name \in NamesIn(p.budgets),
         a.kind \in {"create", "update"}, a.name = name,
         Covered(p, prune, {a} \cup T),
         budgets' = [budgets EXCEPT ![i] =
                       [state |-> "live", name |-> name, owner |-> Bundle,
                        content |-> LastEntry(p.budgets, name).content, labels |-> Labels]],
         UNCHANGED endpoint,
         \/ IsFirst(i, name)
         \/ budgets[i].state = "never" /\ Found(name) = {}
         \/ budgets[i].state = "never" /\ BudgetInPlace(p, name) /\ \A j \in Found(name) : j < i
  PROVE  Covered(p, prune, T)'
<1>1. /\ \A j \in Ids : j # i => budgets'[j] = budgets[j]
      /\ budgets'[i] = [state |-> "live", name |-> name, owner |-> Bundle,
                        content |-> LastEntry(p.budgets, name).content, labels |-> Labels]
  OBVIOUS
<1>2. i \in Nat /\ \A n : Found(n) \subseteq Nat
  BY ReconcilerConstants DEF Ids, Found
<1>3. \A n : n # name => i \notin Found(n)
  BY DEF IsFirst, Found, Managed
<1>4. \A n : n # name => Found(n)' = Found(n)
  BY <1>1, <1>3 DEF Found, Managed
<1>5. Found(name)' = Found(name) \cup {i}
  BY <1>1 DEF Found, Managed
<1>6. \A n, j : IsFirst(j, n) => IsFirst(j, n)'
  <2> SUFFICES ASSUME NEW n, NEW j, IsFirst(j, n) PROVE IsFirst(j, n)'
    OBVIOUS
  <2>1. CASE n # name
    BY <1>4, <2>1 DEF IsFirst
  <2>2. CASE n = name
    <3>1. j \in Found(name) /\ \A k \in Found(name) : j <= k
      BY <2>2 DEF IsFirst
    <3>2. j <= i
      BY <1>2, <3>1 DEF IsFirst
    <3> QED BY <1>5, <2>2, <3>1, <3>2 DEF IsFirst
  <2> QED BY <2>1, <2>2
<1>7. \A n : n # name /\ BudgetInPlace(p, n) => BudgetInPlace(p, n)'
  <2> SUFFICES ASSUME NEW n, n # name, BudgetInPlace(p, n) PROVE BudgetInPlace(p, n)'
    OBVIOUS
  <2>1. PICK j \in Ids :
          /\ IsFirst(j, n)
          /\ budgets[j].content = LastEntry(p.budgets, n).content
          /\ \/ budgets[j].labels = Labels
             \/ /\ budgets[j].labels = {}
                /\ \A k \in Entries(p.budgets, n) : p.budgets[k].content = budgets[j].content
    BY DEF BudgetInPlace
  <2>2. IsFirst(j, n)' /\ budgets'[j] = budgets[j]
    BY <1>1, <1>3, <1>6, <2>1 DEF IsFirst
  <2> QED BY <2>1, <2>2 DEF BudgetInPlace
<1>8. BudgetInPlace(p, name)'
  <2>1. CASE IsFirst(i, name) \/ Found(name) = {}
    <3>1. IsFirst(i, name)'
      <4>1. CASE IsFirst(i, name)
        BY <1>6, <4>1
      <4>2. CASE Found(name) = {}
        <5>1. Found(name)' = {i}
          BY <1>5, <4>2
        <5>2. i <= i
          BY <1>2
        <5>3. i \in Found(name)' /\ \A j \in Found(name)' : j = i
          BY <5>1
        <5> QED BY <5>2, <5>3 DEF IsFirst
      <4> QED BY <2>1, <4>1, <4>2
    <3> QED BY <1>1, <3>1 DEF BudgetInPlace
  <2>2. CASE BudgetInPlace(p, name) /\ \A j \in Found(name) : j < i
    <3>1. PICK j \in Ids :
            /\ IsFirst(j, name)
            /\ budgets[j].content = LastEntry(p.budgets, name).content
            /\ \/ budgets[j].labels = Labels
               \/ /\ budgets[j].labels = {}
                  /\ \A k \in Entries(p.budgets, name) : p.budgets[k].content = budgets[j].content
      BY <2>2 DEF BudgetInPlace
    <3>2. j # i
      BY <1>2, <2>2, <3>1 DEF IsFirst
    <3>3. IsFirst(j, name)' /\ budgets'[j] = budgets[j]
      BY <1>1, <1>6, <3>1, <3>2
    <3> QED BY <3>1, <3>3 DEF BudgetInPlace
  <2> QED BY <2>1, <2>2
<1>9. \A n : BudgetInPlace(p, n) => BudgetInPlace(p, n)'
  BY <1>7, <1>8
<1>10. \A b \in T : b.kind = "update" => IsFirst(b.id, b.name)'
  BY <1>6 DEF Covered
<1>11. \A b \in T : b.kind = "create" => Found(b.name)' = {} \/ BudgetInPlace(p, b.name)'
  <2> SUFFICES ASSUME NEW b \in T, b.kind = "create"
               PROVE  Found(b.name)' = {} \/ BudgetInPlace(p, b.name)'
    OBVIOUS
  <2>1. CASE b.name = name
    BY <1>8, <2>1
  <2>2. CASE b.name # name
    BY <1>4, <1>9, <2>2 DEF Covered
  <2> QED BY <2>1, <2>2
<1>12. \A n \in NamesIn(p.budgets) :
         BudgetInPlace(p, n)' \/ \E b \in T : b.kind \in {"create", "update"} /\ b.name = n
  BY <1>8, <1>9 DEF Covered
<1>13. prune => \A j \in Prunable(p)' : Act("delete", budgets'[j].name, j) \in T
  <2> SUFFICES ASSUME prune, NEW j \in Prunable(p)'
               PROVE  Act("delete", budgets'[j].name, j) \in T
    OBVIOUS
  <2>1. j \in Ids /\ j # i
    BY <1>1 DEF Prunable
  <2>2. budgets'[j] = budgets[j] /\ j \in Prunable(p)
    BY <1>1, <2>1 DEF Prunable, Managed
  <2>3. Act("delete", budgets[j].name, j) \in {a} \cup T
    BY <2>2 DEF Covered
  <2> QED BY <2>2, <2>3 DEF Act
<1>14. \A d \in Effective(p) :
         \/ EndpointInPlace(p, d.endpoint)'
         \/ \E b \in T : b.kind = "limits" /\ LastEntry(p.rateLimits, b.name).endpoint = d.endpoint
  <2>1. \A w : EndpointInPlace(p, w) => EndpointInPlace(p, w)'
    BY DEF EndpointInPlace
  <2> QED BY <2>1 DEF Covered
<1> QED BY <1>10, <1>11, <1>12, <1>13, <1>14 DEF Covered

\* A delete takes away a budget the policy does not name.
LEMMA DeleteCovers ==
  ASSUME NEW p, NEW prune, NEW T, NEW a \in Action, NEW i \in Ids,
         budgets \in [Ids -> Budget], a.kind = "delete", a.id = i,
         a.name \notin NamesIn(p.budgets), budgets[i].name = a.name,
         \A b \in T : b.kind \in {"create", "update"} => b.name \in NamesIn(p.budgets),
         Covered(p, prune, {a} \cup T),
         budgets' = [budgets EXCEPT ![i].state = "deleted"],
         UNCHANGED endpoint
  PROVE  Covered(p, prune, T)'
<1>1. /\ \A j \in Ids : j # i => budgets'[j] = budgets[j]
      /\ budgets'[i].state = "deleted"
  BY DEF Budget
<1>2. \A n \in NamesIn(p.budgets) : i \notin Found(n) /\ Found(n)' = Found(n)
  <2> TAKE n \in NamesIn(p.budgets)
  <2>1. i \notin Found(n) /\ i \notin Found(n)'
    BY <1>1 DEF Found, Managed
  <2>2. \A j \in Ids : j # i => (j \in Found(n) <=> j \in Found(n)')
    BY <1>1 DEF Found, Managed
  <2>3. Found(n) \subseteq Ids /\ Found(n)' \subseteq Ids
    BY DEF Found
  <2>4. \A j : j \in Found(n) <=> j \in Found(n)'
    BY <2>1, <2>2, <2>3
  <2> QED BY <2>1, <2>4
<1>3. \A n \in NamesIn(p.budgets) : \A j : IsFirst(j, n) => IsFirst(j, n)'
  BY <1>2 DEF IsFirst
<1>4. \A n \in NamesIn(p.budgets) : BudgetInPlace(p, n) => BudgetInPlace(p, n)'
  <2> SUFFICES ASSUME NEW n \in NamesIn(p.budgets), BudgetInPlace(p, n)
               PROVE  BudgetInPlace(p, n)'
    OBVIOUS
  <2>1. PICK j \in Ids :
          /\ IsFirst(j, n)
          /\ budgets[j].content = LastEntry(p.budgets, n).content
          /\ \/ budgets[j].labels = Labels
             \/ /\ budgets[j].labels = {}
                /\ \A k \in Entries(p.budgets, n) : p.budgets[k].content = budgets[j].content
    BY DEF BudgetInPlace
  <2>2. IsFirst(j, n)' /\ budgets'[j] = budgets[j]
    BY <1>1, <1>2, <1>3, <2>1 DEF IsFirst
  <2> QED BY <2>1, <2>2 DEF BudgetInPlace
<1>5. \A b \in T : b.kind = "update" => IsFirst(b.id, b.name)'
  BY <1>3 DEF Covered
<1>6. \A b \in T : b.kind = "create" => Found(b.name)' = {} \/ BudgetInPlace(p, b.name)'
  BY <1>2, <1>4 DEF Covered
<1>7. \A n \in NamesIn(p.budgets) :
        BudgetInPlace(p, n)' \/ \E b \in T : b.kind \in {"create", "update"} /\ b.name = n
  BY <1>4 DEF Covered
<1>8. prune => \A j \in Prunable(p)' : Act("delete", budgets'[j].name, j) \in T
  <2> SUFFICES ASSUME prune, NEW j \in Prunable(p)'
               PROVE  Act("delete", budgets'[j].name, j) \in T
    OBVIOUS
  <2>1. j \in Ids /\ j # i
    BY <1>1 DEF Prunable, Managed
  <2>2. budgets'[j] = budgets[j] /\ j \in Prunable(p)
    BY <1>1, <2>1 DEF Prunable, Managed
  <2>3. Act("delete", budgets[j].name, j) \in {a} \cup T
    BY <2>2 DEF Covered
  <2> QED BY <2>1, <2>2, <2>3 DEF Act
<1>9. \A d \in Effective(p) :
        \/ EndpointInPlace(p, d.endpoint)'
        \/ \E b \in T : b.kind = "limits" /\ LastEntry(p.rateLimits, b.name).endpoint = d.endpoint
  <2>1. \A w : EndpointInPlace(p, w) => EndpointInPlace(p, w)'
    BY DEF EndpointInPlace
  <2> QED BY <2>1 DEF Covered
<1> QED BY <1>5, <1>6, <1>7, <1>8, <1>9 DEF Covered

\* The limits of an effective entry have just been applied.
LEMMA LimitsCover ==
  ASSUME NEW p, NEW prune, NEW T, NEW a, NEW d \in Effective(p),
         endpoint \in [Endpoints -> Endpoint], d.endpoint \in Endpoints,
         a.kind = "limits", d = LastEntry(p.rateLimits, a.name),
         Covered(p, prune, {a} \cup T),
         endpoint' = [endpoint EXCEPT ![d.endpoint] = Merge(endpoint[d.endpoint], d)],
         UNCHANGED budgets
  PROVE  Covered(p, prune, T)'
<1>1. \A name : Found(name)' = Found(name)
  BY DEF Found, Managed
<1>2. Prunable(p)' = Prunable(p)
  BY DEF Prunable, Managed
<1>3. \A name, i : IsFirst(i, name) => IsFirst(i, name)'
  BY <1>1 DEF IsFirst
<1>4. \A name : BudgetInPlace(p, name) => BudgetInPlace(p, name)'
  BY <1>3 DEF BudgetInPlace
<1>5. \A name, i : Act("delete", name, i) # a
  BY DEF Act
<1>6. EndpointInPlace(p, d.endpoint)'
  <2>1. endpoint'[d.endpoint] = Merge(endpoint[d.endpoint], d)
    OBVIOUS
  <2>2. InForce(d, endpoint'[d.endpoint])
    BY <2>1 DEF InForce, Merge
  <2> QED BY <2>2 DEF EndpointInPlace, Effective
<1>7. \A w : w # d.endpoint /\ EndpointInPlace(p, w) => EndpointInPlace(p, w)'
  <2> SUFFICES ASSUME NEW w, w # d.endpoint, EndpointInPlace(p, w) PROVE EndpointInPlace(p, w)'
    OBVIOUS
  <2>1. endpoint'[w] = endpoint[w]
    OBVIOUS
  <2> QED BY <2>1 DEF EndpointInPlace
<1>8. \A e \in Effective(p) :
        \/ EndpointInPlace(p, e.endpoint)'
        \/ \E b \in T : b.kind = "limits" /\ LastEntry(p.rateLimits, b.name).endpoint = e.endpoint
  <2> TAKE e \in Effective(p)
  <2>1. CASE e.endpoint = d.endpoint
    BY <1>6, <2>1
  <2>2. CASE e.endpoint # d.endpoint
    BY <1>7, <2>2 DEF Covered
  <2> QED BY <2>1, <2>2
<1> QED BY <1>1, <1>2, <1>3, <1>4, <1>5, <1>8 DEF Covered

-----------------------------------------------------------------------------
(* Every step keeps the invariant *)

\* The action a that a run carries out next, of a kind it has, and the rest T
\* of its plan after it.
Taken(r, kinds, p, prune, plan, n, a, T) ==
  /\ run[r].pc = "apply" /\ run[r].next <= Len(run[r].plan)
  /\ p = run[r].policy /\ prune = run[r].prune /\ plan = run[r].plan /\ n = run[r].next
  /\ a = Current(r) /\ a.kind \in kinds /\ T = Rest(plan, n + 1)
  /\ Justified(p, prune, a) /\ \A b \in T : Justified(p, prune, b)
  /\ alone => Covered(p, prune, {a} \cup T)
  /\ \A name :
       /\ CreatesIn(plan, n + 1, name) \subseteq CreatesIn(plan, n, name)
       /\ n \notin CreatesIn(plan, n + 1, name)
       /\ a.kind = "create" /\ a.name = name => n \in CreatesIn(plan, n, name)

\* Every call takes an action that is justified from a plan that covers the policy.
LEMMA NextAction ==
  ASSUME ApplierInv, NEW r \in Runs, NEW kinds, Step(r, kinds)
  PROVE  \E p \in Policies, prune \in BOOLEAN, plan \in Seq(Action), n \in Nat,
            a \in Action, T \in SUBSET Action :
           Taken(r, kinds, p, prune, plan, n, a, T)
<1>1. PICK p, prune, plan, n, a, T :
         /\ p = run[r].policy /\ prune = run[r].prune /\ plan = run[r].plan /\ n = run[r].next
         /\ a = plan[n] /\ T = Rest(plan, n + 1)
  OBVIOUS
<1>2. run[r].pc = "apply" /\ n <= Len(plan) /\ a = Current(r) /\ a.kind \in kinds
  BY <1>1 DEF Step, Current
<1>3. p \in Policies /\ prune \in BOOLEAN /\ plan \in Seq(Action) /\ n \in Nat
  BY <1>1 DEF ApplierInv, ApplierTypes, RunRecord
<1>4. 1 <= n
  BY <1>1 DEF ApplierInv, PlansInv
<1>5. /\ Rest(plan, n) = {a} \cup T /\ Rest(plan, n) \subseteq ToSet(plan)
      /\ a \in Action /\ a \in ToSet(plan)
      /\ \A name :
           /\ CreatesIn(plan, n + 1, name) \subseteq CreatesIn(plan, n, name)
           /\ n \notin CreatesIn(plan, n + 1, name)
           /\ a.kind = "create" /\ a.name = name => n \in CreatesIn(plan, n, name)
  <2>1. /\ Rest(plan, n) = {plan[n]} \cup Rest(plan, n + 1)
        /\ Rest(plan, n) \subseteq ToSet(plan) /\ plan[n] \in Action /\ plan[n] \in ToSet(plan)
        /\ \A name :
             /\ CreatesIn(plan, n + 1, name) \subseteq CreatesIn(plan, n, name)
             /\ n \notin CreatesIn(plan, n + 1, name)
             /\ plan[n].kind = "create" /\ plan[n].name = name => n \in CreatesIn(plan, n, name)
    BY <1>2, <1>3, <1>4, RestOfPlan
  <2> QED BY <1>1, <2>1
<1>6. Justified(p, prune, a) /\ \A b \in T : Justified(p, prune, b)
  <2>1. \A b \in ToSet(plan) : Justified(p, prune, b)
    BY <1>1 DEF ApplierInv, PlansInv
  <2> QED BY <1>5, <2>1
<1>7. alone => Covered(p, prune, {a} \cup T)
  BY <1>1, <1>2, <1>5 DEF ApplierInv, AllCovered
<1>8. Taken(r, kinds, p, prune, plan, n, a, T)
  BY <1>1, <1>2, <1>5, <1>6, <1>7 DEF Taken
<1>9. T \in SUBSET Action
  BY <1>3, <1>5 DEF ToSet
<1> QED BY <1>3, <1>5, <1>8, <1>9

\* A call that makes no budget stays within the bound.
LEMMA NoNewBudget ==
  ASSUME NEW plan \in Seq(Action), NEW n \in Nat,
         \A name : CreatesIn(plan, n + 1, name) \subseteq CreatesIn(plan, n, name),
         \A name \in Names : Found(name)' \subseteq Found(name)
  PROVE  \A name \in Names :
           Cardinality(Found(name)') + Cardinality(CreatesIn(plan, n + 1, name))
             <= Cardinality(Found(name)) + Cardinality(CreatesIn(plan, n, name))
<1> TAKE name \in Names
<1>1. /\ IsFiniteSet(Found(name)) /\ Cardinality(Found(name)) \in Nat
      /\ IsFiniteSet(CreatesIn(plan, n, name)) /\ Cardinality(CreatesIn(plan, n, name)) \in Nat
  BY CountsAreNat
<1>2. Cardinality(Found(name)') <= Cardinality(Found(name)) /\ Cardinality(Found(name)') \in Nat
  BY <1>1, FS_Subset, FS_CardinalityType
<1>3. /\ Cardinality(CreatesIn(plan, n + 1, name)) <= Cardinality(CreatesIn(plan, n, name))
      /\ Cardinality(CreatesIn(plan, n + 1, name)) \in Nat
  BY <1>1, FS_Subset, FS_CardinalityType
<1> QED BY <1>1, <1>2, <1>3

\* What is written for a name is a budget.
LEMMA PayloadIsBudget ==
  ASSUME ApplierTypes, NEW r \in Runs, NEW p \in Policies, p = run[r].policy,
         NEW name \in NamesIn(p.budgets)
  PROVE  /\ Payload(r, name) = [state |-> "live", name |-> name, owner |-> Bundle,
                                content |-> LastEntry(p.budgets, name).content, labels |-> Labels]
         /\ Payload(r, name) \in Budget
<1>1. p.budgets \in Seq(BudgetEntry)
  BY ReconcilerConstants DEF IsPolicy
<1>2. PICK k \in Entries(p.budgets, name) : LastEntry(p.budgets, name) = p.budgets[k]
  BY <1>1, LastIsEntry
<1>3. p.budgets[k] \in BudgetEntry /\ p.budgets[k].name = name
  BY <1>1, <1>2, LenProperties DEF Entries
<1>4. LastEntry(p.budgets, name).content \in Contents /\ name \in Names
  BY <1>2, <1>3 DEF BudgetEntry
<1>5. Payload(r, name) = [state |-> "live", name |-> name, owner |-> Bundle,
                          content |-> LastEntry(p.budgets, name).content, labels |-> Labels]
  BY DEF Payload
<1> QED BY <1>4, <1>5 DEF Budget

\* Creating a budget.
LEMMA CreateKeeps == ASSUME ApplierInv, NEW r \in Runs, CreateBudget(r) PROVE ApplierInv'
<1>0. Step(r, {"create"})
  BY DEF CreateBudget
<1>a. PICK p \in Policies, prune \in BOOLEAN, plan \in Seq(Action), n \in Nat,
           a \in Action, T \in SUBSET Action :
         Taken(r, {"create"}, p, prune, plan, n, a, T)
  BY <1>0, NextAction
<1>1. /\ run[r].pc = "apply" /\ run[r].next <= Len(run[r].plan)
      /\ p = run[r].policy /\ prune = run[r].prune /\ plan = run[r].plan /\ n = run[r].next
      /\ a = Current(r) /\ a.kind = "create" /\ T = Rest(plan, n + 1)
      /\ Justified(p, prune, a)
      /\ alone => Covered(p, prune, {a} \cup T)
      /\ \A name :
           /\ CreatesIn(plan, n + 1, name) \subseteq CreatesIn(plan, n, name)
           /\ n \notin CreatesIn(plan, n + 1, name)
           /\ a.name = name => n \in CreatesIn(plan, n, name)
  BY <1>a DEF Taken
<1>2. PICK i \in Ids : /\ \A j \in Ids : j < i <=> budgets[j].state # "never"
                       /\ budgets' = [budgets EXCEPT ![i] = Payload(r, a.name)]
  BY <1>1 DEF CreateBudget
<1>3. (Continue(r) \/ Abort(r)) /\ UNCHANGED <<policy, endpoint, started, alone>>
  BY DEF CreateBudget
<1>4. ApplierTypes /\ PlansInv /\ budgets \in [Ids -> Budget]
  BY DEF ApplierInv, ApplierTypes
<1>5. a.name \in NamesIn(p.budgets)
  BY <1>1 DEF Justified
<1>6. /\ Payload(r, a.name) = [state |-> "live", name |-> a.name, owner |-> Bundle,
                               content |-> LastEntry(p.budgets, a.name).content, labels |-> Labels]
      /\ Payload(r, a.name) \in Budget
  BY <1>1, <1>4, <1>5, PayloadIsBudget
<1>7. budgets[i].state = "never"
  BY <1>2, ReconcilerConstants DEF Ids
<1>8. ApplierTypes'
  <2>1. run' \in [Runs -> RunRecord]
    BY <1>1, <1>3, <1>4, CallOfRun
  <2>2. budgets' \in [Ids -> Budget]
    BY <1>2, <1>4, <1>6
  <2> QED BY <1>3, <1>4, <2>1, <2>2 DEF ApplierTypes
<1>9. PlansInv'
  <2>1. BudgetsKept
    BY <1>2, <1>4, <1>7 DEF BudgetsKept
  <2> QED BY <1>1, <1>3, <1>4, <2>1, PlansCall
<1>10. ASSUME alone PROVE OneRun' /\ Bounded' /\ AllCovered'
  <2>1. \A name : \A j \in Found(name) : j < i /\ j # i
    BY <1>2, <1>7 DEF Found, Managed
  <2>2. Covered(p, prune, T)'
    <3>1. Found(a.name) = {} \/ BudgetInPlace(p, a.name)
      BY <1>1, <1>10 DEF Covered
    <3>2. budgets' = [budgets EXCEPT ![i] =
                        [state |-> "live", name |-> a.name, owner |-> Bundle,
                         content |-> LastEntry(p.budgets, a.name).content, labels |-> Labels]]
      BY <1>2, <1>6
    <3> QED BY <1>1, <1>3, <1>4, <1>5, <1>7, <1>10, <2>1, <3>1, <3>2, WriteCovers
  <2>3. \A name \in Names :
          Cardinality(Found(name)') + Cardinality(CreatesIn(plan, n + 1, name))
            <= Cardinality(Found(name)) + Cardinality(CreatesIn(plan, n, name))
    <3> TAKE name \in Names
    <3>1. /\ IsFiniteSet(Found(name)) /\ Cardinality(Found(name)) \in Nat
          /\ IsFiniteSet(CreatesIn(plan, n, name)) /\ Cardinality(CreatesIn(plan, n, name)) \in Nat
      BY CountsAreNat
    <3>2. /\ IsFiniteSet(CreatesIn(plan, n + 1, name))
          /\ Cardinality(CreatesIn(plan, n + 1, name)) \in Nat
          /\ Cardinality(CreatesIn(plan, n + 1, name)) <= Cardinality(CreatesIn(plan, n, name))
      BY <1>1, <3>1, FS_Subset, FS_CardinalityType
    <3>3. CASE name = a.name
      <4>1. Found(name)' = Found(name) \cup {i} /\ i \notin Found(name)
        BY <1>2, <1>4, <1>6, <2>1, <3>3 DEF Found, Managed
      <4>2. Cardinality(Found(name)') = Cardinality(Found(name)) + 1
        BY <3>1, <4>1, FS_AddElement
      <4>3. Cardinality(CreatesIn(plan, n + 1, name) \cup {n}) = Cardinality(CreatesIn(plan, n + 1, name)) + 1
        BY <1>1, <3>2, FS_AddElement
      <4>4. Cardinality(CreatesIn(plan, n + 1, name) \cup {n}) <= Cardinality(CreatesIn(plan, n, name))
        BY <1>1, <3>1, <3>3, FS_Subset
      <4> QED BY <3>1, <3>2, <4>2, <4>3, <4>4
    <3>4. CASE name # a.name
      <4>1. Found(name)' = Found(name)
        BY <1>2, <1>4, <1>6, <1>7, <3>4 DEF Found, Managed
      <4> QED BY <3>1, <3>2, <4>1
    <3> QED BY <3>3, <3>4
  <2> QED BY <1>1, <1>3, <1>10, <2>2, <2>3, AloneCall
<1> QED BY <1>3, <1>8, <1>9, <1>10 DEF ApplierInv

\* Updating a budget, or failing because it is gone.
LEMMA UpdateKeeps == ASSUME ApplierInv, NEW r \in Runs, UpdateBudget(r) PROVE ApplierInv'
<1>0. Step(r, {"update"})
  BY DEF UpdateBudget
<1>a. PICK p \in Policies, prune \in BOOLEAN, plan \in Seq(Action), n \in Nat,
           a \in Action, T \in SUBSET Action :
         Taken(r, {"update"}, p, prune, plan, n, a, T)
  BY <1>0, NextAction
<1>1. /\ run[r].pc = "apply" /\ run[r].next <= Len(run[r].plan)
      /\ p = run[r].policy /\ prune = run[r].prune /\ plan = run[r].plan /\ n = run[r].next
      /\ a = Current(r) /\ a.kind = "update" /\ T = Rest(plan, n + 1)
      /\ Justified(p, prune, a)
      /\ alone => Covered(p, prune, {a} \cup T)
      /\ \A name : CreatesIn(plan, n + 1, name) \subseteq CreatesIn(plan, n, name)
  BY <1>a DEF Taken
<1>2. /\ \/ budgets' = [budgets EXCEPT ![a.id] = Payload(r, a.name)]
         \/ Abort(r) /\ budgets' = budgets
      /\ (Continue(r) \/ Abort(r)) /\ UNCHANGED <<policy, endpoint, started, alone>>
  BY <1>1 DEF UpdateBudget
<1>3. ApplierTypes /\ PlansInv /\ budgets \in [Ids -> Budget]
  BY DEF ApplierInv, ApplierTypes
<1>4. a.name \in NamesIn(p.budgets) /\ Target(a) /\ a.id \in Ids
  BY <1>1 DEF Justified, Action
<1>5. /\ Payload(r, a.name) = [state |-> "live", name |-> a.name, owner |-> Bundle,
                               content |-> LastEntry(p.budgets, a.name).content, labels |-> Labels]
      /\ Payload(r, a.name) \in Budget
  BY <1>1, <1>3, <1>4, PayloadIsBudget
<1>6. ApplierTypes'
  <2>1. run' \in [Runs -> RunRecord]
    BY <1>1, <1>2, <1>3, CallOfRun
  <2>2. budgets' \in [Ids -> Budget]
    BY <1>2, <1>3, <1>5
  <2> QED BY <1>2, <1>3, <2>1, <2>2 DEF ApplierTypes
<1>7. PlansInv'
  <2>1. BudgetsKept
    BY <1>2, <1>3, <1>4, <1>5 DEF BudgetsKept, Target
  <2> QED BY <1>1, <1>2, <1>3, <2>1, PlansCall
<1>8. ASSUME alone PROVE OneRun' /\ Bounded' /\ AllCovered'
  <2>1. IsFirst(a.id, a.name)
    BY <1>1, <1>8 DEF Covered
  <2>2. \A name : Found(name)' \subseteq Found(name)
    BY <1>2, <1>3, <1>5, <2>1 DEF IsFirst, Found, Managed
  <2>3. run'[r].pc = "apply" => Covered(p, prune, T)'
    <3> SUFFICES ASSUME run'[r].pc = "apply" PROVE Covered(p, prune, T)'
      OBVIOUS
    <3>1. ~ Abort(r)
      BY <1>3 DEF Abort, ApplierTypes, RunRecord
    <3>2. budgets' = [budgets EXCEPT ![a.id] =
                        [state |-> "live", name |-> a.name, owner |-> Bundle,
                         content |-> LastEntry(p.budgets, a.name).content, labels |-> Labels]]
      BY <1>2, <1>5, <3>1
    <3> QED BY <1>1, <1>2, <1>3, <1>4, <1>8, <2>1, <3>2, WriteCovers
  <2> QED BY <1>1, <1>2, <1>8, <2>2, <2>3, NoNewBudget, AloneCall
<1> QED BY <1>2, <1>6, <1>7, <1>8 DEF ApplierInv

\* Deleting a budget, or failing because it is gone.
LEMMA DeleteKeeps == ASSUME ApplierInv, NEW r \in Runs, DeleteBudget(r) PROVE ApplierInv'
<1>0. Step(r, {"delete"})
  BY DEF DeleteBudget
<1>a. PICK p \in Policies, prune \in BOOLEAN, plan \in Seq(Action), n \in Nat,
           a \in Action, T \in SUBSET Action :
         Taken(r, {"delete"}, p, prune, plan, n, a, T)
  BY <1>0, NextAction
<1>1. /\ run[r].pc = "apply" /\ run[r].next <= Len(run[r].plan)
      /\ p = run[r].policy /\ prune = run[r].prune /\ plan = run[r].plan /\ n = run[r].next
      /\ a = Current(r) /\ a.kind = "delete" /\ T = Rest(plan, n + 1)
      /\ Justified(p, prune, a) /\ \A b \in T : Justified(p, prune, b)
      /\ alone => Covered(p, prune, {a} \cup T)
      /\ \A name : CreatesIn(plan, n + 1, name) \subseteq CreatesIn(plan, n, name)
  BY <1>a DEF Taken
<1>2. /\ \/ budgets' = [budgets EXCEPT ![a.id].state = "deleted"]
         \/ Abort(r) /\ budgets' = budgets
      /\ (Continue(r) \/ Abort(r)) /\ UNCHANGED <<policy, endpoint, started, alone>>
  BY <1>1 DEF DeleteBudget
<1>3. ApplierTypes /\ PlansInv /\ budgets \in [Ids -> Budget]
  BY DEF ApplierInv, ApplierTypes
<1>4. a.name \notin NamesIn(p.budgets) /\ Target(a) /\ a.id \in Ids
  BY <1>1 DEF Justified, Action
<1>5. ApplierTypes'
  <2>1. run' \in [Runs -> RunRecord]
    BY <1>1, <1>2, <1>3, CallOfRun
  <2>2. [budgets[a.id] EXCEPT !.state = "deleted"] \in Budget
    BY <1>3, <1>4 DEF Budget
  <2>3. budgets' \in [Ids -> Budget]
    BY <1>2, <1>3, <2>2
  <2> QED BY <1>2, <1>3, <2>1, <2>3 DEF ApplierTypes
<1>6. PlansInv'
  <2>1. \A i \in Ids : /\ budgets'[i].owner = budgets[i].owner /\ budgets'[i].name = budgets[i].name
                       /\ budgets'[i].state \in {budgets[i].state, "deleted"}
    BY <1>2, <1>3 DEF Budget
  <2>2. BudgetsKept
    BY <2>1 DEF BudgetsKept
  <2> QED BY <1>1, <1>2, <1>3, <2>2, PlansCall
<1>7. ASSUME alone PROVE OneRun' /\ Bounded' /\ AllCovered'
  <2>1. \A name : Found(name)' \subseteq Found(name)
    BY <1>2, <1>3 DEF Found, Managed, Budget
  <2>2. run'[r].pc = "apply" => Covered(p, prune, T)'
    <3> SUFFICES ASSUME run'[r].pc = "apply" PROVE Covered(p, prune, T)'
      OBVIOUS
    <3>1. ~ Abort(r)
      BY <1>3 DEF Abort, ApplierTypes, RunRecord
    <3>2. budgets' = [budgets EXCEPT ![a.id].state = "deleted"] /\ UNCHANGED endpoint
      BY <1>2, <3>1
    <3>3. \A b \in T : b.kind \in {"create", "update"} => b.name \in NamesIn(p.budgets)
      BY <1>1 DEF Justified
    <3>4. budgets[a.id].name = a.name
      BY <1>4 DEF Target
    <3> QED BY <1>1, <1>3, <1>4, <1>7, <3>2, <3>3, <3>4, DeleteCovers
  <2> QED BY <1>1, <1>2, <1>7, <2>1, <2>2, NoNewBudget, AloneCall
<1> QED BY <1>2, <1>5, <1>6, <1>7 DEF ApplierInv

\* Applying the limits of an entry.
LEMMA LimitsKeep == ASSUME ApplierInv, NEW r \in Runs, ApplyLimits(r) PROVE ApplierInv'
<1>0. Step(r, {"limits"})
  BY DEF ApplyLimits
<1>a. PICK p \in Policies, prune \in BOOLEAN, plan \in Seq(Action), n \in Nat,
           a \in Action, T \in SUBSET Action :
         Taken(r, {"limits"}, p, prune, plan, n, a, T)
  BY <1>0, NextAction
<1>1. /\ run[r].pc = "apply" /\ run[r].next <= Len(run[r].plan)
      /\ p = run[r].policy /\ prune = run[r].prune /\ plan = run[r].plan /\ n = run[r].next
      /\ a = Current(r) /\ a.kind = "limits" /\ T = Rest(plan, n + 1)
      /\ Justified(p, prune, a)
      /\ alone => Covered(p, prune, {a} \cup T)
      /\ \A name : CreatesIn(plan, n + 1, name) \subseteq CreatesIn(plan, n, name)
  BY <1>a DEF Taken
<1>2. PICK d : d = LastEntry(p.rateLimits, a.name)
  OBVIOUS
<1>3. /\ endpoint' = [endpoint EXCEPT ![d.endpoint] = Merge(endpoint[d.endpoint], d)]
      /\ (Continue(r) \/ Abort(r)) /\ UNCHANGED <<policy, budgets, started, alone>>
  BY <1>1, <1>2 DEF ApplyLimits
<1>4. ApplierTypes /\ PlansInv /\ endpoint \in [Endpoints -> Endpoint]
  BY DEF ApplierInv, ApplierTypes
<1>5. d \in LimitEntry /\ d \in Effective(p)
  <2>1. p.rateLimits \in Seq(LimitEntry) /\ a.name \in NamesIn(p.rateLimits)
    BY <1>1, ReconcilerConstants DEF IsPolicy, Justified
  <2>2. PICK k \in Entries(p.rateLimits, a.name) : d = p.rateLimits[k]
    BY <1>2, <2>1, LastIsEntry
  <2>3. d \in LimitEntry
    BY <2>1, <2>2, LenProperties DEF Entries
  <2> QED BY <1>2, <2>1, <2>3 DEF Effective
<1>6. ApplierTypes'
  <2>1. run' \in [Runs -> RunRecord]
    BY <1>1, <1>3, <1>4, CallOfRun
  <2>2. Merge(endpoint[d.endpoint], d) \in Endpoint
    BY <1>4, <1>5 DEF Merge, LimitEntry, Endpoint
  <2>3. endpoint' \in [Endpoints -> Endpoint]
    BY <1>3, <1>4, <2>2
  <2> QED BY <1>3, <1>4, <2>1, <2>3 DEF ApplierTypes
<1>7. PlansInv'
  <2>1. BudgetsKept
    BY <1>3 DEF BudgetsKept
  <2> QED BY <1>1, <1>3, <1>4, <2>1, PlansCall
<1>8. ASSUME alone PROVE OneRun' /\ Bounded' /\ AllCovered'
  <2>1. \A name : Found(name)' \subseteq Found(name)
    BY <1>3 DEF Found, Managed
  <2>2. Covered(p, prune, T)'
    <3>1. d.endpoint \in Endpoints
      BY <1>5 DEF LimitEntry
    <3> QED BY <1>1, <1>2, <1>3, <1>4, <1>5, <1>8, <3>1, LimitsCover
  <2> QED BY <1>1, <1>3, <1>8, <2>1, <2>2, NoNewBudget, AloneCall
<1> QED BY <1>3, <1>6, <1>7, <1>8 DEF ApplierInv

\* Skipping what is as it should be.
LEMMA SkipKeeps == ASSUME ApplierInv, NEW r \in Runs, Skip(r) PROVE ApplierInv'
<1>0. Step(r, {"noop"})
  BY DEF Skip
<1>a. PICK p \in Policies, prune \in BOOLEAN, plan \in Seq(Action), n \in Nat,
           a \in Action, T \in SUBSET Action :
         Taken(r, {"noop"}, p, prune, plan, n, a, T)
  BY <1>0, NextAction
<1>1. /\ run[r].pc = "apply" /\ run[r].next <= Len(run[r].plan)
      /\ p = run[r].policy /\ prune = run[r].prune /\ plan = run[r].plan /\ n = run[r].next
      /\ a.kind = "noop" /\ T = Rest(plan, n + 1)
      /\ alone => Covered(p, prune, {a} \cup T)
      /\ \A name : CreatesIn(plan, n + 1, name) \subseteq CreatesIn(plan, n, name)
  BY <1>a DEF Taken
<1>2. Continue(r) /\ UNCHANGED <<policy, budgets, endpoint, started, alone>>
  BY DEF Skip
<1>3. ApplierTypes /\ PlansInv
  BY DEF ApplierInv
<1>4. ApplierTypes'
  <2>1. run' \in [Runs -> RunRecord]
    BY <1>1, <1>2, <1>3, CallOfRun
  <2> QED BY <1>2, <1>3, <2>1 DEF ApplierTypes
<1>5. PlansInv'
  <2>1. BudgetsKept
    BY <1>2 DEF BudgetsKept
  <2> QED BY <1>1, <1>2, <1>3, <2>1, PlansCall
<1>6. ASSUME alone PROVE OneRun' /\ Bounded' /\ AllCovered'
  <2>1. \A name : Found(name)' \subseteq Found(name)
    BY <1>2 DEF Found, Managed
  <2>2. Covered(p, prune, T)
    BY <1>1, <1>6, NoopCovers
  <2>3. Covered(p, prune, T)'
    BY <1>2, <2>2, CoveredStays
  <2> QED BY <1>1, <1>2, <1>6, <2>1, <2>3, NoNewBudget, AloneCall
<1> QED BY <1>2, <1>4, <1>5, <1>6 DEF ApplierInv

\* Failing at any action.
LEMMA FailKeeps == ASSUME ApplierInv, NEW r \in Runs, Fails(r) PROVE ApplierInv'
<1> DEFINE kinds == {"create", "update", "delete", "limits"}
<1>0. Step(r, kinds)
  BY DEF Fails
<1> HIDE DEF kinds
<1>a. PICK p \in Policies, prune \in BOOLEAN, plan \in Seq(Action), n \in Nat,
           a \in Action, T \in SUBSET Action :
         Taken(r, kinds, p, prune, plan, n, a, T)
  BY <1>0, NextAction
<1>1. /\ run[r].pc = "apply" /\ run[r].next <= Len(run[r].plan)
      /\ p = run[r].policy /\ prune = run[r].prune /\ plan = run[r].plan /\ n = run[r].next
      /\ T = Rest(plan, n + 1)
      /\ \A name : CreatesIn(plan, n + 1, name) \subseteq CreatesIn(plan, n, name)
  BY <1>a DEF Taken
<1>2. Abort(r) /\ UNCHANGED <<policy, budgets, endpoint, started, alone>>
  BY DEF Fails
<1>3. ApplierTypes /\ PlansInv
  BY DEF ApplierInv
<1>4. ApplierTypes'
  <2>1. run' \in [Runs -> RunRecord]
    BY <1>1, <1>2, <1>3, CallOfRun
  <2> QED BY <1>2, <1>3, <2>1 DEF ApplierTypes
<1>5. PlansInv'
  <2>1. BudgetsKept
    BY <1>2 DEF BudgetsKept
  <2> QED BY <1>1, <1>2, <1>3, <2>1, PlansCall
<1>6. ASSUME alone PROVE OneRun' /\ Bounded' /\ AllCovered'
  <2>1. \A name : Found(name)' \subseteq Found(name)
    BY <1>2 DEF Found, Managed
  <2>2. run'[r].pc # "apply"
    BY <1>2, <1>3 DEF Abort, ApplierTypes, RunRecord
  <2> QED BY <1>1, <1>2, <1>6, <2>1, <2>2, NoNewBudget, AloneCall
<1> QED BY <1>2, <1>4, <1>5, <1>6 DEF ApplierInv

\* The counts of budgets depend on the budgets only.
LEMMA FoundStays == ASSUME UNCHANGED budgets PROVE \A name : Found(name)' = Found(name)
  BY DEF Found, Managed

\* Ending a run whose plan is carried out.
LEMMA FinishKeeps == ASSUME ApplierInv, NEW r \in Runs, Finish(r) PROVE ApplierInv'
<1>1. /\ run[r].pc = "apply" /\ run[r].next > Len(run[r].plan)
      /\ run' = [run EXCEPT ![r] = [run[r] EXCEPT !.pc = "done", !.plan = <<>>, !.next = 1]]
      /\ UNCHANGED <<policy, budgets, endpoint, started, alone>>
  BY DEF Finish, ApplierInv, ApplierTypes
<1>2. run \in [Runs -> RunRecord] /\ run[r] \in RunRecord
  BY DEF ApplierInv, ApplierTypes
<1>3. /\ run'[r].pc = "done" /\ run'[r].policy = run[r].policy /\ run'[r].prune = run[r].prune
      /\ run'[r].plan = <<>> /\ run'[r].next = 1
      /\ \A q \in Runs : q # r => run'[q] = run[q]
  BY <1>1, <1>2 DEF RunRecord
<1>4. ApplierTypes'
  <2>1. [run[r] EXCEPT !.pc = "done", !.plan = <<>>, !.next = 1] \in RunRecord
    <3>1. <<>> \in Seq(Action) /\ 1 \in Nat
      BY EmptySeq
    <3> QED BY <1>2, <3>1 DEF RunRecord
  <2>2. run' \in [Runs -> RunRecord]
    BY <1>1, <1>2, <2>1
  <2> QED BY <1>1, <2>2 DEF ApplierInv, ApplierTypes
<1>5. PlansInv'
  <2>1. \A p, pr, a : Justified(p, pr, a) => Justified(p, pr, a)'
    BY <1>1 DEF Justified, Target
  <2>2. SUFFICES ASSUME NEW q \in Runs
                 PROVE  /\ \A p \in {run'[q].policy}, pr \in {run'[q].prune}, a \in ToSet(run'[q].plan) :
                             Justified(p, pr, a)'
                        /\ run'[q].next \in 1..Len(run'[q].plan) + 1
                        /\ run'[q].pc # "apply" => run'[q].plan = <<>>
    BY DEF PlansInv
  <2>3. CASE q = r
    <3>1. ToSet(<<>>) = {}
      BY EmptySeq DEF ToSet
    <3>2. 1 \in 1..Len(<<>>) + 1
      OBVIOUS
    <3> QED BY <1>3, <2>3, <3>1, <3>2
  <2>4. CASE q # r
    <3>1. run'[q] = run[q]
      BY <1>3, <2>4
    <3> QED BY <2>1, <3>1 DEF ApplierInv, PlansInv
  <2> QED BY <2>3, <2>4
<1>6. ASSUME alone PROVE OneRun' /\ Bounded' /\ AllCovered'
  <2>1. \A q \in Runs : run'[q].pc \in {"apply", "done"} => q = r
    <3>1. OneRun
      BY <1>6 DEF ApplierInv
    <3> QED BY <1>1, <1>3, <3>1 DEF OneRun
  <2>2. \A q \in Runs : run'[q].pc # "apply"
    BY <1>3, <2>1
  <2>3. OneRun'
    BY <2>2 DEF OneRun
  <2>4. Bounded'
    BY <1>1, <1>6, <2>2, FoundStays DEF ApplierInv, Bounded, Allowed, FoundAtFirst
  <2>5. \A p, pr, T : Covered(p, pr, T) => Covered(p, pr, T)'
    BY <1>1, CoveredStays
  <2>6. Rest(run[r].plan, run[r].next) = {} /\ Rest(<<>>, 1) = {}
    <3>1. run[r].next \in Nat /\ Len(run[r].plan) \in Nat
      BY <1>2, LenProperties DEF RunRecord
    <3>2. run[r].next..Len(run[r].plan) = {} /\ 1..Len(<<>>) = {}
      BY <1>1, <3>1
    <3> QED BY <3>2 DEF Rest
  <2>7. AllCovered'
    <3> SUFFICES ASSUME NEW q \in Runs, run'[q].pc \in {"apply", "done"},
                        NEW p \in {run'[q].policy}, NEW pr \in {run'[q].prune},
                        NEW T \in {Rest(run'[q].plan, run'[q].next)}
                 PROVE  Covered(p, pr, T)'
      BY DEF AllCovered
    <3>1. p = run[r].policy /\ pr = run[r].prune /\ T = Rest(run[r].plan, run[r].next)
      BY <1>3, <2>1, <2>6
    <3>2. Covered(p, pr, T)
      BY <1>1, <1>6, <3>1 DEF ApplierInv, AllCovered
    <3> QED BY <2>5, <3>2
  <2> QED BY <2>3, <2>4, <2>7
<1> QED BY <1>1, <1>4, <1>5, <1>6 DEF ApplierInv

\* Planning, alone or while another run applies its plan.
LEMMA StartKeeps == ASSUME ApplierInv, NEW r \in Runs, StartRun(r) PROVE ApplierInv'
<1>1. PICK prune \in BOOLEAN, failed \in SUBSET Endpoints :
        run' = [q \in Runs |->
          IF q = r THEN [pc |-> "apply", policy |-> policy, prune |-> prune,
                         plan |-> Plan(policy, prune, failed), next |-> 1]
          ELSE [run[q] EXCEPT !.pc = IF @ = "apply" THEN @ ELSE "idle"]]
  BY DEF StartRun
<1>2. PICK p, plan : p = policy /\ plan = Plan(p, prune, failed)
  OBVIOUS
<1>3. /\ started < MaxRuns /\ started' = started + 1
      /\ alone' = (alone /\ \A q \in Runs : run[q].pc # "apply")
      /\ UNCHANGED <<policy, budgets, endpoint>>
  BY DEF StartRun
<1>4. ApplierTypes /\ p \in Policies /\ run \in [Runs -> RunRecord]
  BY <1>2 DEF ApplierInv, ApplierTypes
<1>5. plan \in Seq(Action)
  BY <1>2, <1>4, PlanElements
<1>6. /\ run'[r] = [pc |-> "apply", policy |-> p, prune |-> prune, plan |-> plan, next |-> 1]
      /\ \A q \in Runs : q # r =>
           /\ run'[q] \in RunRecord
           /\ run'[q].pc = IF run[q].pc = "apply" THEN "apply" ELSE "idle"
           /\ run'[q].policy = run[q].policy /\ run'[q].prune = run[q].prune
           /\ run'[q].plan = run[q].plan /\ run'[q].next = run[q].next
  BY <1>1, <1>2, <1>4 DEF RunRecord
<1>7. ApplierTypes'
  <2>1. run'[r] \in RunRecord
    BY <1>4, <1>5, <1>6 DEF RunRecord
  <2>2. run' \in [Runs -> RunRecord]
    <3>1. DOMAIN run' = Runs /\ run' = [q \in DOMAIN run' |-> run'[q]]
      BY <1>1
    <3> QED BY <1>6, <2>1, <3>1
  <2>3. started' \in 0..MaxRuns /\ alone' \in BOOLEAN
    BY <1>3, <1>4, ReconcilerConstants DEF ApplierTypes
  <2> QED BY <1>3, <1>4, <2>2, <2>3 DEF ApplierTypes
<1>8. PlansInv'
  <2>1. \A pp, pr, a : Justified(pp, pr, a) => Justified(pp, pr, a)'
    BY <1>3 DEF Justified, Target
  <2>2. SUFFICES ASSUME NEW q \in Runs
                 PROVE  /\ \A pp \in {run'[q].policy}, pr \in {run'[q].prune}, a \in ToSet(run'[q].plan) :
                             Justified(pp, pr, a)'
                        /\ run'[q].next \in 1..Len(run'[q].plan) + 1
                        /\ run'[q].pc # "apply" => run'[q].plan = <<>>
    BY DEF PlansInv
  <2>3. CASE q = r
    <3>1. \A a \in ToSet(plan) : Justified(p, prune, a)
      BY <1>2, <1>4, PlanIsJustified
    <3>2. 1 \in 1..Len(plan) + 1
      BY <1>5, LenProperties
    <3> QED BY <1>6, <2>1, <2>3, <3>1, <3>2
  <2>4. CASE q # r
    <3>1. /\ run'[q].policy = run[q].policy /\ run'[q].prune = run[q].prune
          /\ run'[q].plan = run[q].plan /\ run'[q].next = run[q].next
          /\ run'[q].pc # "apply" => run[q].pc # "apply"
      BY <1>6, <2>4
    <3> QED BY <2>1, <3>1 DEF ApplierInv, PlansInv
  <2> QED BY <2>3, <2>4
<1>9. ASSUME alone' PROVE OneRun' /\ Bounded' /\ AllCovered'
  <2>1. alone /\ \A q \in Runs : run'[q].pc \in {"apply", "done"} => q = r
    BY <1>3, <1>6, <1>9
  <2>2. OneRun'
    BY <2>1 DEF OneRun
  <2>3. Bounded'
    <3>1. \A name \in Names :
            /\ Allowed(name, Cardinality(Found(name)))
            /\ Allowed(name, Cardinality(Found(name)) + Cardinality(CreatesIn(plan, 1, name)))
      BY <1>2, <1>4, <2>1, PlanIsBounded DEF ApplierInv, Bounded
    <3>2. \A q \in Runs : run'[q].pc = "apply" => run'[q].plan = plan /\ run'[q].next = 1
      BY <1>6, <2>1
    <3> QED BY <1>3, <3>1, <3>2, FoundStays DEF Bounded, Allowed, FoundAtFirst
  <2>4. AllCovered'
    <3> SUFFICES ASSUME NEW q \in Runs, run'[q].pc \in {"apply", "done"},
                        NEW pp \in {run'[q].policy}, NEW pr \in {run'[q].prune},
                        NEW T \in {Rest(run'[q].plan, run'[q].next)}
                 PROVE  Covered(pp, pr, T)'
      BY DEF AllCovered
    <3>1. pp = p /\ pr = prune /\ T = ToSet(plan)
      BY <1>5, <1>6, <2>1, RestOfAll
    <3>2. Covered(pp, pr, T)
      BY <1>2, <1>4, <3>1, PlanCovers
    <3> QED BY <1>3, <3>2, CoveredStays
  <2> QED BY <2>2, <2>3, <2>4
<1> QED BY <1>7, <1>8, <1>9 DEF ApplierInv

\* Editing the file, which the runs that have read it do not notice.
LEMMA EditKeeps == ASSUME ApplierInv, EditPolicy \/ UNCHANGED reconcilerVars PROVE ApplierInv'
<1>1. policy' \in Policies /\ UNCHANGED <<budgets, endpoint, run, started, alone>>
  BY DEF EditPolicy, reconcilerVars, ApplierInv, ApplierTypes
<1>2. ApplierTypes'
  BY <1>1 DEF ApplierInv, ApplierTypes
<1>3. PlansInv'
  BY <1>1 DEF ApplierInv, PlansInv, Justified, Target
<1>4. alone => OneRun' /\ Bounded' /\ AllCovered'
  <2>1. \A p, pr, T : Covered(p, pr, T) => Covered(p, pr, T)'
    BY <1>1, CoveredStays
  <2>2. alone => AllCovered'
    BY <1>1, <2>1 DEF ApplierInv, AllCovered
  <2>3. alone => OneRun'
    BY <1>1 DEF ApplierInv, OneRun
  <2>4. alone => Bounded'
    BY <1>1, FoundStays DEF ApplierInv, Bounded, Allowed, FoundAtFirst
  <2> QED BY <2>2, <2>3, <2>4
<1> QED BY <1>1, <1>2, <1>3, <1>4 DEF ApplierInv

\* The invariant holds before the first run.
LEMMA InitApplierInv == ReconcilerInit => ApplierInv
<1> SUFFICES ASSUME ReconcilerInit PROVE ApplierInv
  OBVIOUS
<1>1. /\ policy \in Policies /\ budgets = InitialBudgets
      /\ endpoint \in [Endpoints -> InitialEndpoints] /\ started = 0 /\ alone = TRUE
      /\ run = [r \in Runs |->
           [pc |-> "idle", policy |-> policy, prune |-> FALSE, plan |-> <<>>, next |-> 1]]
  BY DEF ReconcilerInit
<1>2. <<>> \in Seq(Action) /\ ToSet(<<>>) = {} /\ 1 \in 1..Len(<<>>) + 1
  BY EmptySeq DEF ToSet
<1>3. ApplierTypes
  <2>1. [pc |-> "idle", policy |-> policy, prune |-> FALSE, plan |-> <<>>, next |-> 1] \in RunRecord
    BY <1>1, <1>2 DEF RunRecord
  <2>2. endpoint \in [Endpoints -> Endpoint] /\ started \in 0..MaxRuns
    BY <1>1, ReconcilerConstants
  <2> QED BY <1>1, <2>1, <2>2, ReconcilerConstants DEF ApplierTypes
<1>4. PlansInv
  BY <1>1, <1>2 DEF PlansInv
<1>5. Bounded
  <2>1. \A name \in Names : Found(name) = FoundAtFirst(name)
    BY <1>1 DEF Found, Managed, FoundAtFirst
  <2>2. \A name \in Names : Cardinality(Found(name)) \in Nat
    BY <1>2, CountsAreNat
  <2> QED BY <1>1, <2>1, <2>2 DEF Bounded, Allowed
<1>6. OneRun /\ AllCovered
  BY <1>1 DEF OneRun, AllCovered
<1> QED BY <1>3, <1>4, <1>5, <1>6 DEF ApplierInv

\* Every step keeps the invariant.
LEMMA NextApplierInv == ApplierInv /\ [ReconcilerNext]_reconcilerVars => ApplierInv'
  BY StartKeeps, SkipKeeps, CreateKeeps, UpdateKeeps, DeleteKeeps, LimitsKeep, FailKeeps,
     FinishKeeps, EditKeeps DEF ReconcilerNext

\* The invariant of the applier: every planned action stays justified; as long
\* as runs do not overlap, what a run is to bring about is in place or left to
\* do, and what there is and what is left to create stay within the bound.
THEOREM ApplierInvariant == ReconcilerSpec => []ApplierInv
<1> QED BY InitApplierInv, NextApplierInv, PTL DEF ReconcilerSpec

-----------------------------------------------------------------------------
(* What follows from it *)

\* Types.
THEOREM ReconcilerTypeCorrect == ReconcilerSpec => []ReconcilerTypeOK
<1>1. ApplierInv => ReconcilerTypeOK
  <2> SUFFICES ASSUME ApplierInv PROVE ReconcilerTypeOK
    OBVIOUS
  <2>1. \A r \in Runs : /\ run[r].pc \in {"idle", "apply", "done", "failed"}
                        /\ run[r].policy \in Policies /\ run[r].prune \in BOOLEAN
                        /\ run[r].plan \in Seq(Action)
                        /\ run[r].next \in 1..(Len(run[r].plan) + 1)
    BY DEF ApplierInv, ApplierTypes, PlansInv, RunRecord
  <2> QED BY <2>1 DEF ApplierInv, ApplierTypes, ReconcilerTypeOK
<1> QED BY <1>1, ApplierInvariant, PTL

\* Repeated runs never make more budgets of a name than a version of the policy
\* lists, or than there were, or than one.
THEOREM ApplierMakesNoStrays == ReconcilerSpec => []NoStrayBudgets
<1>1. ApplierInv => NoStrayBudgets
  BY DEF ApplierInv, Bounded, Allowed, NoStrayBudgets
<1> QED BY <1>1, ApplierInvariant, PTL

\* What a run that has ended without an error leaves.
LEMMA DoneIsCovered ==
  ASSUME ApplierInv, alone, NEW r \in Runs, run[r].pc = "done"
  PROVE  /\ Covered(run[r].policy, run[r].prune, {})
         /\ run[r].policy \in Policies /\ run[r].prune \in BOOLEAN
<1>1. run[r].plan = <<>> /\ run[r].next \in 1..Len(run[r].plan) + 1
  BY DEF ApplierInv, PlansInv
<1>2. run[r].next = 1 /\ 1..Len(<<>>) = {}
  BY <1>1
<1>3. Rest(run[r].plan, run[r].next) = {}
  BY <1>1, <1>2 DEF Rest
<1> QED BY <1>3 DEF ApplierInv, AllCovered, ApplierTypes, RunRecord

\* A run that ends without an error leaves what its policy says, whatever
\* earlier runs left half done.
THEOREM ApplierReachesPolicy == ReconcilerSpec => []AppliedMatchesPolicy
<1>1. ApplierInv => AppliedMatchesPolicy
  <2> SUFFICES ASSUME ApplierInv, NEW r \in Runs, alone, run[r].pc = "done"
               PROVE  LET p == run[r].policy
                      IN  /\ \A name \in NamesIn(p.budgets) :
                               /\ Found(name) # {}
                               /\ budgets[First(name)].content = LastEntry(p.budgets, name).content
                          /\ run[r].prune => Prunable(p) = {}
                          /\ \A d \in Effective(p) : \E e \in Effective(p) :
                               e.endpoint = d.endpoint /\ InForce(e, endpoint[d.endpoint])
    BY DEF AppliedMatchesPolicy
  <2>1. PICK p : p = run[r].policy
    OBVIOUS
  <2>2. Covered(p, run[r].prune, {})
    BY <2>1, DoneIsCovered
  <2>3. \A name \in NamesIn(p.budgets) :
          Found(name) # {} /\ budgets[First(name)].content = LastEntry(p.budgets, name).content
    <3> TAKE name \in NamesIn(p.budgets)
    <3>1. PICK i \in Ids : /\ IsFirst(i, name)
                           /\ budgets[i].content = LastEntry(p.budgets, name).content
      BY <2>2 DEF Covered, BudgetInPlace
    <3>2. Found(name) # {}
      BY <3>1 DEF IsFirst
    <3>3. First(name) = i
      BY <3>1, <3>2, FirstIsFirst
    <3> QED BY <3>1, <3>2, <3>3
  <2>4. run[r].prune => Prunable(p) = {}
    BY <2>2 DEF Covered
  <2>5. \A d \in Effective(p) : EndpointInPlace(p, d.endpoint)
    BY <2>2 DEF Covered
  <2> QED BY <2>1, <2>3, <2>4, <2>5 DEF EndpointInPlace
<1> QED BY <1>1, ApplierInvariant, PTL

\* Running apply again after it has succeeded changes nothing.
THEOREM ApplierIsIdempotent == ReconcilerSpec => []ApplyIsIdempotent
<1>1. ApplierInv => ApplyIsIdempotent
  <2> SUFFICES ASSUME ApplierInv, NEW r \in Runs, alone, run[r].pc = "done",
                      NEW p, p = run[r].policy, NEW a \in ToSet(Plan(p, run[r].prune, {}))
               PROVE  \/ a.kind = "noop"
                      \/ a.kind = "update" /\ budgets[a.id] = Payload(r, a.name)
                      \/ /\ a.kind = "limits"
                         /\ LET d == LastEntry(p.rateLimits, a.name)
                                e == endpoint[d.endpoint]
                            IN  (\A o \in Effective(p) : o.endpoint = d.endpoint => o = d)
                                  => Merge(e, d) = [e EXCEPT !.owner = Bundle]
    BY DEF ApplyIsIdempotent
  <2>1. PICK prune, plan : prune = run[r].prune /\ plan = Plan(p, prune, {})
    OBVIOUS
  <2>2. Covered(p, prune, {}) /\ p \in Policies /\ prune \in BOOLEAN
    BY <2>1, DoneIsCovered
  <2>3. ApplierTypes /\ p.budgets \in Seq(BudgetEntry) /\ p.rateLimits \in Seq(LimitEntry)
    BY <2>2, ReconcilerConstants DEF ApplierInv, IsPolicy
  <2>4. PICK k \in DOMAIN plan : a = plan[k]
    BY <2>1 DEF ToSet
  <2>5. CASE k \in DOMAIN p.budgets /\ a = PlanBudget(p.budgets[k])
    <3>1. PICK entry : entry = p.budgets[k]
      OBVIOUS
    <3>2. entry \in BudgetEntry /\ entry.name \in NamesIn(p.budgets)
            /\ k \in Entries(p.budgets, entry.name)
      BY <2>3, <2>5, <3>1, LenProperties DEF NamesIn, Entries
    <3>3. /\ a.name = entry.name
          /\ \/ a.kind = "create" /\ Found(a.name) = {}
             \/ a.kind = "noop"
             \/ /\ a.kind = "update" /\ IsFirst(a.id, a.name)
                /\ ~ BudgetsEqual(entry.content, budgets[a.id])
      BY <2>3, <2>5, <3>1, <3>2, PlanOfBudget
    <3>4. PICK i \in Ids :
            /\ IsFirst(i, a.name)
            /\ budgets[i].content = LastEntry(p.budgets, a.name).content
            /\ \/ budgets[i].labels = Labels
               \/ /\ budgets[i].labels = {}
                  /\ \A j \in Entries(p.budgets, a.name) : p.budgets[j].content = budgets[i].content
      BY <2>2, <3>2, <3>3 DEF Covered, BudgetInPlace
    <3>5. Found(a.name) # {}
      BY <3>4 DEF IsFirst
    <3>6. ASSUME a.kind = "update" PROVE budgets[a.id] = Payload(r, a.name)
      <4>1. a.id = i
        BY <3>3, <3>4, <3>6, FirstIsFirst
      <4>2. budgets[i].labels = Labels
        BY <3>1, <3>2, <3>3, <3>4, <3>6, <4>1 DEF BudgetsEqual
      <4>3. budgets[i] \in Budget /\ budgets[i].state = "live" /\ budgets[i].owner = Bundle
              /\ budgets[i].name = a.name
        BY <2>3, <3>4 DEF IsFirst, Found, Managed, ApplierTypes
      <4> QED BY <3>4, <4>1, <4>2, <4>3 DEF Budget, Payload
    <3> QED BY <3>3, <3>5, <3>6
  <2>6. CASE a \in PlannedDeletes(p, prune)
    BY <2>2, <2>3, <2>6, PlanOfDeletes DEF Covered
  <2>7. CASE \E j \in DOMAIN p.rateLimits : a = PlanRateLimits(p, {})[j]
    <3>1. PICK j \in DOMAIN p.rateLimits : a = PlanRateLimits(p, {})[j]
      BY <2>7
    <3>2. a.kind \in {"noop", "limits"} /\ a.name \in NamesIn(p.rateLimits)
      BY <2>2, <3>1, PlanOfLimits DEF NamesIn
    <3>3. PICK d : d = LastEntry(p.rateLimits, a.name)
      OBVIOUS
    <3>4. d \in Effective(p) /\ d \in LimitEntry
      <4>1. PICK l \in Entries(p.rateLimits, a.name) : d = p.rateLimits[l]
        BY <2>3, <3>2, <3>3, LastIsEntry
      <4>2. d \in LimitEntry
        BY <2>3, <4>1, LenProperties DEF Entries
      <4> QED BY <3>2, <3>3, <4>2 DEF Effective
    <3>5. EndpointInPlace(p, d.endpoint)
      BY <2>2, <3>4 DEF Covered
    <3>6. ASSUME \A o \in Effective(p) : o.endpoint = d.endpoint => o = d
          PROVE  Merge(endpoint[d.endpoint], d) = [endpoint[d.endpoint] EXCEPT !.owner = Bundle]
      <4>1. InForce(d, endpoint[d.endpoint])
        BY <3>5, <3>6 DEF EndpointInPlace
      <4>2. endpoint[d.endpoint] \in Endpoint
        BY <2>3, <3>4 DEF ApplierTypes, LimitEntry
      <4> QED BY <4>1, <4>2 DEF InForce, Merge, Endpoint
    <3> QED BY <3>2, <3>3, <3>6
  <2>8. \/ k \in DOMAIN p.budgets /\ plan[k] = PlanBudget(p.budgets[k])
        \/ plan[k] \in PlannedDeletes(p, prune)
        \/ \E j \in DOMAIN p.rateLimits : plan[k] = PlanRateLimits(p, {})[j]
    <3>1. {} \in SUBSET Endpoints
      OBVIOUS
    <3> QED BY <2>1, <2>2, <2>3, <3>1, PlanElements
  <2>9. CASE a \notin PlannedDeletes(p, prune)
    BY <2>4, <2>5, <2>7, <2>8, <2>9
  <2> QED BY <2>6, <2>9
<1> QED BY <1>1, ApplierInvariant, PTL

\* Whatever overlaps: an action is carried out only on a budget of the bundle
\* that has the name it was planned for.
LEMMA ActionsHitTheirTarget ==
  ASSUME ApplierInv, NEW i \in Ids, budgets[i].state = "live", budgets'[i] # budgets[i],
         [ReconcilerNext]_reconcilerVars
  PROVE  \E r \in Runs :
           LET a == Current(r)
           IN  /\ run[r].pc = "apply" /\ a \in Action /\ a.kind \in {"update", "delete"} /\ a.id = i
               /\ Justified(run[r].policy, run[r].prune, a)
               /\ budgets'[i].state = "deleted" => a.kind = "delete"
<1>1. budgets[i] \in Budget /\ budgets \in [Ids -> Budget]
  BY DEF ApplierInv, ApplierTypes
<1>2. PICK r \in Runs : CreateBudget(r) \/ UpdateBudget(r) \/ DeleteBudget(r)
  <2>1. budgets' # budgets
    OBVIOUS
  <2>2. CASE EditPolicy \/ UNCHANGED reconcilerVars
    BY <2>1, <2>2 DEF EditPolicy, reconcilerVars
  <2>3. \A r \in Runs : ~ StartRun(r) /\ ~ Skip(r) /\ ~ ApplyLimits(r) /\ ~ Fails(r) /\ ~ Finish(r)
    BY <2>1 DEF StartRun, Skip, ApplyLimits, Fails, Finish
  <2> QED BY <2>2, <2>3 DEF ReconcilerNext
<1>3. \A kinds : Step(r, kinds) =>
        /\ run[r].pc = "apply" /\ Current(r) \in Action
        /\ Justified(run[r].policy, run[r].prune, Current(r))
  <2> SUFFICES ASSUME NEW kinds, Step(r, kinds)
               PROVE  /\ run[r].pc = "apply" /\ Current(r) \in Action
                      /\ Justified(run[r].policy, run[r].prune, Current(r))
    OBVIOUS
  <2>1. PICK p \in Policies, prune \in BOOLEAN, plan \in Seq(Action), n \in Nat,
             a \in Action, T \in SUBSET Action :
           Taken(r, kinds, p, prune, plan, n, a, T)
    BY NextAction
  <2> QED BY <2>1 DEF Taken
<1> DEFINE a == Current(r)
<1>4. CASE CreateBudget(r)
  <2>1. PICK k \in Ids : /\ \A j \in Ids : j < k <=> budgets[j].state # "never"
                         /\ budgets' = [budgets EXCEPT ![k] = Payload(r, a.name)]
    BY <1>4 DEF CreateBudget
  <2>2. budgets[k].state = "never"
    BY <2>1, ReconcilerConstants DEF Ids
  <2> QED BY <1>1, <2>1, <2>2
<1>5. CASE UpdateBudget(r)
  <2>1. Step(r, {"update"})
    BY <1>5 DEF UpdateBudget
  <2>2. budgets' = [budgets EXCEPT ![a.id] = Payload(r, a.name)]
    BY <1>5 DEF UpdateBudget
  <2>3. a.id = i
    BY <1>1, <2>2
  <2>4. budgets'[i].state = "live" /\ a.kind = "update"
    BY <1>1, <2>1, <2>2, <2>3 DEF Payload, Step
  <2> QED BY <1>3, <2>1, <2>3, <2>4
<1>6. CASE DeleteBudget(r)
  <2>1. Step(r, {"delete"})
    BY <1>6 DEF DeleteBudget
  <2>2. budgets' = [budgets EXCEPT ![a.id].state = "deleted"]
    BY <1>6 DEF DeleteBudget
  <2>3. a.id = i /\ a.kind = "delete"
    BY <1>1, <2>1, <2>2 DEF Step
  <2> QED BY <1>3, <2>1, <2>3
<1> QED BY <1>2, <1>4, <1>5, <1>6

\* A run changes and deletes only budgets its bundle owns and has named,
\* overlapping or not.
THEOREM ApplierLeavesOthers == ReconcilerSpec => OthersUntouched
<1>1. ApplierInv /\ [ReconcilerNext]_reconcilerVars =>
        [\A i \in Ids :
           budgets[i].state = "live" /\ (budgets[i].owner # Bundle \/ budgets[i].name = Unnamed)
             => budgets'[i] = budgets[i]]_reconcilerVars
  <2> SUFFICES ASSUME ApplierInv, [ReconcilerNext]_reconcilerVars, NEW i \in Ids,
                      budgets[i].state = "live", budgets'[i] # budgets[i]
               PROVE  budgets[i].owner = Bundle /\ budgets[i].name # Unnamed
    OBVIOUS
  <2>1. PICK r \in Runs : /\ Current(r) \in Action /\ Current(r).kind \in {"update", "delete"}
                          /\ Current(r).id = i
                          /\ Justified(run[r].policy, run[r].prune, Current(r))
    BY ActionsHitTheirTarget
  <2>2. Current(r).name \in Names /\ Target(Current(r))
    BY <2>1 DEF Action, Justified
  <2> QED BY <2>1, <2>2, ReconcilerConstants DEF Target
<1> QED BY <1>1, ApplierInvariant, PTL DEF ReconcilerSpec, OthersUntouched

\* Deletes require --prune, and a policy that does not name the budget: the
\* policy of the run itself, however old its plan is.
THEOREM ApplierDeletesArePruned == ReconcilerSpec => DeletesArePruned
<1>1. ApplierInv /\ [ReconcilerNext]_reconcilerVars =>
        [\A i \in Ids : budgets[i].state = "live" /\ budgets'[i].state = "deleted" =>
           \E r \in Runs : /\ run[r].pc = "apply" /\ run[r].prune
                           /\ budgets[i].name \notin NamesIn(run[r].policy.budgets)]_reconcilerVars
  <2> SUFFICES ASSUME ApplierInv, [ReconcilerNext]_reconcilerVars, NEW i \in Ids,
                      budgets[i].state = "live", budgets'[i].state = "deleted"
               PROVE  \E r \in Runs : /\ run[r].pc = "apply" /\ run[r].prune
                                      /\ budgets[i].name \notin NamesIn(run[r].policy.budgets)
    OBVIOUS
  <2>1. PICK r \in Runs : /\ run[r].pc = "apply" /\ Current(r).kind = "delete" /\ Current(r).id = i
                          /\ Justified(run[r].policy, run[r].prune, Current(r))
    BY ActionsHitTheirTarget
  <2> QED BY <2>1 DEF Justified, Target
<1> QED BY <1>1, ApplierInvariant, PTL DEF ReconcilerSpec, DeletesArePruned

=============================================================================
