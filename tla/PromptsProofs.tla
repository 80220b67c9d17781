---------------------------- MODULE PromptsProofs ----------------------------
(***************************************************************************)
(* Theorems of Catalog, where prompts and forms are published, and of      *)
(* Interpretation, where prompts are executed: for any number of versions, *)
(* forms and revisions, every set of requests, every set of executions and *)
(* any number of technical retries.                                        *)
(*                                                                         *)
(* The two share nothing but this module: each theorem is of one           *)
(* specification, Spec (Catalog) or ExecutionSpec (Interpretation).        *)
(***************************************************************************)
EXTENDS Catalog, Interpretation, WellFoundedInduction, TLAPS

-----------------------------------------------------------------------------
\* Catalog: the last of some versions or forms

\* Of the numbers up to N, a set of some has a largest: the less-than of the
\* naturals is well founded.
LEMMA LargestExists ==
    ASSUME NEW N \in Nat, NEW s, s \subseteq 1..N, s # {}
    PROVE  \E v \in s : \A w \in s : w <= v
<1> DEFINE Less == {p \in Nat \X Nat : p[1] < p[2]}
           T == {N - v : v \in s}
<1>1. \A v \in s : v \in Nat /\ N - v \in Nat
  OBVIOUS
<1>2. IsWellFoundedOn(Less, Nat)
  BY NatLessThanWellFounded DEF OpToRel
<1>3. T \subseteq Nat /\ T # {}
  BY <1>1
<1>4. PICK x \in T : \A y \in T : <<y, x>> \notin Less
  <2> HIDE DEF Less, T
  <2> QED
    BY <1>2, <1>3, WFMin
<1>5. PICK v \in s : x = N - v
  BY <1>4
<1>6. ASSUME NEW w \in s PROVE w <= v
  <2>1. ~(N - w < N - v)
    BY <1>1, <1>4, <1>5
  <2> QED
    BY <1>1, <2>1
<1> QED
  BY <1>6

\* LastOf is the largest, and 0 of none.
LEMMA LastOfIsLargest ==
    ASSUME NEW N \in Nat, NEW s, s \subseteq 1..N
    PROVE  /\ LastOf(s) \in 0..N
           /\ LastOf(s) = 0 <=> s = {}
           /\ s # {} => LastOf(s) \in s
           /\ \A w \in s : w <= LastOf(s)
<1>1. CASE s = {}
  BY <1>1 DEF LastOf
<1>2. CASE s # {}
  <2>1. \E v \in s : \A w \in s : w <= v
    BY <1>2, LargestExists
  <2>2. LastOf(s) \in s /\ \A w \in s : w <= LastOf(s)
    BY <1>2, <2>1 DEF LastOf
  <2>3. LastOf(s) \in 1..N
    BY <2>2
  <2> QED
    BY <1>2, <2>2, <2>3
<1> QED
  BY <1>1, <1>2

\* The bounds are numbers.
LEMMA Bounds == MaxVersion \in Nat \ {0} /\ MaxForm \in Nat \ {0} /\ MaxRevision \in Nat
BY BoundsAssumption

-----------------------------------------------------------------------------
\* Catalog: the invariant

\* The forms there are, are the first m, and the last of them is active.
UpTo(m) ==
    /\ \A v \in Form : form[v] # "NONE" <=> v <= m
    /\ m > 0 => form[m] = "ACTIVE"

FormsInOrder == \E m \in 0..MaxForm : UpTo(m)

HasForm(v) == v \in Form /\ form[v] # "NONE"

\* LastFormIsShown and StaysPublished are not inductive: a form is created, and a
\* version published, under a number chosen some steps before.  Whatever has been
\* created since, every form before the chosen one is there, and those the
\* transaction has found or deactivated are.
Chosen(r) ==
    /\ r.kind = "publish" => r.target \in Version
    /\ r.kind = "form" =>
         /\ r.target \in Form
         /\ \A v \in Form : v < r.target => HasForm(v)
         /\ \A v \in r.found \cup r.wrote : HasForm(v)

IInv == TypeOK /\ FormsInOrder /\ \A q \in Request : Chosen(req[q])

\* No form, no version, no request.
LEMMA InitiallyInOrder == Init => IInv
<1> SUFFICES ASSUME Init PROVE IInv
  OBVIOUS
<1>1. TypeOK
  <2>1. prompt \in BOOLEAN
    BY DEF Init
  <2>2. /\ version \in [Version -> {"NONE", "DRAFT", "PUBLISHED", "ARCHIVED"}]
        /\ form \in [Form -> {"NONE", "ACTIVE", "INACTIVE"}]
        /\ seed \in {"services", "form", "prompt", "find", "version", "over"}
    BY DEF Init
  <2>3. revision \in 0..MaxRevision /\ cache \in Caches /\ req \in [Request -> Requests]
    BY Bounds DEF Init, Caches, Requests
  <2> QED
    BY <2>1, <2>2, <2>3 DEF TypeOK
<1>2. UpTo(0)
  BY Bounds DEF Init, UpTo, Form
<1>3. \A q \in Request : Chosen(req[q])
  BY DEF Init, Chosen, NoRequest
<1> QED
  BY <1>1, <1>2, <1>3, Bounds DEF IInv, FormsInOrder

\* A request of a transaction is a record with a target and two sets of rows.
LEMMA Transactions ==
    ASSUME TypeOK, NEW q \in Request, req[q].kind \in {"version", "publish", "form"}
    PROVE  req[q] \in [kind : {"version", "publish", "form"}, pc : {"chosen", "found", "written"},
                       target : Nat, found : SUBSET Nat, wrote : SUBSET Nat]
BY DEF TypeOK, Requests, NoRequest

\* What a request may become is typed.
LEMMA RequestsStayTyped ==
    ASSUME TypeOK, NEW q \in Request
    PROVE  /\ \A r \in Requests : req' = [req EXCEPT ![q] = r] => req' \in [Request -> Requests]
           /\ End(q) => req' \in [Request -> Requests]
           /\ \A kind \in {"prompt", "invalidate", "audit"} :
                Then(q, kind) => req' \in [Request -> Requests]
           /\ \A kind \in {"version", "publish", "form"}, target \in Nat :
                Start(q, kind, target) => req' \in [Request -> Requests]
<1>1. ASSUME NEW r \in Requests, req' = [req EXCEPT ![q] = r]
      PROVE  req' \in [Request -> Requests]
  BY <1>1 DEF TypeOK
<1>2. End(q) => req' \in [Request -> Requests]
  BY <1>1 DEF End, Requests
<1>3. ASSUME NEW kind \in {"prompt", "invalidate", "audit"}, Then(q, kind)
      PROVE  req' \in [Request -> Requests]
  <2>1. [kind |-> kind] \in Requests
    BY DEF Requests
  <2> QED
    BY <1>1, <1>3, <2>1 DEF Then
<1>4. ASSUME NEW kind \in {"version", "publish", "form"}, NEW target \in Nat,
             Start(q, kind, target)
      PROVE  req' \in [Request -> Requests]
  <2>1. [kind |-> kind, pc |-> "chosen", target |-> target, found |-> {}, wrote |-> {}]
          \in Requests
    BY DEF Requests
  <2> QED
    BY <1>1, <1>4, <2>1 DEF Start
<1> QED
  BY <1>1, <1>2, <1>3, <1>4

\* What the public list shows is typed.
LEMMA ListTyped == TypeOK => List \in Lists /\ ShownForm \in 0..MaxForm
<1> SUFFICES ASSUME TypeOK PROVE List \in Lists /\ ShownForm \in 0..MaxForm
  OBVIOUS
<1>1. ShownForm \in 0..MaxForm
  BY Bounds, LastOfIsLargest DEF ShownForm, Form
<1> QED
  BY <1>1 DEF TypeOK, List, Lists

\* The number after the last one, of forms or of versions, and the last draft.
LEMMA NextNumber ==
    ASSUME TypeOK
    PROVE  /\ Version \subseteq Nat /\ Form \subseteq Nat
           /\ LET drafts == {v \in Version : version[v] = "DRAFT"} IN
                drafts # {} => LastOf(drafts) \in Version
<1>1. Version \subseteq Nat /\ Form \subseteq Nat
  BY Bounds DEF Version, Form
<1>2. ASSUME NEW drafts \in SUBSET Version, drafts # {} PROVE LastOf(drafts) \in Version
  BY <1>2, Bounds, LastOfIsLargest DEF Version
<1> QED
  BY <1>1, <1>2

\* Every step keeps the type invariant.
LEMMA TypePreserved ==
    ASSUME TypeOK, [Next]_vars
    PROVE  TypeOK'
<1> DEFINE Reqs == req' \in [Request -> Requests]
<1>1. ASSUME NEW q \in Request,
             CreateFirstVersion(q) \/ CreateVersion(q)
      PROVE  TypeOK'
  <2>1. PICK v : InsertVersion(q, v) /\ UNCHANGED <<prompt, serviceVars, cache, seed>>
    BY <1>1 DEF CreateFirstVersion, CreateVersion
  <2>2. version' \in [Version -> {"NONE", "DRAFT", "PUBLISHED", "ARCHIVED"}]
    BY <2>1 DEF InsertVersion, TypeOK
  <2>3. Reqs
    BY <2>1, RequestsStayTyped DEF InsertVersion
  <2> QED
    BY <2>1, <2>2, <2>3 DEF TypeOK, serviceVars
<1>2. ASSUME NEW q \in Request, CreatePrompt(q) PROVE TypeOK'
  <2>1. Then(q, "prompt")
    BY <1>2 DEF CreatePrompt, Then
  <2>2. Reqs
    BY <2>1, RequestsStayTyped
  <2>3. prompt' = TRUE /\ UNCHANGED <<version, serviceVars, cache, seed>>
    BY <1>2 DEF CreatePrompt
  <2> QED
    BY <2>2, <2>3 DEF TypeOK, serviceVars
<1>3. ASSUME NEW q \in Request,
             BeginVersion(q) \/ BeginPublish(q) \/ BeginForm(q) \/ FindPublished(q)
             \/ ArchivePublished(q) \/ FindActive(q) \/ DeactivateForms(q)
             \/ Record(q) \/ MissList(q) \/ ReadList(q) \/ LoseRequest(q)
      PROVE  TypeOK'
  <2>1. CASE BeginVersion(q) \/ BeginPublish(q) \/ BeginForm(q)
    <3>1. PICK kind \in {"version", "publish", "form"}, target \in Nat : Start(q, kind, target)
      BY <2>1, NextNumber DEF BeginVersion, BeginPublish, BeginForm
    <3>2. Reqs
      BY <3>1, RequestsStayTyped
    <3> QED
      BY <2>1, <3>2 DEF BeginVersion, BeginPublish, BeginForm, TypeOK, promptVars, serviceVars
  <2>2. CASE FindPublished(q) \/ ArchivePublished(q) \/ FindActive(q) \/ DeactivateForms(q)
    <3>1. req[q].kind \in {"version", "publish", "form"}
      BY <2>2 DEF FindPublished, ArchivePublished, FindActive, DeactivateForms, At
    <3>2. ASSUME NEW where \in {"found", "written"}, NEW rows \in SUBSET Nat,
                 \/ req' = [req EXCEPT ![q].pc = where, ![q].found = rows]
                 \/ req' = [req EXCEPT ![q].pc = where, ![q].wrote = rows]
          PROVE  Reqs
      <4>1. /\ [req[q] EXCEPT !.pc = where, !.found = rows] \in Requests
            /\ [req[q] EXCEPT !.pc = where, !.wrote = rows] \in Requests
        BY <3>1, Transactions DEF Requests
      <4>2. \/ req' = [req EXCEPT ![q] = [req[q] EXCEPT !.pc = where, !.found = rows]]
            \/ req' = [req EXCEPT ![q] = [req[q] EXCEPT !.pc = where, !.wrote = rows]]
        BY <3>2 DEF TypeOK
      <4> QED
        BY <4>1, <4>2, RequestsStayTyped
    <3>3. Reqs
      <4>1. /\ {v \in Version : version[v] = "PUBLISHED"} \in SUBSET Nat
            /\ {v \in Form : form[v] = "ACTIVE"} \in SUBSET Nat
        BY NextNumber
      <4>2. req[q].found \in SUBSET Nat
        BY <3>1, Transactions
      <4>3. /\ {v \in req[q].found : version[v] = "PUBLISHED"} \in SUBSET Nat
            /\ {v \in req[q].found : form[v] = "ACTIVE"} \in SUBSET Nat
        BY <4>2
      <4> QED
        BY <2>2, <3>2, <4>1, <4>3 DEF FindPublished, FindActive, ArchivePublished, DeactivateForms
    <3> QED
      BY <2>2, <3>3 DEF FindPublished, ArchivePublished, FindActive, DeactivateForms, TypeOK,
                        promptVars, serviceVars
  <2>3. CASE Record(q) \/ MissList(q) \/ ReadList(q) \/ LoseRequest(q)
    <3>1. Reqs
      BY <2>3, RequestsStayTyped, ListTyped DEF Record, MissList, ReadList, LoseRequest, Requests
    <3> QED
      BY <2>3, <3>1 DEF Record, MissList, ReadList, LoseRequest, TypeOK, promptVars, serviceVars
  <2> QED
    BY <1>3, <2>1, <2>2, <2>3
<1>4. ASSUME NEW q \in Request, CommitPublish(q) PROVE TypeOK'
  <2>1. version' \in [Version -> {"NONE", "DRAFT", "PUBLISHED", "ARCHIVED"}]
    BY <1>4 DEF CommitPublish, TypeOK
  <2>2. Reqs
    BY <1>4, RequestsStayTyped DEF CommitPublish
  <2> QED
    BY <1>4, <2>1, <2>2 DEF CommitPublish, TypeOK, serviceVars
<1>5. ASSUME NEW q \in Request, CommitForm(q) PROVE TypeOK'
  <2>1. form' \in [Form -> {"NONE", "ACTIVE", "INACTIVE"}]
    BY <1>5 DEF CommitForm, TypeOK
  <2>2. Reqs
    BY <1>5, RequestsStayTyped DEF CommitForm
  <2> QED
    BY <1>5, <2>1, <2>2 DEF CommitForm, TypeOK, promptVars
<1>6. ASSUME NEW q \in Request, UpdateService(q) PROVE TypeOK'
  <2>1. revision' \in 0..MaxRevision
    BY <1>6, Bounds DEF UpdateService, TypeOK
  <2>2. Reqs
    BY <1>6, RequestsStayTyped DEF UpdateService
  <2> QED
    BY <1>6, <2>1, <2>2 DEF UpdateService, TypeOK, promptVars
<1>7. ASSUME NEW q \in Request, InvalidateList(q) \/ CacheList(q) PROVE TypeOK'
  <2>1. cache' \in Caches
    <3>1. CASE InvalidateList(q)
      BY <3>1 DEF InvalidateList, Caches
    <3>2. CASE CacheList(q)
      <4>1. req[q].list \in Lists
        BY <3>2 DEF CacheList, At, TypeOK, Requests, NoRequest
      <4> QED
        BY <3>2, <4>1 DEF CacheList, Caches
    <3> QED
      BY <1>7, <3>1, <3>2
  <2>2. Reqs
    BY <1>7, RequestsStayTyped DEF InvalidateList, CacheList
  <2> QED
    BY <1>7, <2>1, <2>2 DEF InvalidateList, CacheList, TypeOK, promptVars, serviceVars
<1>8. CASE ExpireList
  BY <1>8 DEF ExpireList, TypeOK, Caches, promptVars, serviceVars
<1>9. CASE SeedStep
  <2>1. seed' \in {"services", "form", "prompt", "find", "version", "over"}
        /\ UNCHANGED <<cache, req>>
    BY <1>9 DEF SeedStep, SeedService, SeedForm, SeedPrompt, SeedFindsVersion, SeedVersion,
                SeedAgain, Seed
  <2>2. prompt' \in BOOLEAN
    BY <1>9 DEF SeedStep, SeedService, SeedForm, SeedPrompt, SeedFindsVersion, SeedVersion,
                SeedAgain, TypeOK, promptVars
  <2>3. /\ version' \in [Version -> {"NONE", "DRAFT", "PUBLISHED", "ARCHIVED"}]
        /\ form' \in [Form -> {"NONE", "ACTIVE", "INACTIVE"}]
    BY <1>9 DEF SeedStep, SeedService, SeedForm, SeedPrompt, SeedFindsVersion, SeedVersion,
                SeedAgain, TypeOK, promptVars, serviceVars
  <2>4. revision' \in 0..MaxRevision
    BY <1>9, Bounds DEF SeedStep, SeedService, SeedForm, SeedPrompt, SeedFindsVersion,
                SeedVersion, SeedAgain, TypeOK, serviceVars
  <2> QED
    BY <2>1, <2>2, <2>3, <2>4 DEF TypeOK
<1>10. CASE UNCHANGED vars
  BY <1>10 DEF vars, promptVars, serviceVars, TypeOK
<1> QED
  BY <1>1, <1>2, <1>3, <1>4, <1>5, <1>6, <1>7, <1>8, <1>9, <1>10
  DEF Next, PromptStep, ServiceStep

\* A new form is the next one, and forms keep their rows, whatever the unique key
\* refuses and the seed writes.
LEMMA OrderPreserved ==
    ASSUME IInv, [Next]_vars
    PROVE  FormsInOrder' /\ \A v : HasForm(v) => HasForm(v)'
<1> USE DEF IInv
<1>1. PICK m \in 0..MaxForm : UpTo(m)
  BY DEF FormsInOrder
<1>2. form \in [Form -> {"NONE", "ACTIVE", "INACTIVE"}] /\ Form = 1..MaxForm /\ m \in Nat
  BY Bounds DEF TypeOK, Form
<1>3. CASE UNCHANGED form
  BY <1>3 DEF FormsInOrder, UpTo, HasForm
<1>4. ASSUME NEW q \in Request, CommitForm(q), ~ UNCHANGED form
      PROVE  FormsInOrder' /\ \A v : HasForm(v) => HasForm(v)'
  <2>1. PICK t \in Form : /\ t = req[q].target /\ form[t] = "NONE"
                          /\ \A v \in Form : v < t => HasForm(v)
    BY <1>4 DEF CommitForm, At, Chosen
  <2>2. \A v \in req[q].wrote : HasForm(v)
    BY <1>4 DEF CommitForm, At, Chosen
  <2>3. form' = [v \in Form |-> IF v = t THEN "ACTIVE"
                                ELSE IF v \in req[q].wrote THEN "INACTIVE" ELSE form[v]]
    BY <1>4, <2>1 DEF CommitForm
  <2>4. t = m + 1
    BY <1>1, <1>2, <2>1, Bounds DEF UpTo, HasForm
  <2>5. UpTo(t)'
    BY <1>1, <1>2, <2>1, <2>2, <2>3, <2>4 DEF UpTo, HasForm, Form
  <2>6. t \in 0..MaxForm
    BY <1>2, <2>1, Bounds
  <2> QED
    BY <2>2, <2>3, <2>5, <2>6 DEF FormsInOrder, UpTo, HasForm
<1>5. ASSUME SeedForm
      PROVE  FormsInOrder' /\ \A v : HasForm(v) => HasForm(v)'
  <2>1. form' = [form EXCEPT ![1] = "ACTIVE"]
    BY <1>5 DEF SeedForm
  <2> SUFFICES FormsInOrder'
    BY <1>2, <2>1 DEF HasForm
  <2>2. CASE m = 0
    <3>1. UpTo(1)'
      BY <1>1, <1>2, <2>1, <2>2, Bounds DEF UpTo
    <3> QED
      BY <3>1, Bounds DEF FormsInOrder, UpTo
  <2>3. CASE m > 0
    <3>1. UpTo(m)'
      BY <1>1, <1>2, <2>1, <2>3, Bounds DEF UpTo
    <3> QED
      BY <3>1 DEF FormsInOrder, UpTo
  <2> QED
    BY <1>2, <2>2, <2>3
<1>6. \/ UNCHANGED form \/ SeedForm
      \/ \E q \in Request : CommitForm(q)
  BY DEF Next, vars, promptVars, serviceVars, CreatePrompt, BeginVersion, BeginPublish, PromptStep,
         CreateFirstVersion, CreateVersion, FindPublished, ArchivePublished, CommitPublish,
         BeginForm, UpdateService, MissList, ServiceStep, FindActive, DeactivateForms,
         InvalidateList, Record, ReadList, CacheList, LoseRequest, ExpireList, SeedStep,
         SeedService, SeedPrompt, SeedFindsVersion, SeedVersion, SeedAgain
<1> QED
  BY <1>3, <1>4, <1>5, <1>6

\* The number a request works under is right when it is chosen.
LEMMA ChosenPreserved ==
    ASSUME IInv, [Next]_vars, NEW q \in Request
    PROVE  req'[q] = req[q] \/ Chosen(req'[q])
<1> USE DEF IInv
<1> SUFFICES ASSUME req'[q] # req[q] PROVE Chosen(req'[q])
  OBVIOUS
<1>1. req \in [Request -> Requests] /\ Version \subseteq Nat /\ Form \subseteq Nat
  BY NextNumber DEF TypeOK
<1>2. CASE \E o \in Request : BeginVersion(o) \/ BeginForm(o) \/ BeginPublish(o)
  <2>1. PICK o \in Request : BeginVersion(o) \/ BeginForm(o) \/ BeginPublish(o)
    BY <1>2
  <2>2. CASE BeginVersion(o)
    <3>1. req'[q].kind = "version"
      BY <1>1, <2>2 DEF BeginVersion, Start
    <3> QED
      BY <3>1 DEF Chosen
  <2>3. CASE BeginPublish(o)
    <3>1. req'[q].kind = "publish" /\ req'[q].target \in Version
      BY <1>1, <2>3, NextNumber DEF BeginPublish, Start
    <3> QED
      BY <3>1 DEF Chosen
  <2>4. CASE BeginForm(o)
    <3> DEFINE rows == {v \in Form : form[v] # "NONE"}
               next == LastOf(rows) + 1
    <3>1. /\ next \in Form /\ req'[q].kind = "form" /\ req'[q].target = next
          /\ req'[q].found = {} /\ req'[q].wrote = {}
      BY <1>1, <2>4 DEF BeginForm, Start
    <3>2. PICK m \in 0..MaxForm : UpTo(m)
      BY DEF FormsInOrder
    <3>3. \A v \in Form : v <= m => v \in rows
      BY <3>2 DEF UpTo
    <3>4. \A v \in Form : v < next => v \in rows
      <4>1. LastOf(rows) \in 0..MaxForm /\ (LastOf(rows) = 0 \/ LastOf(rows) \in rows)
        BY Bounds, LastOfIsLargest DEF Form
      <4> HIDE DEF rows
      <4>2. LastOf(rows) = 0 \/ LastOf(rows) <= m
        BY <3>2, <4>1 DEF UpTo, rows
      <4> QED
        BY <1>1, <3>2, <3>3, <4>1, <4>2, Bounds DEF Form
    <3> QED
      BY <3>1, <3>4 DEF Chosen, HasForm
  <2> QED
    BY <2>1, <2>2, <2>3, <2>4
<1>3. CASE \E o \in Request : \/ FindPublished(o) \/ ArchivePublished(o)
                              \/ FindActive(o) \/ DeactivateForms(o)
  <2>1. PICK o \in Request : \/ FindPublished(o) \/ ArchivePublished(o)
                             \/ FindActive(o) \/ DeactivateForms(o)
    BY <1>3
  <2>2. o = q
    BY <1>1, <2>1 DEF FindPublished, ArchivePublished, FindActive, DeactivateForms
  <2>3. req[q].kind \in {"version", "publish", "form"}
    BY <2>1, <2>2 DEF FindPublished, ArchivePublished, FindActive, DeactivateForms, At
  <2>4. req'[q].kind = req[q].kind /\ req'[q].target = req[q].target
    BY <1>1, <2>1, <2>2, <2>3, Transactions
    DEF FindPublished, ArchivePublished, FindActive, DeactivateForms
  <2>5. CASE req[q].kind = "form"
    <3>1. /\ req'[q].found \subseteq req[q].found \cup {v \in Form : form[v] = "ACTIVE"}
          /\ req'[q].wrote \subseteq req[q].wrote \cup req[q].found
      BY <1>1, <2>1, <2>2, <2>5, Transactions
      DEF FindPublished, ArchivePublished, FindActive, DeactivateForms, At
    <3> QED
      BY <2>4, <2>5, <3>1 DEF Chosen, HasForm
  <2>6. CASE req[q].kind # "form"
    BY <2>4, <2>6 DEF Chosen
  <2> QED
    BY <2>5, <2>6
<1>4. CASE \E o \in Request :
              \/ CreatePrompt(o) \/ CreateFirstVersion(o) \/ CreateVersion(o) \/ CommitPublish(o)
              \/ UpdateService(o) \/ MissList(o) \/ CommitForm(o) \/ InvalidateList(o)
              \/ Record(o) \/ ReadList(o) \/ CacheList(o) \/ LoseRequest(o)
  <2>1. req'[q].kind \notin {"publish", "form"}
    BY <1>1, <1>4 DEF CreatePrompt, CreateFirstVersion, CreateVersion, InsertVersion, CommitPublish,
        UpdateService, MissList, CommitForm, InvalidateList, Record, ReadList, CacheList,
        LoseRequest, End, Then, NoRequest
  <2> QED
    BY <2>1 DEF Chosen
<1>5. CASE UNCHANGED req
  BY <1>5
<1>6. ExpireList \/ SeedStep \/ UNCHANGED vars => UNCHANGED req
  BY DEF vars, ExpireList, SeedStep, SeedService, SeedForm, SeedPrompt, SeedFindsVersion,
         SeedVersion, SeedAgain, Seed
<1> QED
  BY <1>2, <1>3, <1>4, <1>5, <1>6 DEF Next, PromptStep, ServiceStep

\* Every reachable state satisfies the invariant.
LEMMA AlwaysInOrder == Spec => []IInv
<1>1. Init => IInv
  BY InitiallyInOrder
<1>2. ASSUME IInv, [Next]_vars PROVE IInv'
  <2>1. TypeOK' /\ FormsInOrder' /\ \A v : HasForm(v) => HasForm(v)'
    BY <1>2, TypePreserved, OrderPreserved DEF IInv
  <2>2. ASSUME NEW q \in Request PROVE Chosen(req[q])'
    <3>1. Chosen(req'[q])
      BY <1>2, ChosenPreserved DEF IInv
    <3> QED
      BY <2>1, <3>1 DEF Chosen
  <2> QED
    BY <2>1, <2>2 DEF IInv
<1> QED
  BY <1>1, <1>2, PTL DEF Spec

-----------------------------------------------------------------------------
\* Catalog: the theorems

\* The rows, the cached list and every request are of their types.
THEOREM CatalogTyped == Spec => []TypeOK
<1>1. IInv => TypeOK
  BY DEF IInv
<1> QED
  BY <1>1, AlwaysInOrder, PTL

\* The form users fill in is the last one published (createForm, listActive),
\* however publications and the seed overlap: the unique key lets each number be
\* created once, after all those before it.
THEOREM LastFormAlwaysShown == Spec => []LastFormIsShown
<1>1. ASSUME IInv PROVE LastFormIsShown
  <2>1. PICK m \in 0..MaxForm : UpTo(m)
    BY <1>1 DEF IInv, FormsInOrder
  <2>2. \A v \in {w \in Form : form[w] = "ACTIVE"} : v <= ShownForm
    BY Bounds, LastOfIsLargest DEF ShownForm, Form
  <2>3. ShownForm \in 0..MaxForm
    BY Bounds, LastOfIsLargest DEF ShownForm, Form
  <2>4. m > 0 => m <= ShownForm
    BY <2>1, <2>2, Bounds DEF UpTo, Form
  <2> QED
    BY <2>1, <2>3, <2>4, Bounds DEF LastFormIsShown, UpTo, Form
<1> QED
  BY <1>1, AlwaysInOrder, PTL

\* A prompt that has a published version has one after every step
\* (getPublishedVersionId): what archives others publishes its own.
THEOREM PromptStaysPublished == Spec => StaysPublished
<1>1. PublishedVersion # 0 <=> \E v \in Version : version[v] = "PUBLISHED"
  BY Bounds, LastOfIsLargest DEF PublishedVersion, Published, Version
<1>2. (PublishedVersion # 0 <=> \E v \in Version : version[v] = "PUBLISHED")'
  BY <1>1, PTL
<1>3. ASSUME IInv, [Next]_vars
      PROVE  [PublishedVersion # 0 => PublishedVersion' # 0]_vars
  <2>1. SUFFICES ASSUME NEW v \in Version, version[v] = "PUBLISHED"
                 PROVE  \E w \in Version : version'[w] = "PUBLISHED"
    BY <1>1, <1>2
  <2>2. ASSUME NEW q \in Request, CommitPublish(q)
        PROVE  \E w \in Version : version'[w] = "PUBLISHED"
    <3>1. req[q].target \in Version
      BY <1>3, <2>2 DEF IInv, Chosen, CommitPublish, At
    <3>2. version'[req[q].target] = "PUBLISHED"
      BY <2>2, <3>1 DEF CommitPublish
    <3> QED
      BY <3>1, <3>2
  <2>3. ASSUME NEW w, version' = [version EXCEPT ![w] = "DRAFT"], version[w] = "NONE"
        PROVE  version'[v] = "PUBLISHED"
    BY <1>3, <2>1, <2>3 DEF IInv, TypeOK
  <2>4. ASSUME version' = [version EXCEPT ![1] = "PUBLISHED"]
        PROVE  version'[v] = "PUBLISHED"
    BY <1>3, <2>1, <2>4 DEF IInv, TypeOK
  <2>5. \/ UNCHANGED version
        \/ \E w : version' = [version EXCEPT ![w] = "DRAFT"] /\ version[w] = "NONE"
        \/ version' = [version EXCEPT ![1] = "PUBLISHED"]
        \/ \E q \in Request : CommitPublish(q)
    BY <1>3 DEF Next, vars, promptVars, serviceVars, CreatePrompt, BeginVersion, BeginPublish,
         PromptStep, CreateFirstVersion, CreateVersion, InsertVersion, FindPublished,
         ArchivePublished, BeginForm, UpdateService, MissList, ServiceStep, FindActive,
         DeactivateForms, CommitForm, InvalidateList, Record, ReadList, CacheList, LoseRequest,
         ExpireList, SeedStep, SeedService, SeedForm, SeedPrompt, SeedFindsVersion, SeedVersion,
         SeedAgain
  <2> QED
    BY <2>1, <2>2, <2>3, <2>4, <2>5
<1> QED
  BY <1>3, AlwaysInOrder, PTL DEF Spec, StaysPublished

-----------------------------------------------------------------------------
\* Interpretation: the invariant

\* Where an execution has no row yet.
Unrecorded == {"idle", "begun", "ask", "asking", "answered", "complete", "reject"}

\* What is so of an execution at each point of it.  RiskyTextStaysHere is not
\* inductive: it needs that an execution about to ask has passed the check; and
\* that a step keeps the promise, that there is no row before CreateExecution
\* and that the caller is told once.
Sound(c) ==
    /\ pc[c] # "idle" => input[c] \in Inputs
    /\ pc[c] \in {"idle", "begun"} => attempt[c] = 0
    /\ pc[c] \in {"ask", "asking"} \/ attempt[c] > 0 => ~HighRisk(input[c].checked)
    /\ pc[c] \in Unrecorded => row[c] = "none"
    /\ pc[c] = "recorded" => row[c] # "none"
    /\ pc[c] # "done" => told[c] = "none"

\* The part of TypeOK the arguments need, without the bound on the attempts.
Typed ==
    /\ input \in [Call -> Inputs \cup {NoInput}]
    /\ pc \in [Call -> Unrecorded \cup {"recorded", "done", "thrown"}]
    /\ attempt \in [Call -> Nat]
    /\ content \in [Call -> Content \cup {NoContent}]
    /\ row \in [Call -> {"none", "COMPLETED", "FAILED"}]
    /\ told \in [Call -> {"none", "COMPLETED", "FAILED"}]

Executing == Typed /\ \A c \in Call : Sound(c)

\* Whatever is asked by a worker or an administrator, the text that is checked is
\* at risk when the text that would be sent is.
LEMMA CheckedIsSent ==
    ASSUME NEW i \in Inputs, HighRisk(i.text)
    PROVE  HighRisk(i.checked)
BY DEF Inputs, TarotInputs, PalmInputs, TestInputs, HighRisk

-----------------------------------------------------------------------------
\* No execution has begun.
LEMMA InitiallySound == ExecutionInit => Executing
<1> SUFFICES ASSUME ExecutionInit PROVE Executing
  OBVIOUS
<1>1. Typed
  BY DEF ExecutionInit, Typed, Unrecorded
<1>2. \A c \in Call : Sound(c)
  BY DEF ExecutionInit, Sound, Unrecorded
<1> QED
  BY <1>1, <1>2 DEF Executing

\* Every step of execute(), of the provider and every fault keeps Executing.
LEMMA SoundPreserved ==
    ASSUME Executing, [ExecutionNext]_executionVars
    PROVE  Executing'
<1> USE DEF Executing
<1>1. ASSUME NEW c \in Call, Execute(c) PROVE Executing'
  <2>1. Typed'
    BY <1>1 DEF Execute, Goto, Typed, Unrecorded
  <2>2. \A d \in Call : Sound(d)'
    BY <1>1 DEF Execute, Goto, Typed, Sound, Unrecorded
  <2> QED
    BY <2>1, <2>2
<1>2. ASSUME NEW c \in Call, CheckInput(c) PROVE Executing'
  <2>1. Typed'
    BY <1>2 DEF CheckInput, Goto, Typed, Unrecorded
  <2>2. \A d \in Call : Sound(d)'
    BY <1>2 DEF CheckInput, Goto, Typed, Sound, Unrecorded
  <2> QED
    BY <2>1, <2>2
<1>3. ASSUME NEW c \in Call, Ask(c) PROVE Executing'
  <2>1. Typed'
    BY <1>3 DEF Ask, Goto, Typed, Unrecorded, Sound
  <2>2. \A d \in Call : Sound(d)'
    BY <1>3 DEF Ask, Goto, Typed, Sound, Unrecorded
  <2> QED
    BY <2>1, <2>2
<1>4. ASSUME NEW c \in Call, NEW answer \in Content, Answer(c, answer) PROVE Executing'
  <2>1. Typed'
    BY <1>4 DEF Answer, Goto, Typed, Unrecorded
  <2>2. \A d \in Call : Sound(d)'
    BY <1>4 DEF Answer, Goto, Typed, Sound, Unrecorded
  <2> QED
    BY <2>1, <2>2
<1>5. ASSUME NEW c \in Call, pc[c] = "asking", FailAttempt(c) PROVE Executing'
  <2>1. Typed'
    BY <1>5 DEF FailAttempt, Goto, Typed, Unrecorded
  <2>2. \A d \in Call : Sound(d)'
    BY <1>5 DEF FailAttempt, Goto, Typed, Sound, Unrecorded
  <2> QED
    BY <2>1, <2>2
<1>6. ASSUME NEW c \in Call, Judge(c) PROVE Executing'
  <2>1. Typed'
    BY <1>6 DEF Judge, Goto, Typed, Unrecorded
  <2>2. \A d \in Call : Sound(d)'
    BY <1>6 DEF Judge, Goto, Typed, Sound, Unrecorded
  <2> QED
    BY <2>1, <2>2
<1>7. ASSUME NEW c \in Call, CreateExecution(c) PROVE Executing'
  <2>1. Typed'
    BY <1>7 DEF CreateExecution, Goto, Typed, Unrecorded
  <2>2. \A d \in Call : Sound(d)'
    BY <1>7 DEF CreateExecution, Goto, Typed, Sound, Unrecorded
  <2> QED
    BY <2>1, <2>2
<1>8. ASSUME NEW c \in Call, Return(c) PROVE Executing'
  <2>1. Typed'
    BY <1>8 DEF Return, Goto, Typed, Unrecorded
  <2>2. \A d \in Call : Sound(d)'
    BY <1>8 DEF Return, Goto, Typed, Sound, Unrecorded
  <2> QED
    BY <2>1, <2>2
<1>9. ASSUME NEW c \in Call, Lose(c) PROVE Executing'
  <2>1. Typed'
    BY <1>9 DEF Lose, Goto, Typed, Unrecorded
  <2>2. \A d \in Call : Sound(d)'
    BY <1>9 DEF Lose, Goto, Typed, Sound, Unrecorded
  <2> QED
    BY <2>1, <2>2
<1>10. CASE UNCHANGED executionVars
  BY <1>10 DEF executionVars, Typed, Sound
<1> QED
  BY <1>1, <1>2, <1>3, <1>4, <1>5, <1>6, <1>7, <1>8, <1>9, <1>10
  DEF ExecutionNext, Step, ProviderFails, TimeOut

\* Every reachable state is sound.
LEMMA AlwaysSound == ExecutionSpec => []Executing
<1>1. ExecutionInit => Executing
  BY InitiallySound
<1>2. Executing /\ [ExecutionNext]_executionVars => Executing'
  BY SoundPreserved
<1> QED
  BY <1>1, <1>2, PTL DEF ExecutionSpec

\* An execution asks again only while it has retries left.
Retries ==
    /\ timer \subseteq Call
    /\ \A c \in Call : /\ attempt[c] <= MaxTechnicalRetries + 1
                       /\ pc[c] \in {"idle", "begun", "ask"} => attempt[c] <= MaxTechnicalRetries

\* Every step keeps the retries within their bound.
LEMMA RetriesPreserved ==
    ASSUME Executing, Retries, [ExecutionNext]_executionVars
    PROVE  Retries'
<1> USE RetriesAssumption
<1>1. ASSUME NEW c \in Call, Ask(c) PROVE Retries'
  <2>1. /\ attempt' = [attempt EXCEPT ![c] = attempt[c] + 1]
        /\ pc' = [pc EXCEPT ![c] = "asking"]
        /\ timer' = timer \cup {c} /\ pc[c] = "ask"
    BY <1>1 DEF Ask, Goto, Executing, Typed
  <2>2. attempt[c] \in Nat /\ attempt[c] <= MaxTechnicalRetries
    BY <2>1 DEF Executing, Typed, Retries
  <2>3. ASSUME NEW d \in Call
        PROVE  /\ attempt'[d] <= MaxTechnicalRetries + 1
               /\ pc'[d] \in {"idle", "begun", "ask"} => attempt'[d] <= MaxTechnicalRetries
    <3>1. CASE d = c
      BY <2>1, <2>2, <3>1 DEF Executing, Typed
    <3>2. CASE d # c
      BY <2>1, <3>2 DEF Executing, Typed, Retries
    <3> QED
      BY <3>1, <3>2
  <2> QED
    BY <2>1, <2>3 DEF Retries
<1>2. ASSUME NEW c \in Call, pc[c] = "asking", FailAttempt(c) PROVE Retries'
  <2>1. /\ UNCHANGED attempt /\ timer' = timer \ {c} /\ attempt[c] \in Nat
        /\ pc' = [pc EXCEPT ![c] = IF attempt[c] <= MaxTechnicalRetries THEN "ask" ELSE "reject"]
    BY <1>2 DEF FailAttempt, Goto, Executing, Typed
  <2> QED
    BY <2>1 DEF Executing, Typed, Retries
<1>3. ASSUME NEW c \in Call, NEW where, where \notin {"idle", "begun", "ask"},
             Goto(c, where), UNCHANGED attempt, timer' \subseteq timer
      PROVE  Retries'
  BY <1>3 DEF Goto, Executing, Typed, Retries
<1>4. ASSUME NEW c \in Call, Execute(c) \/ CheckInput(c) PROVE Retries'
  <2>1. /\ UNCHANGED <<attempt, timer>> /\ attempt[c] = 0
        /\ \A d \in Call : d # c => pc'[d] = pc[d]
    BY <1>4 DEF Execute, CheckInput, Goto, Executing, Typed, Sound
  <2> QED
    BY <2>1 DEF Retries
<1>5. ASSUME NEW c \in Call,
             \/ \E answer \in Content : Answer(c, answer)
             \/ Judge(c) \/ CreateExecution(c) \/ Return(c) \/ Lose(c)
      PROVE  Retries'
  BY <1>3, <1>5 DEF Answer, Judge, CreateExecution, Return, Lose
<1>6. CASE UNCHANGED executionVars
  BY <1>6 DEF executionVars, Retries
<1> QED
  BY <1>1, <1>2, <1>4, <1>5, <1>6 DEF ExecutionNext, Step, ProviderFails, TimeOut

-----------------------------------------------------------------------------
\* Interpretation: the theorems

\* No text at risk reaches the provider, at the first attempt or a retry, whoever
\* asks (detectHighRiskContent before complete, ai-orchestrator.service.ts).
THEOREM RiskyTextNeverLeaves == ExecutionSpec => []RiskyTextStaysHere
<1>1. Executing => RiskyTextStaysHere
  <2> SUFFICES ASSUME Executing, NEW c \in Call, attempt[c] > 0
               PROVE  ~HighRisk(input[c].text)
    BY DEF RiskyTextStaysHere
  <2>1. input[c] \in Inputs
    BY DEF Executing, Sound
  <2>2. ~HighRisk(input[c].checked)
    BY DEF Executing, Sound
  <2> QED
    BY <2>1, <2>2, CheckedIsSent
<1> QED
  BY <1>1, AlwaysSound, PTL

-----------------------------------------------------------------------------
\* Interpretation: the refinement

\* A step of an execution is a step of what execute() promises, or none of it.
LEMMA StepKeepsPromise ==
    ASSUME Executing, [ExecutionNext]_executionVars
    PROVE  [Promise!Next]_(Promise!vars)
<1> USE DEF Promise!vars
<1>1. ASSUME NEW c \in Call, CreateExecution(c) PROVE Promise!Next
  <2>1. row[c] = "none"
    BY <1>1 DEF CreateExecution, Executing, Sound, Unrecorded
  <2>2. \E status \in Promise!Status : Promise!Record(c, status)
    BY <1>1, <2>1 DEF CreateExecution, Promise!Record, Promise!Status
  <2> QED
    BY <2>2 DEF Promise!Next
<1>2. ASSUME NEW c \in Call, Return(c) PROVE Promise!Next
  <2>1. Promise!Tell(c)
    BY <1>2 DEF Return, Executing, Sound, Promise!Tell
  <2> QED
    BY <2>1 DEF Promise!Next
<1>3. ASSUME NEW c \in Call,
             \/ Execute(c) \/ CheckInput(c) \/ Ask(c) \/ FailAttempt(c)
             \/ Judge(c) \/ Lose(c) \/ \E answer \in Content : Answer(c, answer)
      PROVE  UNCHANGED <<row, told>>
  BY <1>3 DEF Execute, CheckInput, Ask, FailAttempt, Judge, Lose, Answer
<1>4. CASE UNCHANGED executionVars
  BY <1>4 DEF executionVars
<1> QED
  BY <1>1, <1>2, <1>3, <1>4 DEF ExecutionNext, Step, ProviderFails, TimeOut

\* execute() implements AIExecution: one row at most, never rewritten, and the
\* caller, whose settlement of credits relies on it, is told what the row says.
THEOREM KeepsItsPromise == ExecutionSpec => ImplementsAIExecution
<1>1. ExecutionInit => Promise!Init
  BY DEF ExecutionInit, Promise!Init
<1>2. Executing /\ [ExecutionNext]_executionVars => [Promise!Next]_(Promise!vars)
  BY StepKeepsPromise
<1> QED
  BY <1>1, <1>2, AlwaysSound, PTL DEF ExecutionSpec, Promise!Spec, ImplementsAIExecution

\* Every reachable state is well typed (ExecutionTypeOK): however attempts fail or
\* time out, no execution asks the provider more than once and MaxTechnicalRetries
\* times again (the loop of execute, ai-orchestrator.service.ts).
THEOREM ExecutionTyped == ExecutionSpec => []ExecutionTypeOK
<1>1. ExecutionInit => Executing /\ Retries
  <2> SUFFICES ASSUME ExecutionInit PROVE Retries
    BY InitiallySound
  <2> QED
    BY RetriesAssumption DEF ExecutionInit, Retries
<1>2. Executing /\ Retries /\ [ExecutionNext]_executionVars => (Executing /\ Retries)'
  BY SoundPreserved, RetriesPreserved
<1>3. Executing /\ Retries => ExecutionTypeOK
  <2> SUFFICES ASSUME Executing, Retries PROVE ExecutionTypeOK
    OBVIOUS
  <2>1. attempt \in [Call -> 0..MaxTechnicalRetries + 1]
    BY RetriesAssumption DEF Executing, Typed, Retries
  <2> QED
    BY <2>1 DEF Executing, Typed, Retries, ExecutionTypeOK, Unrecorded
<1> QED
  BY <1>1, <1>2, <1>3, PTL DEF ExecutionSpec
=============================================================================
