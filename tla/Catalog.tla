------------------------------- MODULE Catalog -------------------------------
(***************************************************************************)
(* What administrators publish: the versions of one prompt                 *)
(* (PromptsService) and the forms and the data of one service              *)
(* (ServicesService) with the cached list of services (CacheService), the  *)
(* audit of both controllers, and the seed script, which each deployment   *)
(* may run beside them.                                                    *)
(*                                                                         *)
(* The transactions run in PostgreSQL at READ COMMITTED: a statement sees  *)
(* the rows committed when it starts, waits for a row another transaction  *)
(* has written, looks at that row again when it gets it, and never sees    *)
(* the rows inserted meanwhile.  A transaction is therefore three steps:   *)
(* the start of its first statement, the rows that statement writes, and   *)
(* the second statement with the commit.                                   *)
(***************************************************************************)
EXTENDS Integers, FiniteSets

CONSTANTS
    MaxVersion,     \* bound: versions of the prompt
    MaxForm,        \* bound: forms of the service
    MaxRevision,    \* bound: updates of the service, by administrators or the seed
    Request         \* HTTP requests served at the same time

ASSUME BoundsAssumption == {MaxVersion, MaxForm} \subseteq Nat \ {0} /\ MaxRevision \in Nat

VARIABLES
    prompt,         \* is there a row of prompts
    version,        \* prompt_versions: status of each, "NONE" without a row
    form,           \* service_forms: "NONE", "ACTIVE" or "INACTIVE"
    revision,       \* services: how often the row has been updated
    cache,          \* services:list in Redis
    seed,           \* how far the seed script has come
    req             \* what each request is doing

promptVars == <<prompt, version>>
serviceVars == <<form, revision>>
vars == <<promptVars, serviceVars, cache, seed, req>>

Version == 1..MaxVersion

Form == 1..MaxForm

LastOf(s) == IF s = {} THEN 0 ELSE CHOOSE v \in s : \A w \in s : w <= v

\* The form users fill in: the last of the active ones (take: 1).
ShownForm == LastOf({v \in Form : form[v] = "ACTIVE"})

\* updateInputs: the form answers are validated against is any active one (take: 1
\* without an order).
ValidatingForms == {v \in Form : form[v] = "ACTIVE"}

\* What the public list shows of the service: its row and its form.
List == [revision |-> revision, form |-> ShownForm]

Lists == [revision : 0..MaxRevision, form : 0..MaxForm]

Published == {v \in Version : version[v] = "PUBLISHED"}

\* getPublishedVersionId: the version the workers use, 0 for none.
PublishedVersion == LastOf(Published)

NoCache == [state |-> "empty"]

\* ttl: the key expires (SET ... EX).
Caches == {NoCache} \cup [state : {"set"}, list : Lists, ttl : BOOLEAN]

NoRequest == [kind |-> "idle"]

\* target: the version to create or to publish; found: the published rows that
\* the first statement of the transaction has found; wrote: those it has written
\* and holds until the commit.
Requests == {NoRequest} \cup
    [kind : {"version", "publish", "form"}, pc : {"chosen", "found", "written"},
     target : Nat, found : SUBSET Nat, wrote : SUBSET Nat] \cup
    [kind : {"prompt", "invalidate", "audit"}] \cup
    [kind : {"list"}, pc : {"missed"}] \cup
    [kind : {"list"}, pc : {"read"}, list : Lists]

Init ==
    /\ prompt = FALSE
    /\ version = [v \in Version |-> "NONE"]
    /\ form = [v \in Form |-> "NONE"]
    /\ revision = 0
    /\ cache = NoCache
    /\ seed = "services"
    /\ req = [q \in Request |-> NoRequest]

At(q, kind, pc) == req[q].kind = kind /\ req[q].pc = pc

Idle(q) == req[q] = NoRequest

End(q) == req' = [req EXCEPT ![q] = NoRequest]

Start(q, kind, target) ==
    req' = [req EXCEPT ![q] = [kind |-> kind, pc |-> "chosen", target |-> target,
                               found |-> {}, wrote |-> {}]]

\* The service has done its part: the controller goes on with the audit.
Then(q, kind) == req' = [req EXCEPT ![q] = [kind |-> kind]]

\* The rows another open transaction of this kind has written.
Locked(q, kind) ==
    UNION {req[p].wrote : p \in {o \in Request \ {q} : At(o, kind, "written")}}

-----------------------------------------------------------------------------
\* PromptsService

\* create: the row of the prompt, then its first version.
CreatePrompt(q) ==
    /\ Idle(q) /\ ~prompt
    /\ prompt' = TRUE
    /\ req' = [req EXCEPT ![q] = [kind |-> "prompt"]]
    /\ UNCHANGED <<version, serviceVars, cache, seed>>

\* The unique key (promptId, version) refuses a second row.
InsertVersion(q, v) ==
    IF version[v] = "NONE"
    THEN version' = [version EXCEPT ![v] = "DRAFT"] /\ Then(q, "audit")
    ELSE UNCHANGED version /\ End(q)

CreateFirstVersion(q) ==
    /\ req[q].kind = "prompt"
    /\ InsertVersion(q, 1)
    /\ UNCHANGED <<prompt, serviceVars, cache, seed>>

BeginVersion(q) ==
    /\ Idle(q) /\ prompt
    /\ LET next == LastOf({v \in Version : version[v] # "NONE"}) + 1 IN
         next \in Version /\ Start(q, "version", next)
    /\ UNCHANGED <<promptVars, serviceVars, cache, seed>>

CreateVersion(q) ==
    /\ At(q, "version", "chosen")
    /\ InsertVersion(q, req[q].target)
    /\ UNCHANGED <<prompt, serviceVars, cache, seed>>

BeginPublish(q) ==
    /\ Idle(q)
    /\ LET drafts == {v \in Version : version[v] = "DRAFT"} IN
         drafts # {} /\ Start(q, "publish", LastOf(drafts))
    /\ UNCHANGED <<promptVars, serviceVars, cache, seed>>

\* updateMany where the status is PUBLISHED: the rows it finds ...
FindPublished(q) ==
    /\ At(q, "publish", "chosen")
    /\ req' = [req EXCEPT ![q].pc = "found",
                          ![q].found = {v \in Version : version[v] = "PUBLISHED"}]
    /\ UNCHANGED <<promptVars, serviceVars, cache, seed>>

\* ... and the rows it writes, once nobody else holds them.
ArchivePublished(q) ==
    /\ At(q, "publish", "found")
    /\ req[q].found \cap Locked(q, "publish") = {}
    /\ req' = [req EXCEPT ![q].pc = "written",
                          ![q].wrote = {v \in req[q].found : version[v] = "PUBLISHED"}]
    /\ UNCHANGED <<promptVars, serviceVars, cache, seed>>

\* Mutant: only a version that is still a draft is published.
PublishIfDraft(q) ==
    /\ At(q, "publish", "written")
    /\ req[q].target \notin Locked(q, "publish")
    /\ version' = [v \in Version |->
                     IF v = req[q].target /\ version[v] = "DRAFT" THEN "PUBLISHED"
                     ELSE IF v \in req[q].wrote THEN "ARCHIVED" ELSE version[v]]
    /\ Then(q, "audit")
    /\ UNCHANGED <<prompt, serviceVars, cache, seed>>

\* The update of the version by id, and the commit.
CommitPublish(q) ==
    /\ At(q, "publish", "written")
    /\ req[q].target \notin Locked(q, "publish")
    /\ version' = [v \in Version |->
                     IF v = req[q].target THEN "PUBLISHED"
                     ELSE IF v \in req[q].wrote THEN "ARCHIVED" ELSE version[v]]
    /\ Then(q, "audit")
    /\ UNCHANGED <<prompt, serviceVars, cache, seed>>

-----------------------------------------------------------------------------
\* ServicesService

BeginForm(q) ==
    /\ Idle(q)
    /\ LET next == LastOf({v \in Form : form[v] # "NONE"}) + 1 IN
         next \in Form /\ Start(q, "form", next)
    /\ UNCHANGED <<promptVars, serviceVars, cache, seed>>

FindActive(q) ==
    /\ At(q, "form", "chosen")
    /\ req' = [req EXCEPT ![q].pc = "found",
                          ![q].found = {v \in Form : form[v] = "ACTIVE"}]
    /\ UNCHANGED <<promptVars, serviceVars, cache, seed>>

DeactivateForms(q) ==
    /\ At(q, "form", "found")
    /\ req[q].found \cap Locked(q, "form") = {}
    /\ req' = [req EXCEPT ![q].pc = "written",
                          ![q].wrote = {v \in req[q].found : form[v] = "ACTIVE"}]
    /\ UNCHANGED <<promptVars, serviceVars, cache, seed>>

\* Mutant: without the unique key (serviceId, version), as an upsert would.
PublishFormOfAnyVersion(q) ==
    /\ At(q, "form", "written")
    /\ form' = [v \in Form |-> IF v = req[q].target THEN "ACTIVE"
                                  ELSE IF v \in req[q].wrote THEN "INACTIVE" ELSE form[v]]
    /\ Then(q, "invalidate")
    /\ UNCHANGED <<promptVars, revision, cache, seed>>

\* The new form and the commit; the unique key (serviceId, version) rolls all of
\* it back where that version has been created meanwhile.
CommitForm(q) ==
    /\ At(q, "form", "written")
    /\ IF form[req[q].target] = "NONE"
       THEN /\ form' = [v \in Form |-> IF v = req[q].target THEN "ACTIVE"
                                          ELSE IF v \in req[q].wrote THEN "INACTIVE" ELSE form[v]]
            /\ Then(q, "invalidate")
       ELSE UNCHANGED form /\ End(q)
    /\ UNCHANGED <<promptVars, revision, cache, seed>>

UpdateService(q) ==
    /\ Idle(q) /\ revision < MaxRevision
    /\ revision' = revision + 1
    /\ Then(q, "invalidate")
    /\ UNCHANGED <<promptVars, form, cache, seed>>

InvalidateList(q) ==
    /\ req[q].kind = "invalidate"
    /\ cache' = NoCache
    /\ Then(q, "audit")
    /\ UNCHANGED <<promptVars, serviceVars, seed>>

\* AuditService.record: a row of its own, after the commit; nothing here reads it.
Record(q) ==
    /\ req[q].kind = "audit"
    /\ End(q)
    /\ UNCHANGED <<promptVars, serviceVars, cache, seed>>

\* listActive, when the cache has nothing.
MissList(q) ==
    /\ Idle(q) /\ cache = NoCache
    /\ req' = [req EXCEPT ![q] = [kind |-> "list", pc |-> "missed"]]
    /\ UNCHANGED <<promptVars, serviceVars, cache, seed>>

ReadList(q) ==
    /\ At(q, "list", "missed")
    /\ req' = [req EXCEPT ![q] = [kind |-> "list", pc |-> "read", list |-> List]]
    /\ UNCHANGED <<promptVars, serviceVars, cache, seed>>

\* Mutant: the list is cached until it is invalidated.
CacheListForEver(q) ==
    /\ At(q, "list", "read")
    /\ cache' = [state |-> "set", list |-> req[q].list, ttl |-> FALSE]
    /\ End(q)
    /\ UNCHANGED <<promptVars, serviceVars, seed>>

\* What was read may have been updated, and the cache invalidated, since.
CacheList(q) ==
    /\ At(q, "list", "read")
    /\ cache' = [state |-> "set", list |-> req[q].list, ttl |-> TRUE]
    /\ End(q)
    /\ UNCHANGED <<promptVars, serviceVars, seed>>

ExpireList ==
    /\ cache # NoCache /\ cache.ttl
    /\ cache' = NoCache
    /\ UNCHANGED <<promptVars, serviceVars, seed, req>>

-----------------------------------------------------------------------------
\* prisma/seed.ts: each upsert commits on its own, and the first one that fails
\* ends the script.

Seed(from, to) ==
    /\ seed = from /\ seed' = to
    /\ UNCHANGED <<cache, req>>

\* What an administrator has changed of the service is overwritten, if the seed
\* differs from it, and the cached list is not invalidated.
SeedService ==
    /\ Seed("services", "form")
    /\ revision' \in {revision, revision + 1} /\ revision' <= MaxRevision
    /\ UNCHANGED <<promptVars, form>>

\* Form 1 is active again, beside the one that has been published since.
SeedForm ==
    /\ Seed("form", "prompt")
    /\ \A q \in Request : At(q, "form", "written") => 1 \notin req[q].wrote
    /\ form' = [form EXCEPT ![1] = "ACTIVE"]
    /\ UNCHANGED <<promptVars, revision>>

SeedPrompt ==
    /\ Seed("prompt", "find")
    /\ prompt' = TRUE
    /\ UNCHANGED <<version, serviceVars>>

SeedFindsVersion ==
    /\ Seed("find", IF version[1] = "NONE" THEN "version" ELSE "over")
    /\ UNCHANGED <<promptVars, serviceVars>>

\* Refused by the unique key if an administrator's came first.
SeedVersion ==
    /\ Seed("version", "over")
    /\ version' = IF version[1] = "NONE" THEN [version EXCEPT ![1] = "PUBLISHED"] ELSE version
    /\ UNCHANGED <<prompt, serviceVars>>

\* It stopped half way, or there is another deployment.
SeedAgain ==
    /\ Seed(seed, "services")
    /\ UNCHANGED <<promptVars, serviceVars>>

SeedStep ==
    \/ SeedService \/ SeedForm \/ SeedPrompt \/ SeedFindsVersion \/ SeedVersion \/ SeedAgain

-----------------------------------------------------------------------------
\* The process stops, a statement fails, or PostgreSQL ends a deadlock: the
\* transaction is rolled back and the request is over.
LoseRequest(q) ==
    /\ ~Idle(q)
    /\ End(q)
    /\ UNCHANGED <<promptVars, serviceVars, cache, seed>>

PromptStep(q) ==
    \/ CreateFirstVersion(q) \/ CreateVersion(q)
    \/ FindPublished(q) \/ ArchivePublished(q) \/ CommitPublish(q)

ServiceStep(q) ==
    \/ FindActive(q) \/ DeactivateForms(q) \/ CommitForm(q)
    \/ InvalidateList(q) \/ Record(q) \/ ReadList(q) \/ CacheList(q)

Next ==
    \/ \E q \in Request :
         \/ CreatePrompt(q) \/ BeginVersion(q) \/ BeginPublish(q) \/ PromptStep(q)
         \/ BeginForm(q) \/ UpdateService(q) \/ MissList(q) \/ ServiceStep(q)
         \/ LoseRequest(q)
    \/ ExpireList \/ SeedStep

Spec == Init /\ [][Next]_vars

\* Redis expires its keys; nobody is obliged to ask for anything.
FairSpec == Spec /\ WF_vars(ExpireList)

-----------------------------------------------------------------------------
\* Properties

TypeOK ==
    /\ prompt \in BOOLEAN
    /\ version \in [Version -> {"NONE", "DRAFT", "PUBLISHED", "ARCHIVED"}]
    /\ form \in [Form -> {"NONE", "ACTIVE", "INACTIVE"}]
    /\ revision \in 0..MaxRevision
    /\ cache \in Caches
    /\ seed \in {"services", "form", "prompt", "find", "version", "over"}
    /\ req \in [Request -> Requests]

\* A prompt that has a published version never loses its last one: the workers
\* ask for it in every reading (getPublishedVersionId) and fail without.  Neither
\* a failure half way, nor publications that overlap, nor the seed leave the
\* prompt without.
StaysPublished == [][PublishedVersion # 0 => PublishedVersion' # 0]_vars

\* The form that users fill in is the last one published, not an older one that a
\* slower publication, or the seed, has made active again, and there is always one
\* to validate against once there was.  The transaction alone does not give that:
\* the unique key on the version and the order of the forms do.
LastFormIsShown == \A v \in Form : form[v] # "NONE" => v <= ShownForm

\* "El backend vuelve a validar todos los campos aunque el frontend haya usado el
\* mismo esquema" (PLAN_TECNICO_MVP_ORACULO_IA.md): the form that users see is the
\* one that validates.  Not after the seed has made form 1 active again.
ValidatedAsShown == ValidatingForms \subseteq {ShownForm}

\* A list that a slow reader cached after the invalidation, or whose invalidation
\* was lost, or that the seed has outdated, goes by itself.
StaleListGoes ==
    (cache # NoCache /\ cache.list # List) ~> (cache = NoCache \/ cache.list = List)

\* "Solo una versión publicada de prompt puede estar activa"
\* (PLAN_TECNICO_MVP_ORACULO_IA.md): not after two publications that overlap.
OnePublishedVersion == Cardinality(Published) <= 1
=============================================================================
