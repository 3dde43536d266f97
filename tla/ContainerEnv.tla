---------------------------- MODULE ContainerEnv ----------------------------
(***************************************************************************)
(* The environment of the n8n containers of one Single or Cluster.         *)
(*                                                                         *)
(* A reconcile refuses illegal extraEnv, then builds each role's container *)
(* environment: what the operator wires itself, followed by the user       *)
(* environment, in which the operator's defaults, secureCookie, the        *)
(* cluster-wide and the role's extraEnv are layered and merged by name     *)
(* (build_user_env, whose loop is the action Merge).  An entry is a name   *)
(* and a value; an optional field of the spec that is left out is None.    *)
(***************************************************************************)
EXTENDS Naturals, Sequences

CONSTANTS
    Inputs,     \* the specs to be reconciled
    None        \* "left out"

Roles == {"single", "main", "worker", "webhook"}
Entry(name, value) == [name |-> name, value |-> value]
UserEnv == Seq([name : STRING, value : STRING])
BinaryData == {None, "s3", "database", "shared", "filesystem", "default"}

ASSUME InputsOK ==
    \A s \in Inputs : /\ s.kind \in {"Single", "Cluster"} /\ s.webhooks \in BOOLEAN
                      /\ s.binaryData \in BinaryData
                      /\ s.extraEnv \in UserEnv /\ s.roleExtra \in [Roles -> UserEnv]
                      /\ s.roleExtra["single"] = << >>      \* a Single has one list

VARIABLES
    spec,       \* the spec this reconcile works on
    role,       \* the role whose environment is being built
    layered,    \* its layers of user environment, from low to high
    next,       \* the entry of layered that the loop looks at next
    order,      \* names in order of first appearance
    latest,     \* latest[n]: the entry of name n that wins so far
    container   \* container[r]: the finished environment of role r

vars == <<spec, role, layered, next, order, latest, container>>
loopVars == <<next, order, latest>>

-----------------------------------------------------------------------------
(* Lists of entries.                                                        *)

Given(name, field) == IF field = None THEN << >> ELSE <<Entry(name, field)>>
When(condition, entries) == IF condition THEN entries ELSE << >>
On(name) == Entry(name, "true")

Protocol(tls) == IF tls THEN "https" ELSE "http"
Url(tls, host) == Protocol(tls) \o "://" \o host
WebhookUrl(tls, host) == Entry("WEBHOOK_URL", Url(tls, host) \o "/")

HostEnv(host, tls) ==
    When(host # None, << Entry("N8N_HOST", host), Entry("N8N_PROTOCOL", Protocol(tls)),
                         Entry("N8N_EDITOR_BASE_URL", Url(tls, host)) >>)

ClusterWebhookUrl_PerRole(s, r) ==
    LET host == IF r = "webhook" THEN s.webhookHost ELSE s.host
    IN  When(host # None, <<WebhookUrl(s.tls, host)>>)
ClusterWebhookUrl(s, r) ==
    IF s.webhooks /\ s.webhookHost # None
    THEN <<WebhookUrl(s.webhookTls, s.webhookHost)>>
    ELSE When(s.host # None, <<WebhookUrl(s.tls, s.host)>>)

SmtpEnv(s) == When(s.smtp, <<Entry("N8N_EMAIL_MODE", "smtp"), Entry("N8N_SMTP_HOST", "smtp")>>)
LoggingEnv(s) == Given("N8N_LOG_LEVEL", s.logLevel)
CommunityEnv(s) ==
    When(s.packages, <<Entry("N8N_COMMUNITY_PACKAGES", "packages"),
                       On("N8N_COMMUNITY_PACKAGES_MANAGED_BY_ENV")>>)

RoleHost(s, r) == CASE r \in {"single", "main"} -> s.host
                    [] r = "webhook" -> s.webhookHost
                    [] r = "worker" -> None
RoleTls(s, r) == IF r = "webhook" THEN s.webhookTls ELSE s.tls

Defaults(s, r) ==
    IF r = "single"
    THEN HostEnv(s.host, s.tls)
         \o When(s.host # None, <<WebhookUrl(s.tls, s.host)>>)
         \o SmtpEnv(s) \o LoggingEnv(s)
    ELSE HostEnv(RoleHost(s, r), RoleTls(s, r))
         \o SmtpEnv(s) \o LoggingEnv(s) \o CommunityEnv(s) \o ClusterWebhookUrl(s, r)

Layers_RoleFirst(s, r) ==
    Defaults(s, r) \o Given("N8N_SECURE_COOKIE", s.secureCookie)
    \o s.roleExtra[r] \o s.extraEnv
Layers(s, r) ==
    Defaults(s, r) \o Given("N8N_SECURE_COOKIE", s.secureCookie)
    \o s.extraEnv \o s.roleExtra[r]

(* What the operator wires itself.                                          *)
DbEnv(s) == When(s.database, <<Entry("DB_TYPE", "postgresdb")>>)

BinaryDataEnv(s) ==
    When(s.binaryData \in {"s3", "database"},
         <<Entry("N8N_AVAILABLE_BINARY_DATA_MODES", "filesystem," \o s.binaryData)>>)
    \o When(s.binaryData # None,
            <<Entry("N8N_DEFAULT_BINARY_DATA_MODE",
                    IF s.binaryData = "shared" THEN "filesystem" ELSE s.binaryData)>>)
    \o When(s.binaryData = "s3", <<Entry("N8N_EXTERNAL_STORAGE_S3_HOST", "s3")>>)
    \o When(s.binaryData = "shared", <<Entry("N8N_STORAGE_PATH", "/home/node/binary-data")>>)

CommonEnv(s) ==
    << Entry("EXECUTIONS_MODE", "queue"), On("OFFLOAD_MANUAL_EXECUTIONS_TO_WORKERS"),
       Entry("N8N_ENCRYPTION_KEY", "secret") >>
    \o DbEnv(s) \o <<Entry("QUEUE_BULL_REDIS_HOST", "redis")>> \o BinaryDataEnv(s)

MultiMainEnv(s) ==
    When(s.multiMain, <<On("N8N_MULTI_MAIN_SETUP_ENABLED")>>
                      \o Given("N8N_MULTI_MAIN_SETUP_KEY_TTL", s.keyTtl))

Wired(s, r) ==
    CASE r = "single"  -> <<Entry("N8N_ENCRYPTION_KEY", "secret")>> \o DbEnv(s)
      [] r = "main"    -> CommonEnv(s) \o MultiMainEnv(s)
                          \o When(s.webhooks, <<On("N8N_DISABLE_PRODUCTION_MAIN_PROCESS")>>)
      [] r = "worker"  -> CommonEnv(s)
                          \o Given("N8N_CONCURRENCY_PRODUCTION_LIMIT", s.concurrency)
                          \o <<On("QUEUE_HEALTH_CHECK_ACTIVE")>>
      [] r = "webhook" -> CommonEnv(s)

(* Every DB_ and QUEUE_BULL_ name is reserved by prefix; one of each stands *)
(* for all.                                                                 *)
ReservedEnv ==
    { "N8N_ENCRYPTION_KEY", "EXECUTIONS_MODE", "OFFLOAD_MANUAL_EXECUTIONS_TO_WORKERS",
      "N8N_CONCURRENCY_PRODUCTION_LIMIT", "QUEUE_HEALTH_CHECK_ACTIVE",
      "N8N_DISABLE_PRODUCTION_MAIN_PROCESS", "N8N_MULTI_MAIN_SETUP_ENABLED",
      "DB_TYPE", "QUEUE_BULL_REDIS_HOST" }

(* An entry that sets both or neither of value and valueFrom is malformed.  *)
LegalExtra(env) == \A i \in DOMAIN env : /\ env[i].name \notin ReservedEnv
                                         /\ env[i].value # "malformed"

RolesOf(s) == CASE s.kind = "Single" -> <<"single">>
                [] s.kind = "Cluster" -> <<"main", "worker">> \o When(s.webhooks, <<"webhook">>)

ValidateExtra_ClusterOnly(s) == LegalExtra(s.extraEnv)
ValidateExtra(s) ==
    LegalExtra(s.extraEnv) /\ \A i \in DOMAIN RolesOf(s) : LegalExtra(s.roleExtra[RolesOf(s)[i]])

-----------------------------------------------------------------------------
Init ==
    /\ spec \in Inputs
    /\ role = "start"
    /\ layered = << >> /\ next = 1 /\ order = << >> /\ latest = << >>
    /\ container = << >>

StartRole(r) ==
    /\ role' = r
    /\ layered' = Layers(spec, r)
    /\ next' = 1 /\ order' = << >> /\ latest' = << >>

Validate ==
    /\ role = "start"
    /\ \/ /\ ValidateExtra(spec)
          /\ StartRole(RolesOf(spec)[1])
          /\ UNCHANGED <<spec, container>>
       \/ /\ ~ValidateExtra(spec)
          /\ role' = "rejected"
          /\ UNCHANGED <<spec, layered, loopVars, container>>

Extend(f, x, y) == [z \in DOMAIN f \union {x} |-> IF z = x THEN y ELSE f[z]]

Merge ==
    /\ role \in Roles /\ next <= Len(layered)
    /\ LET e == layered[next] IN
        /\ order' = IF e.name \in DOMAIN latest THEN order ELSE Append(order, e.name)
        /\ latest' = Extend(latest, e.name, e)
    /\ next' = next + 1
    /\ UNCHANGED <<spec, role, layered, container>>

Successor(s, r) ==
    LET roles == RolesOf(s)
        i == CHOOSE k \in DOMAIN roles : roles[k] = r
    IN  IF i = Len(roles) THEN "done" ELSE roles[i + 1]

Render ==
    /\ role \in Roles /\ next > Len(layered)
    /\ container' = Extend(container, role,
                           [wired |-> Wired(spec, role),
                            user |-> [i \in DOMAIN order |-> latest[order[i]]]])
    /\ IF Successor(spec, role) = "done"
       THEN role' = "done" /\ UNCHANGED <<layered, loopVars>>
       ELSE StartRole(Successor(spec, role))
    /\ UNCHANGED spec

Next == Validate \/ Merge \/ Render

Spec == Init /\ [][Next]_vars

-----------------------------------------------------------------------------
(* The user environment is "de-duplicated by name (so the container never   *)
(* gets two entries for the same variable)" (env/mod.rs:26-33).             *)
UserEnvUnique ==
    \A r \in DOMAIN container :
        LET u == container[r].user
        IN  \A i, j \in DOMAIN u : u[i].name = u[j].name => i = j

(* No container gets two entries for one variable: what the user sets never *)
(* meets what the operator wires (validate.rs:25-26, spec/common.rs:16-19). *)
NoDuplicateEnv ==
    \A r \in DOMAIN container :
        LET e == container[r].wired \o container[r].user
        IN  \A i, j \in DOMAIN e : e[i].name = e[j].name => i = j

(* Every entry comes from the highest layer that sets its name, the last    *)
(* one if that layer sets it twice (env/mod.rs:27-31).                      *)
Sets(env, n) == {i \in DOMAIN env : env[i].name = n}
LastIn(env, n) == env[CHOOSE i \in Sets(env, n) : \A j \in Sets(env, n) : j <= i]
Winner(s, r, n) ==
    CASE Sets(s.roleExtra[r], n) # {} -> LastIn(s.roleExtra[r], n).value
      [] Sets(s.roleExtra[r], n) = {} /\ Sets(s.extraEnv, n) # {} -> LastIn(s.extraEnv, n).value
      [] Sets(s.roleExtra[r], n) \union Sets(s.extraEnv, n) = {} ->
            IF n = "N8N_SECURE_COOKIE" THEN s.secureCookie ELSE LastIn(Defaults(s, r), n).value
LayersWin ==
    \A r \in DOMAIN container :
        LET u == container[r].user
        IN  /\ \A i \in DOMAIN u : u[i].value = Winner(spec, r, u[i].name)
            /\ {u[i].name : i \in DOMAIN u} = {Layers(spec, r)[i].name : i \in DOMAIN Layers(spec, r)}

(* WEBHOOK_URL "must be the same on every role" (env/mod.rs:98-100), unless *)
(* a role's own extraEnv says otherwise.                                    *)
EntryOf(r, n) == {container[r].user[i] : i \in Sets(container[r].user, n)}
WebhookUrlAgrees ==
    role = "done" => \A q, r \in DOMAIN container :
        \/ EntryOf(q, "WEBHOOK_URL") = EntryOf(r, "WEBHOOK_URL")
        \/ Sets(spec.roleExtra[q] \o spec.roleExtra[r], "WEBHOOK_URL") # {}
=============================================================================
