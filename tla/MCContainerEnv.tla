--------------------------- MODULE MCContainerEnv ---------------------------
(* The specs TLC tries: settings of the operator, and extraEnv lists of up  *)
(* to two entries cluster-wide and one on a role.  DB_TYPE is reserved.     *)
EXTENDS ContainerEnv

ClusterWide(names) == { << >> }
    \union {<<Entry(n, "x")>> : n \in names}
    \union {<<Entry(n, "x"), Entry(m, "y")>> : n, m \in names}
OnRole(names) == {<< >>} \union {<<Entry(n, "z")>> : n \in names}

Plain == [kind |-> "Cluster", host |-> None, tls |-> FALSE,
          webhookHost |-> None, webhookTls |-> FALSE, webhooks |-> FALSE,
          smtp |-> FALSE, logLevel |-> None, packages |-> FALSE, database |-> TRUE,
          binaryData |-> None, multiMain |-> FALSE, keyTtl |-> None,
          concurrency |-> None, secureCookie |-> None, extraEnv |-> << >>,
          roleExtra |-> [r \in Roles |-> << >>]]

Settings == { Plain, [Plain EXCEPT !.host = "main", !.tls = TRUE],
              [Plain EXCEPT !.host = "main", !.webhooks = TRUE, !.webhookHost = "hooks",
                            !.webhookTls = TRUE, !.secureCookie = "false"],
              [Plain EXCEPT !.host = "main", !.webhooks = TRUE, !.concurrency = "10",
                            !.smtp = TRUE, !.logLevel = "debug"],
              [Plain EXCEPT !.multiMain = TRUE, !.keyTtl = "10", !.binaryData = "s3",
                            !.packages = TRUE],
              [Plain EXCEPT !.binaryData = "shared"],
              [Plain EXCEPT !.kind = "Single", !.host = "main", !.secureCookie = "true"],
              [Plain EXCEPT !.kind = "Single", !.database = FALSE] }

OnCluster(names, roles) ==
    { [s EXCEPT !.extraEnv = l, !.roleExtra[r] = f] :
        s \in {t \in Settings : t.kind = "Cluster"}, r \in roles,
        l \in ClusterWide(names), f \in OnRole(names) }
SingleExtra(names) ==
    { [s EXCEPT !.extraEnv = l] : s \in {t \in Settings : t.kind = "Single"}, l \in ClusterWide(names) }
WebhooksExist(s) == s.roleExtra["webhook"] # << >> => s.webhooks

Malformed == { [s EXCEPT !.extraEnv = <<Entry("FOO", "malformed")>>] : s \in Settings }
Overridable == {"FOO", "WEBHOOK_URL", "N8N_SECURE_COOKIE", "DB_TYPE"}
Overrides ==
    { s \in OnCluster(Overridable, {"main", "webhook"}) : WebhooksExist(s) }
    \union SingleExtra(Overridable) \union Malformed
Tuning ==
    OnCluster({"FOO", "N8N_MULTI_MAIN_SETUP_KEY_TTL", "N8N_DEFAULT_BINARY_DATA_MODE"}, {"main"})
=============================================================================
