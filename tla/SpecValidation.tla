---------------------------- MODULE SpecValidation ----------------------------
(***************************************************************************)
(* What a reconcile refuses before it touches anything: validate_single,   *)
(* validate_cluster and validate_assistant.  extraEnv has its own module,  *)
(* ContainerEnv.  An optional block of a spec that is left out is a record *)
(* whose first field says "none".                                          *)
(***************************************************************************)
EXTENDS Naturals, FiniteSets

None == "none"

(* A count or a percentage, as maxSurge and maxUnavailable write it.        *)
Unset == [unit |-> None, n |-> 0]
Count(n) == [unit |-> "count", n |-> n]
Percent(n) == [unit |-> "percent", n |-> n]
NoStrategy == [type |-> None, surge |-> Unset, unavailable |-> Unset]

ValidStrategy(s) ==
    /\ s.type \in {None, "RollingUpdate", "Recreate"}
    /\ s.type = "Recreate" => s.surge = Unset /\ s.unavailable = Unset

ValidSmtp(smtp) == smtp.host # None => smtp.port # 0

(* cn: the ways a spec asks for community nodes.                            *)
ValidCommunity(cn) == Cardinality(cn) <= 1

(* Each database type has one block of settings, and needs it unless it is  *)
(* sqlite; blocks of other types are refused.                               *)
BlockOf == [sqlite |-> "sqlite", postgresdb |-> "postgres", mysqldb |-> "mysql", mariadb |-> "mysql"]

ValidDatabase_BlocksOptional(db) ==
    db.type \in DOMAIN BlockOf /\ db.blocks \subseteq {BlockOf[db.type]}
ValidDatabase(db) ==
    /\ db.type \in DOMAIN BlockOf
    /\ db.blocks \subseteq {BlockOf[db.type]}
    /\ db.type # "sqlite" => BlockOf[db.type] \in db.blocks

ValidBinaryData(bd) ==
    bd.mode # None =>
        /\ bd.mode \in {"default", "database", "filesystem", "s3"}
        /\ bd.mode = "s3" => bd.s3
        /\ bd.shared # None => bd.mode = "filesystem"

ValidSingle(s) ==
    /\ s.name # <<"illegal">>
    /\ ~({"ingress", "httpRoute"} \subseteq s.networking)
    /\ s.db.type # None => ValidDatabase(s.db)
    /\ ValidSmtp(s.smtp)
    /\ \A r \in DOMAIN s.role : ValidStrategy(s.role[r].strategy)

ValidCluster(s) ==
    /\ ValidDatabase(s.db) /\ s.db.type # "sqlite"
    /\ ValidSmtp(s.smtp)
    /\ ValidCommunity(s.community)
    /\ ValidBinaryData(s.binary)
    /\ \A r \in DOMAIN s.role : ValidStrategy(s.role[r].strategy)

-----------------------------------------------------------------------------
(* Assistants.  Object names are the Assistant's namespace, its name and a  *)
(* suffix, joined with dashes; widths are what counts here.                 *)
MaxName == 63
SuffixWidth == [secrets |-> 16, certs |-> 14, tls_api |-> 16, tls_runner |-> 19,
                api |-> 12, runner |-> 17, docker |-> 24]
NameWidth(nsWidth, crWidth, part) == nsWidth + 1 + crWidth + SuffixWidth[part]

Providers == {"anthropic", "openai", "openrouter"}
InheritedKeyDefault == "encryption_key"
ValidApiKeySecret(k) == k.name # "" /\ k.key \notin {"", InheritedKeyDefault}

(* model.name is split at its first slash; without one there is no provider. *)
ValidModel(m) ==
    IF m.url = None
    THEN /\ m.provider \in Providers /\ m.model # ""
         /\ m.key.name # None
    ELSE m.provider # None \/ m.model # ""

ValidAssistant(nsWidth, crWidth, s) ==
    /\ s.target.kind \in {"Cluster", "Single"} /\ s.target.name # ""
    /\ ValidModel(s.model)
    /\ s.model.key.name # None => ValidApiKeySecret(s.model.key)
    /\ s.brave.name # None => ValidApiKeySecret(s.brave)
    /\ s.namespaceIsLabel
    /\ s.version # "" /\ s.sandboxImage # ""
    /\ NameWidth(nsWidth, crWidth, "docker") <= MaxName
=============================================================================
