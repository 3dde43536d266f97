------------------------------ MODULE MCWorkloads ------------------------------
(* Namespaces for TLC to fill: a Cluster, a Single and an Assistant alone,  *)
(* whose specs are edited, and two Assistants of one name from different    *)
(* namespaces that share a sandbox namespace.  The names of Assistant "ai"  *)
(* of "shop" come to exactly 63 characters.                                 *)
EXTENDS Workloads

Cr(kind, ns, name) == [kind |-> kind, ns |-> ns, name |-> name, place |-> "shop"]
Shop    == Cr("Cluster", <<"shop">>, <<"n8n">>)
ShopAi  == Cr("Assistant", <<"shop">>, <<"ai">>)
PoolAi  == [ShopAi EXCEPT !.place = "pool"]
OtherAi == [Cr("Assistant", <<"other">>, <<"ai">>) EXCEPT !.place = "pool"]
LongAi  == Cr("Assistant", <<"shop">>, <<"ai", "solo", "solo">>)
Solo    == Cr("Single", <<"shop">>, <<"solo">>)

Widths == [p \in {"n8n", "n8n-sandbox", "single", "main", "worker", "webhook", "workflow-engine",
                  "sandbox-api", "sandbox-runner", "sandbox", "api", "runner", "1", "docker", "data",
                  "nodes", "binary", "1.70", "1.71", "latest", "sha", "shop", "other", "ai", "solo", "a", "recreate",
                  "labels", "digest", "zero", "text", "mode", "attach"} |->
    CASE p = "1" -> 1 [] p = "api" -> 3 [] p = "n8n" -> 3 [] p = "solo" -> 4 [] p = "shop" -> 36
      [] p = "runner" -> 6 [] p = "docker" -> 6 [] p = "sandbox" -> 7
      [] p = "sandbox-runner" -> 14 [] p = "workflow-engine" -> 15
      [] p = "sha" -> 64 [] p = "ai" -> 2 [] p = "main" -> 4 [] p = "worker" -> 6
      [] p = "webhook" -> 7 [] OTHER -> 11]

Tag(t) == [tag |-> t, digest |-> None]
NoLabels == << >>
Part == [image |-> Tag("1.70"), labels |-> NoLabels, fsGroup |-> NoGroup,
         strategy |-> NoStrategy, persistence |-> None]
Recreated == [NoStrategy EXCEPT !.type = "Recreate"]
Rolling(s, u) == [type |-> "RollingUpdate", surge |-> s, unavailable |-> u]

Postgres == [type |-> "postgresdb", blocks |-> {"postgres"}, ssl |-> {"ca"}]
ClusterSpec ==
    [name |-> <<"n8n">>, networking |-> {}, db |-> Postgres, smtp |-> [host |-> None, port |-> 0],
     community |-> {"sharedStorage"}, nodes |-> "ReadWriteMany",
     binary |-> [mode |-> None, s3 |-> FALSE, shared |-> None],
     role |-> [main   |-> [Part EXCEPT !.strategy = Recreated, !.persistence = "ReadWriteOnce"],
               worker |-> [Part EXCEPT !.strategy = Rolling(Count(0), Percent(25))]]]
AssistantSpec ==
    [target |-> [kind |-> "Cluster", name |-> "n8n"],
     model |-> [url |-> None, provider |-> "anthropic", model |-> "opus", key |-> [name |-> "keys", key |-> "K"]],
     brave |-> [name |-> None, key |-> ""], namespaceIsLabel |-> TRUE,
     version |-> "1.2", sandboxImage |-> "sandbox",
     role |-> [api |-> Part, runner |-> [Part EXCEPT !.persistence = "ReadWriteOnce"]]]

On(s, r, image) == [s EXCEPT !.role[r].image = Tag(image)]
Upgraded == [On(On(ClusterSpec, "main", "1.71"), "worker", "1.71") EXCEPT
                !.role = ("webhook" :> [Part EXCEPT !.labels = [team |-> <<"a">>]]) @@ @]
NoSettings == [ClusterSpec EXCEPT !.db.blocks = {}]

Grouped == [AssistantSpec EXCEPT !.role.runner.fsGroup = 1000, !.role.api.labels = [team |-> <<"a">>]]

SingleSpec ==
    [name |-> <<"solo">>, networking |-> {}, db |-> [type |-> None, blocks |-> {}, ssl |-> {}],
     smtp |-> [host |-> None, port |-> 0],
     role |-> [single |-> [Part EXCEPT !.strategy = Rolling(Percent(50), Count(0))]]]
Mistyped == [SingleSpec EXCEPT !.role.single.strategy.type = "Rolling"]
OnPostgres == [On(SingleSpec, "single", "1.71") EXCEPT !.db = [Postgres EXCEPT !.ssl = {"ca", "cert", "key"}]]

Specs == (Shop :> {ClusterSpec, Upgraded, NoSettings}) @@ (Solo :> {SingleSpec, OnPostgres, Mistyped})
         @@ (ShopAi :> {AssistantSpec, Grouped}) @@ (PoolAi :> {Grouped}) @@ (OtherAi :> {AssistantSpec})
         @@ (LongAi :> {AssistantSpec})
AllCRs == DOMAIN Specs
Alone == { {Shop}, {Solo}, {ShopAi}, {LongAi}, {PoolAi, OtherAi} }

(* What the theorems ask for holds of these.                                *)
ASSUME Ordinary ==
    Scenes = Alone => /\ NamesDistinct /\ OwnKeysOnly /\ LabelsFit
                      /\ StrategiesMove /\ RecreateStays /\ ClaimsKeepMode

-----------------------------------------------------------------------------
(* Specs and CRs that validation accepts and the cluster does not get on    *)
(* with; work_odd.cfg tries one of the scenes.                              *)

Sole(name) == Cr("Single", <<"shop">>, <<name>>)
Plainly == [SingleSpec EXCEPT !.role.single = Part]
Persistent == [Plainly EXCEPT !.role.single.persistence = "ReadWriteOnce"]

Odd == (Sole("recreate") :> {Plainly, [Plainly EXCEPT !.role.single.strategy = Recreated]})
    @@ (Sole("labels") :> {[Plainly EXCEPT !.role.single.labels = [instance |-> <<"a">>]]})
    @@ (Sole("digest") :> {[Plainly EXCEPT !.role.single.image.digest = "sha"]})
    @@ (Sole("zero") :> {[Plainly EXCEPT !.role.single.strategy = Rolling(Count(0), Count(0))]})
    @@ (Sole("text") :> {[Plainly EXCEPT !.role.single.strategy = Rolling([unit |-> "text", n |-> 1], Unset)]})
    @@ (Sole("mode") :> {Persistent, [Persistent EXCEPT !.role.single.persistence = "ReadWriteMany"]})
    @@ (Sole("attach") :> {Persistent, On(Persistent, "single", "1.71")})
    @@ (Cr("Cluster", <<"shop">>, <<"shop", "shop">>) :> {ClusterSpec})
    @@ (Shop :> {ClusterSpec}) @@ (Cr("Single", <<"shop">>, <<"n8n", "main">>) :> {Plainly})
    @@ (Cr("Assistant", <<"a", "ai">>, <<"n8n">>) :> {AssistantSpec})
    @@ (Cr("Assistant", <<"a">>, <<"ai", "n8n">>) :> {AssistantSpec})
OddCRs == DOMAIN Odd

StrategyEdited   == {{Sole("recreate")}}
Relabelled       == {{Sole("labels")}}
PinnedByDigest   == {{Sole("digest")}}
NothingMayMove   == {{Sole("zero")}}
NoQuantity       == {{Sole("text")}}
AccessModeEdited == {{Sole("mode")}}
ClaimHeld        == {{Sole("attach")}}
NameTooLong      == {{Cr("Cluster", <<"shop">>, <<"shop", "shop">>)}}
RoleNamesake     == {{Shop, Cr("Single", <<"shop">>, <<"n8n", "main">>)}}
OnePrefix        == {{Cr("Assistant", <<"a", "ai">>, <<"n8n">>), Cr("Assistant", <<"a">>, <<"ai", "n8n">>)}}
=============================================================================
