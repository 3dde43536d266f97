----------------------------- MODULE MCChildren -----------------------------
(* Small namespaces for TLC: names, kinds and the specs users try.          *)
EXTENDS Children, TLC

CONSTANTS c1, c2

Plainest == [legal |-> TRUE, net |-> "none", volumes |-> FALSE, multiMain |-> FALSE,
             autoscale |-> FALSE, webhooks |-> "off"]
Net(n) == [Plainest EXCEPT !.net = n]
Hooks(n) == [Plainest EXCEPT !.webhooks = n]
Illegal == [Plainest EXCEPT !.legal = FALSE]
Large == [Plainest EXCEPT !.volumes = TRUE, !.multiMain = TRUE, !.autoscale = TRUE]

Alone      == {{c1}, {c2}}
Together   == {{c1, c2}}

TwoSingles == c1 :> "Single" @@ c2 :> "Single"
Mixed      == c1 :> "Single" @@ c2 :> "Cluster"

ShopTwice  == c1 :> <<"shop">> @@ c2 :> <<"shop">>
ShopAndRedirect == c1 :> <<"shop">> @@ c2 :> <<"shop", "redirect">>
HookAndShop     == c1 :> <<"shop", "webhook">> @@ c2 :> <<"shop">>

EitherSpecs == c1 :> {[Net("ingress") EXCEPT !.volumes = TRUE], Net("redirect"),
                      Net("route"), Net("both")}
               @@ c2 :> {Large, Hooks("ingress"), Illegal,
                         [Large EXCEPT !.net = "both", !.webhooks = "none"], Hooks("both")}
BothSpecs  == c1 :> {Net("ingress"), Net("redirect")} @@ c2 :> {Plainest, Hooks("redirect")}
RouteSpecs == c1 :> {Net("redirect")} @@ c2 :> {Net("none")}
HookSpecs  == c1 :> {Plainest} @@ c2 :> {Plainest}
OffloadSpecs  == c1 :> {Plainest} @@ c2 :> {Plainest, [Net("route") EXCEPT !.webhooks = "none"]}
IngressOrBoth == c1 :> {Net("ingress"), Net("both")} @@ c2 :> {Net("both")}
=============================================================================
