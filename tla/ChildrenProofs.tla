---------------------------- MODULE ChildrenProofs ----------------------------
(***************************************************************************)
(* Theorems about Children: for any Singles and Clusters of a namespace,   *)
(* any specs, and any interleaving of their reconciles with users, faults, *)
(* CRDs and the garbage collector.                                         *)
(*                                                                         *)
(* A plan is put together from blocks.  What it applies, what it deletes   *)
(* and which calls it passes over are read off the blocks (first part);    *)
(* what has been done at each point of a reconcile follows from what is    *)
(* left of its plan (second part).                                         *)
(***************************************************************************)
EXTENDS Children, SequenceTheorems, TLAPS

Ops == {"apply", "applyIfServed", "ensure", "lookup", "probe", "probeQuietly",
        "delete", "deleteQuietly", "fail", "event", "status", "addFinalizer", "removeFinalizer"}
AnyThing == Kinds \X Names
AnyCall == [op : Ops, thing : AnyThing \union {None}, skip : Nat]

(* The things on which a plan makes a call of the given operations.         *)
Does(plan, ops) == {call.thing : call \in {x \in CallsOf(plan) : x.op \in ops}}
Applies(plan) == Does(plan, {"apply"})
Drops(plan) == Does(plan, Deletes)

(* Passing over calls never leads beyond the end of the plan, and never     *)
(* over an apply or the refusal of the spec.                                *)
Fixed == {"apply", "fail"}
Tidy(plan) ==
    /\ plan \in Seq(AnyCall)
    /\ \A j \in 1..Len(plan) : j + plan[j].skip <= Len(plan) + 1
    /\ \A i, j \in 1..Len(plan) :
           j < i /\ plan[i].op \in Fixed => j + plan[j].skip <= i

-----------------------------------------------------------------------------
(* Blocks put together.                                                     *)

LEMMA ConcatCalls ==
    ASSUME NEW p \in Seq(AnyCall), NEW q \in Seq(AnyCall)
    PROVE  /\ p \o q \in Seq(AnyCall)
           /\ CallsOf(p \o q) = CallsOf(p) \union CallsOf(q)
           /\ \A ops : Does(p \o q, ops) = Does(p, ops) \union Does(q, ops)
<1>1. /\ p \o q \in Seq(AnyCall) /\ Len(p \o q) = Len(p) + Len(q)
      /\ \A i \in 1..Len(p) + Len(q) :
             (p \o q)[i] = IF i <= Len(p) THEN p[i] ELSE q[i - Len(p)]
    BY ConcatProperties
<1>2. DOMAIN p = 1..Len(p) /\ DOMAIN q = 1..Len(q) /\ DOMAIN (p \o q) = 1..Len(p) + Len(q)
    BY <1>1
<1>3. ASSUME NEW x \in CallsOf(p \o q)  PROVE x \in CallsOf(p) \union CallsOf(q)
    <2>1. PICK i \in 1..Len(p) + Len(q) : x = (p \o q)[i]
        BY <1>2, <1>3 DEF CallsOf
    <2>2. CASE i <= Len(p)
        BY <1>1, <1>2, <2>1, <2>2 DEF CallsOf
    <2>3. CASE i > Len(p)
        <3>1. i - Len(p) \in 1..Len(q)
            BY <2>3
        <3>2. x = q[i - Len(p)]
            BY <1>1, <2>1, <2>3
        <3>3. QED BY <1>2, <3>1, <3>2 DEF CallsOf
    <2>4. QED BY <2>2, <2>3
<1>4. ASSUME NEW x \in CallsOf(p) \union CallsOf(q)  PROVE x \in CallsOf(p \o q)
    <2>1. CASE x \in CallsOf(p)
        <3>1. PICK i \in 1..Len(p) : x = p[i]
            BY <1>2, <2>1 DEF CallsOf
        <3>2. i \in 1..Len(p) + Len(q) /\ (p \o q)[i] = x
            BY <1>1, <3>1
        <3>3. QED BY <1>2, <3>2 DEF CallsOf
    <2>2. CASE x \in CallsOf(q)
        <3>1. PICK i \in 1..Len(q) : x = q[i]
            BY <1>2, <2>2 DEF CallsOf
        <3>2. i + Len(p) \in 1..Len(p) + Len(q) /\ (p \o q)[i + Len(p)] = x
            BY <1>1, <3>1
        <3>3. QED BY <1>2, <3>2 DEF CallsOf
    <2>3. QED BY <1>4, <2>1, <2>2
<1>5. CallsOf(p \o q) = CallsOf(p) \union CallsOf(q)
    BY <1>3, <1>4
<1>6. QED BY <1>1, <1>5 DEF Does

LEMMA ConcatTidy ==
    ASSUME NEW p, NEW q, Tidy(p), Tidy(q)
    PROVE  Tidy(p \o q)
<1>1. /\ p \o q \in Seq(AnyCall) /\ Len(p \o q) = Len(p) + Len(q)
      /\ \A i \in 1..Len(p) + Len(q) :
             (p \o q)[i] = IF i <= Len(p) THEN p[i] ELSE q[i - Len(p)]
    BY ConcatProperties DEF Tidy
<1>2. p \in Seq(AnyCall) /\ q \in Seq(AnyCall) /\ Len(p) \in Nat /\ Len(q) \in Nat
    BY DEF Tidy
<1>3. \A i \in 1..Len(p) : (p \o q)[i] = p[i] /\ p[i].skip \in Nat
    <2> SUFFICES ASSUME NEW i \in 1..Len(p)
                 PROVE  (p \o q)[i] = p[i] /\ p[i].skip \in Nat
        OBVIOUS
    <2>1. p[i] \in AnyCall
        BY <1>2, ElementOfSeq
    <2>2. QED BY <1>2, <1>1, <2>1 DEF AnyCall
<1>4. \A i \in Len(p) + 1..Len(p) + Len(q) :
          i - Len(p) \in 1..Len(q) /\ (p \o q)[i] = q[i - Len(p)] /\ q[i - Len(p)].skip \in Nat
    <2> SUFFICES ASSUME NEW i \in Len(p) + 1..Len(p) + Len(q)
                 PROVE  /\ i - Len(p) \in 1..Len(q)
                        /\ (p \o q)[i] = q[i - Len(p)] /\ q[i - Len(p)].skip \in Nat
        OBVIOUS
    <2>1. i - Len(p) \in 1..Len(q)
        BY <1>2
    <2>2. q[i - Len(p)] \in AnyCall
        BY <1>2, <2>1, ElementOfSeq
    <2>3. i \in 1..Len(p) + Len(q) /\ ~(i <= Len(p))
        BY <1>2
    <2>4. QED BY <1>1, <2>1, <2>2, <2>3 DEF AnyCall
<1>5. /\ Len(p) \in Nat /\ Len(q) \in Nat
      /\ \A i \in 1..Len(p) : (p \o q)[i] = p[i] /\ p[i].skip \in Nat
      /\ \A i \in Len(p) + 1..Len(p) + Len(q) :
             i - Len(p) \in 1..Len(q) /\ (p \o q)[i] = q[i - Len(p)] /\ q[i - Len(p)].skip \in Nat
    BY <1>2, <1>3, <1>4
<1>6. ASSUME NEW j \in 1..Len(p) + Len(q)
      PROVE  j + (p \o q)[j].skip <= Len(p) + Len(q) + 1
    <2>1. CASE j <= Len(p)
        BY <1>5, <2>1 DEF Tidy
    <2>2. CASE j > Len(p)
        <3>1. (j - Len(p)) + q[j - Len(p)].skip <= Len(q) + 1
            BY <1>5, <2>2 DEF Tidy
        <3>2. QED BY <1>5, <2>2, <3>1
    <2>3. QED BY <2>1, <2>2
<1>7. ASSUME NEW i \in 1..Len(p) + Len(q), NEW j \in 1..Len(p) + Len(q),
             j < i, (p \o q)[i].op \in Fixed
      PROVE  j + (p \o q)[j].skip <= i
    <2>1. CASE i <= Len(p)
        <3>1. i \in 1..Len(p) /\ j \in 1..Len(p)
            BY <1>2, <1>7, <2>1
        <3>2. (p \o q)[i] = p[i] /\ (p \o q)[j] = p[j]
            BY <1>3, <3>1
        <3>3. j + p[j].skip <= i
            BY <1>7, <3>1, <3>2 DEF Tidy
        <3>4. QED BY <3>2, <3>3
    <2>2. CASE i > Len(p) /\ j <= Len(p)
        <3>1. j + p[j].skip <= Len(p) + 1
            BY <2>2 DEF Tidy
        <3>2. QED BY <1>5, <2>2, <3>1
    <2>3. CASE j > Len(p)
        <3>1. (j - Len(p)) + q[j - Len(p)].skip <= i - Len(p)
            BY <1>5, <1>7, <2>3 DEF Tidy
        <3>2. QED BY <1>5, <1>7, <2>3, <3>1
    <2>4. QED BY <2>1, <2>2, <2>3
<1>8. QED BY <1>1, <1>6, <1>7 DEF Tidy

(* Blocks of one call or none.                                              *)
LEMMA OneCall ==
    ASSUME NEW call \in AnyCall, call.skip <= 1
    PROVE  /\ Tidy(<<call>>) /\ CallsOf(<<call>>) = {call}
           /\ \A ops : Does(<<call>>, ops) = IF call.op \in ops THEN {call.thing} ELSE {}
<1>1. <<call>> \in Seq(AnyCall) /\ Len(<<call>>) = 1 /\ <<call>>[1] = call
    OBVIOUS
<1>2. Tidy(<<call>>)
    BY <1>1 DEF Tidy, AnyCall
<1>3. CallsOf(<<call>>) = {call}
    BY <1>1 DEF CallsOf
<1>4. QED BY <1>2, <1>3 DEF Does

LEMMA NoCall ==
    /\ Tidy(<< >>) /\ CallsOf(<< >>) = {}
    /\ \A ops : Does(<< >>, ops) = {}
<1>1. << >> \in Seq(AnyCall) /\ Len(<< >>) = 0 /\ DOMAIN << >> = {}
    OBVIOUS
<1>2. QED BY <1>1 DEF Tidy, CallsOf, Does

(* A block of a plan and its effects.  What it drops and what it applies if  *)
(* served is bounded from above.                                            *)
Block(plan, applied, dropped, ifServed) ==
    /\ Tidy(plan)
    /\ Applies(plan) = applied
    /\ Drops(plan) \subseteq dropped
    /\ Does(plan, {"applyIfServed"}) \subseteq ifServed
    /\ \A t \in Does(plan, {"ensure"}) : t \in {"Secret"} \X Names
    /\ Does(plan, {"status"}) = {}

LEMMA ConcatBlocks ==
    ASSUME NEW p, NEW pa, NEW pd, NEW pi, Block(p, pa, pd, pi),
           NEW q, NEW qa, NEW qd, NEW qi, Block(q, qa, qd, qi)
    PROVE  Block(p \o q, pa \union qa, pd \union qd, pi \union qi)
<1>1. Tidy(p \o q)
    BY ConcatTidy DEF Block
<1>2. \A ops : Does(p \o q, ops) = Does(p, ops) \union Does(q, ops)
    BY ConcatCalls DEF Block, Tidy
<1>3. QED BY <1>1, <1>2 DEF Block, Applies, Drops

LEMMA EmptyBlock == Block(<< >>, {}, {}, {})
BY NoCall DEF Block, Applies, Drops

LEMMA WhenBlock ==
    ASSUME NEW condition \in BOOLEAN, NEW p, NEW a, NEW d, Block(p, a, d, {})
    PROVE  Block(When(condition, p), IF condition THEN a ELSE {}, d, {})
BY EmptyBlock DEF When, Block

LEMMA ApplyBlock ==
    ASSUME NEW kind \in Kinds, NEW name \in Names
    PROVE  Block(Apply(kind, name), {<<kind, name>>}, {}, {})
<1> DEFINE k == Call("apply", kind, name, 0)
<1>1. k \in AnyCall /\ k.op = "apply" /\ k.thing = <<kind, name>> /\ k.skip = 0
    BY DEF Call, AnyCall, AnyThing, Ops
<1>2. Apply(kind, name) = <<k>>
    BY DEF Apply
<1> HIDE DEF k
<1>3. Tidy(<<k>>) /\ \A ops : Does(<<k>>, ops) = IF k.op \in ops THEN {k.thing} ELSE {}
    BY <1>1, OneCall
<1>4. Block(<<k>>, {k.thing}, {}, {})
    BY <1>1, <1>3 DEF Block, Applies, Drops, Deletes
<1>5. QED BY <1>1, <1>2, <1>4

LEMMA DropQuietlyBlock ==
    ASSUME NEW kind \in Kinds, NEW name \in Names
    PROVE  Block(DropQuietly(kind, name), {}, {<<kind, name>>}, {})
<1> DEFINE k == Call("deleteQuietly", kind, name, 1)
<1>1. k \in AnyCall /\ k.op = "deleteQuietly" /\ k.thing = <<kind, name>> /\ k.skip = 1
    BY DEF Call, AnyCall, AnyThing, Ops
<1>2. DropQuietly(kind, name) = <<k>>
    BY DEF DropQuietly
<1> HIDE DEF k
<1>3. Tidy(<<k>>) /\ \A ops : Does(<<k>>, ops) = IF k.op \in ops THEN {k.thing} ELSE {}
    BY <1>1, OneCall
<1>4. Block(<<k>>, {}, {k.thing}, {})
    BY <1>1, <1>3 DEF Block, Applies, Drops, Deletes
<1>5. QED BY <1>1, <1>2, <1>4

(* A probe and the delete it may pass over.                                 *)
LEMMA ProbeAndDelete ==
    ASSUME NEW probe \in {"probe", "probeQuietly"}, NEW kind \in Kinds, NEW name \in Names
    PROVE  Block(<<Call(probe, kind, name, 2), Call("delete", kind, name, 0)>>,
                 {}, {<<kind, name>>}, {})
<1> DEFINE p == <<Call(probe, kind, name, 2), Call("delete", kind, name, 0)>>
<1>1. Call(probe, kind, name, 2) \in AnyCall /\ Call("delete", kind, name, 0) \in AnyCall
    BY DEF Call, AnyCall, AnyThing, Ops, Kinds, Extensions
<1>2. /\ p \in Seq(AnyCall) /\ Len(p) = 2 /\ DOMAIN p = 1..2
      /\ p[1] = Call(probe, kind, name, 2) /\ p[2] = Call("delete", kind, name, 0)
    BY <1>1
<1>3. p[1].skip = 2 /\ p[2].skip = 0 /\ p[2].op = "delete" /\ p[1].op = probe
    BY <1>2 DEF Call
<1>4. Tidy(p)
    BY <1>2, <1>3 DEF Tidy, Fixed
<1>5. CallsOf(p) = {Call(probe, kind, name, 2), Call("delete", kind, name, 0)}
    BY <1>2 DEF CallsOf
<1>6. QED BY <1>4, <1>5 DEF Block, Does, Applies, Drops, Call, Deletes

LEMMA RemoveBlock ==
    ASSUME NEW kind \in Kinds, NEW name \in Names
    PROVE  Block(Remove(kind, name), {}, {<<kind, name>>}, {})
BY ProbeAndDelete DEF Remove

LEMMA RedirectIsName == \A name \in Names : Redirect(name) \in Names
BY AppendProperties DEF Redirect, Names, Segments, Suffixes

Routes(name) == {<<"HTTPRoute", name>>, <<"HTTPRoute", Redirect(name)>>}

LEMMA RemoveRoutesBlock ==
    ASSUME NEW name \in Names
    PROVE  Block(RemoveRoutes(name), {}, Routes(name), {})
<1> DEFINE p == RemoveRoutes(name)
           k0 == Call("lookup", "HTTPRoute", name, 5)
           k1 == Call("probeQuietly", "HTTPRoute", name, 2)
           k2 == Call("deleteQuietly", "HTTPRoute", name, 3)
           k3 == Call("probeQuietly", "HTTPRoute", Redirect(name), 2)
           k4 == Call("deleteQuietly", "HTTPRoute", Redirect(name), 1)
<1>1. k0 \in AnyCall /\ k1 \in AnyCall /\ k2 \in AnyCall /\ k3 \in AnyCall /\ k4 \in AnyCall
    BY RedirectIsName DEF Call, AnyCall, AnyThing, Ops, Kinds, Extensions
<1> HIDE DEF k0, k1, k2, k3, k4
<1>2. p = <<k0, k1, k2, k3, k4>>
    BY DEF RemoveRoutes, k0, k1, k2, k3, k4
<1> HIDE DEF p
<1>3. /\ p \in Seq(AnyCall) /\ Len(p) = 5 /\ DOMAIN p = 1..5
      /\ p[1] = k0 /\ p[2] = k1 /\ p[3] = k2 /\ p[4] = k3 /\ p[5] = k4
    BY <1>1, <1>2
<1>4. /\ k0.skip = 5 /\ k1.skip = 2 /\ k2.skip = 3 /\ k3.skip = 2 /\ k4.skip = 1
      /\ k0.op = "lookup" /\ k1.op = "probeQuietly" /\ k2.op = "deleteQuietly"
      /\ k3.op = "probeQuietly" /\ k4.op = "deleteQuietly"
      /\ k2.thing = <<"HTTPRoute", name>> /\ k4.thing = <<"HTTPRoute", Redirect(name)>>
    BY DEF Call, k0, k1, k2, k3, k4
<1>5. Tidy(p)
    BY <1>3, <1>4 DEF Tidy, Fixed
<1>6. CallsOf(p) = {k0, k1, k2, k3, k4}
    BY <1>3 DEF CallsOf
<1>7. QED BY <1>4, <1>5, <1>6 DEF Block, Does, Applies, Drops, Deletes, Routes, p

(* The same for a call whose failure counts for nothing: networking.        *)
Exposure(name) == {<<"Ingress", name>>} \union Routes(name)

LEMMA NamesGrow ==
    \A name \in Names, x \in Suffixes :
        /\ Append(name, x) \in Names
        /\ \A other \in Names, y \in Suffixes :
               Append(name, x) = Append(other, y) <=> name = other /\ x = y
<1> SUFFICES ASSUME NEW name \in Seq(Segments), NEW x \in Suffixes
             PROVE  /\ Append(name, x) \in Seq(Segments)
                    /\ \A other \in Seq(Segments), y \in Suffixes :
                           Append(name, x) = Append(other, y) <=> name = other /\ x = y
    BY DEF Names
<1>1. Suffixes \subseteq Segments
    BY DEF Segments
<1>2. QED BY <1>1, AppendProperties, AppendInjective

LEMMA ApplyRoutesBlock ==
    ASSUME NEW name \in Names, NEW redirect \in BOOLEAN
    PROVE  Block(ApplyRoutes(name, redirect),
                 {<<"HTTPRoute", name>>}
                     \union (IF redirect THEN {<<"HTTPRoute", Redirect(name)>>} ELSE {}),
                 IF redirect THEN {} ELSE {<<"HTTPRoute", Redirect(name)>>}, {})
<1>1. "HTTPRoute" \in Kinds /\ Redirect(name) \in Names
    BY RedirectIsName DEF Kinds, Extensions
<1> DEFINE rest == IF redirect THEN Apply("HTTPRoute", Redirect(name))
                   ELSE <<Call("probeQuietly", "HTTPRoute", Redirect(name), 2),
                          Call("delete", "HTTPRoute", Redirect(name), 0)>>
<1>2. Block(Apply("HTTPRoute", name), {<<"HTTPRoute", name>>}, {}, {})
    BY <1>1, ApplyBlock
<1>3. CASE redirect
    <2>1. Block(Apply("HTTPRoute", Redirect(name)), {<<"HTTPRoute", Redirect(name)>>}, {}, {})
        BY <1>1, ApplyBlock
    <2>2. Block(Apply("HTTPRoute", name) \o Apply("HTTPRoute", Redirect(name)),
                {<<"HTTPRoute", name>>} \union {<<"HTTPRoute", Redirect(name)>>},
                {} \union {}, {} \union {})
        BY <1>2, <2>1, ConcatBlocks
    <2>3. QED BY <1>3, <2>2 DEF ApplyRoutes
<1>4. CASE ~redirect
    <2> DEFINE drop == <<Call("probeQuietly", "HTTPRoute", Redirect(name), 2),
                         Call("delete", "HTTPRoute", Redirect(name), 0)>>
    <2>1. Block(drop, {}, {<<"HTTPRoute", Redirect(name)>>}, {})
        BY <1>1, ProbeAndDelete
    <2>2. ApplyRoutes(name, redirect) = Apply("HTTPRoute", name) \o drop
        BY <1>4 DEF ApplyRoutes
    <2> HIDE DEF drop
    <2>3. Block(Apply("HTTPRoute", name) \o drop, {<<"HTTPRoute", name>>} \union {},
                {} \union {<<"HTTPRoute", Redirect(name)>>}, {} \union {})
        BY <1>2, <2>1, ConcatBlocks
    <2>4. QED BY <1>4, <2>2, <2>3
<1>5. QED BY <1>3, <1>4

(* Networking applies what is exposed and drops only what is not.           *)
LEMMA NetworkingBlock ==
    ASSUME NEW name \in Names, NEW net \in Nets
    PROVE  Block(Networking(name, net), Exposed(name, net),
                 Exposure(name) \ Exposed(name, net), {})
<1>1. "HTTPRoute" \in Kinds /\ "Ingress" \in Kinds /\ Redirect(name) \in Names
      /\ Redirect(name) # name
    <2>1. name \in Seq(Segments) /\ "redirect" \in Segments
        BY DEF Names, Segments, Suffixes
    <2>2. Len(Append(name, "redirect")) = Len(name) + 1 /\ Len(name) \in Nat
        BY <2>1, AppendProperties
    <2>3. QED BY <2>2, RedirectIsName DEF Kinds, Extensions, Redirect
<1>2. CASE net = "both"
    <2> DEFINE k == [op |-> "fail", thing |-> None, skip |-> 0]
    <2>1. k \in AnyCall /\ k.op = "fail" /\ k.skip = 0
        BY DEF AnyCall, Ops
    <2>2. Networking(name, net) = <<k>>
        BY <1>2 DEF Networking, Plain
    <2> HIDE DEF k
    <2>3. Tidy(<<k>>) /\ \A ops : Does(<<k>>, ops) = IF k.op \in ops THEN {k.thing} ELSE {}
        BY <2>1, OneCall
    <2>4. Block(<<k>>, {}, {}, {})
        BY <2>1, <2>3 DEF Block, Applies, Drops, Deletes
    <2>5. Exposed(name, net) = {}
        BY <1>2 DEF Exposed
    <2>6. QED BY <2>2, <2>4, <2>5 DEF Block
<1>3. CASE net = "ingress"
    <2>1. Block(Apply("Ingress", name) \o RemoveRoutes(name),
                {<<"Ingress", name>>} \union {}, {} \union Routes(name), {} \union {})
        BY <1>1, ApplyBlock, RemoveRoutesBlock, ConcatBlocks
    <2>2. Networking(name, net) = Apply("Ingress", name) \o RemoveRoutes(name)
        BY <1>3 DEF Networking
    <2>3. Exposed(name, net) = {<<"Ingress", name>>}
        BY <1>3 DEF Exposed
    <2>4. Routes(name) \subseteq Exposure(name) \ Exposed(name, net)
        BY <2>3 DEF Exposure, Routes
    <2>5. QED BY <2>1, <2>2, <2>3, <2>4 DEF Block
<1>4. CASE net = "none"
    <2>1. Block(Remove("Ingress", name) \o RemoveRoutes(name),
                {} \union {}, {<<"Ingress", name>>} \union Routes(name), {} \union {})
        BY <1>1, RemoveBlock, RemoveRoutesBlock, ConcatBlocks
    <2>2. Networking(name, net) = Remove("Ingress", name) \o RemoveRoutes(name)
        BY <1>4 DEF Networking
    <2>3. Exposed(name, net) = {}
        BY <1>4 DEF Exposed
    <2>4. QED BY <2>1, <2>2, <2>3 DEF Block, Exposure
<1>5. CASE net \in {"route", "redirect"}
    <2> DEFINE there == {<<"HTTPRoute", name>>} \union
                        (IF net = "redirect" THEN {<<"HTTPRoute", Redirect(name)>>} ELSE {})
               gone == IF net = "redirect" THEN {} ELSE {<<"HTTPRoute", Redirect(name)>>}
    <2>1. Block(ApplyRoutes(name, net = "redirect"), there, gone, {})
        BY ApplyRoutesBlock
    <2> HIDE DEF there, gone
    <2>2. Block(Remove("Ingress", name), {}, {<<"Ingress", name>>}, {})
        BY <1>1, RemoveBlock
    <2>3. Block(Remove("Ingress", name) \o ApplyRoutes(name, net = "redirect"),
                {} \union there, {<<"Ingress", name>>} \union gone, {} \union {})
        BY <2>1, <2>2, ConcatBlocks
    <2>4. Networking(name, net) = Remove("Ingress", name) \o ApplyRoutes(name, net = "redirect")
        BY <1>5 DEF Networking
    <2>5. Exposed(name, net) = there
        BY <1>5 DEF Exposed, there
    <2>6. {<<"Ingress", name>>} \union gone \subseteq Exposure(name) \ Exposed(name, net)
        BY <1>1, <1>5, <2>5 DEF Exposure, Routes, gone, there
    <2>7. QED BY <2>3, <2>4, <2>5, <2>6 DEF Block
<1>6. QED BY <1>2, <1>3, <1>4, <1>5 DEF Nets

-----------------------------------------------------------------------------
(* The roles of a Cluster.                                                  *)

LEMMA RoleBlock ==
    ASSUME NEW name \in Names, NEW net \in Nets
    PROVE  Block((Apply("Deployment", name) \o Apply("Service", name)) \o Networking(name, net),
                 Role(name, net), Exposure(name) \ Exposed(name, net), {})
<1>1. /\ Block(Apply("Deployment", name), {<<"Deployment", name>>}, {}, {})
      /\ Block(Apply("Service", name), {<<"Service", name>>}, {}, {})
    BY ApplyBlock DEF Kinds
<1>2. Block(Apply("Deployment", name) \o Apply("Service", name),
            {<<"Deployment", name>>} \union {<<"Service", name>>}, {} \union {}, {} \union {})
    BY <1>1, ConcatBlocks
<1>3. Block((Apply("Deployment", name) \o Apply("Service", name)) \o Networking(name, net),
            ({<<"Deployment", name>>} \union {<<"Service", name>>}) \union Exposed(name, net),
            ({} \union {}) \union (Exposure(name) \ Exposed(name, net)), ({} \union {}) \union {})
    BY <1>2, NetworkingBlock, ConcatBlocks
<1>4. Role(name, net) = ({<<"Deployment", name>>} \union {<<"Service", name>>}) \union Exposed(name, net)
    BY DEF Role
<1>5. QED BY <1>3, <1>4 DEF Block

Only(condition, things) == IF condition THEN things ELSE {}

LEMMA VolumeBlock ==
    ASSUME NEW condition \in BOOLEAN, NEW name \in Names
    PROVE  Block(When(condition, Apply("PVC", name)), Only(condition, {<<"PVC", name>>}), {}, {})
<1>1. Block(Apply("PVC", name), {<<"PVC", name>>}, {}, {})
    BY ApplyBlock DEF Kinds
<1>2. QED BY <1>1, WhenBlock DEF Only

LEMMA StickySessionsBlock ==
    ASSUME NEW name \in Names, NEW multiMain \in BOOLEAN
    PROVE  Block(StickySessions(name, multiMain), {},
                 Only(~multiMain, {<<"DestinationRule", name>>}),
                 Only(multiMain, {<<"DestinationRule", name>>}))
<1>1. CASE multiMain
    <2> DEFINE k == Call("applyIfServed", "DestinationRule", name, 1)
    <2>1. k \in AnyCall /\ k.op = "applyIfServed" /\ k.thing = <<"DestinationRule", name>>
          /\ k.skip = 1
        BY DEF Call, AnyCall, AnyThing, Ops, Kinds, Extensions
    <2>2. StickySessions(name, multiMain) = <<k>>
        BY <1>1 DEF StickySessions
    <2> HIDE DEF k
    <2>3. Tidy(<<k>>) /\ \A ops : Does(<<k>>, ops) = IF k.op \in ops THEN {k.thing} ELSE {}
        BY <2>1, OneCall
    <2>4. Block(<<k>>, {}, {}, {k.thing})
        BY <2>1, <2>3 DEF Block, Applies, Drops, Deletes
    <2>5. QED BY <1>1, <2>1, <2>2, <2>4 DEF Block, Only
<1>2. CASE ~multiMain
    <2>1. Block(<<Call("probeQuietly", "DestinationRule", name, 2),
                  Call("delete", "DestinationRule", name, 0)>>,
                {}, {<<"DestinationRule", name>>}, {})
        BY ProbeAndDelete DEF Kinds, Extensions
    <2>2. QED BY <1>2, <2>1 DEF StickySessions, Only
<1>3. QED BY <1>1, <1>2

MainDrops(main, s) ==
    Only(~s.multiMain, {<<"DestinationRule", main>>})
    \union (Exposure(main) \ Exposed(main, s.net))
MainIfServed(main, s) == Only(s.multiMain, {<<"DestinationRule", main>>})

(* The main role up to its networking.                                      *)
MainHead(main, s) ==
    ((When(s.volumes, Apply("PVC", Append(main, "data"))) \o Apply("Deployment", main))
     \o Apply("Service", main)) \o StickySessions(main, s.multiMain)

LEMMA MainHeadBlock ==
    ASSUME NEW main \in Names, NEW s \in Specs
    PROVE  Block(MainHead(main, s),
                 (Only(s.volumes, {<<"PVC", Append(main, "data")>>})
                     \union {<<"Deployment", main>>}) \union {<<"Service", main>>},
                 Only(~s.multiMain, {<<"DestinationRule", main>>}), MainIfServed(main, s))
<1>1. s.volumes \in BOOLEAN /\ s.multiMain \in BOOLEAN /\ Append(main, "data") \in Names
    BY NamesGrow DEF Specs, Suffixes
<1> DEFINE pv == When(s.volumes, Apply("PVC", Append(main, "data")))
           d == Apply("Deployment", main)
           v == Apply("Service", main)
           st == StickySessions(main, s.multiMain)
           pvA == Only(s.volumes, {<<"PVC", Append(main, "data")>>})
           stD == Only(~s.multiMain, {<<"DestinationRule", main>>})
           stI == Only(s.multiMain, {<<"DestinationRule", main>>})
           dA == {<<"Deployment", main>>}
           vA == {<<"Service", main>>}
<1>2. Block(pv, pvA, {}, {}) /\ Block(st, {}, stD, stI)
      /\ Block(d, dA, {}, {}) /\ Block(v, vA, {}, {})
    BY <1>1, VolumeBlock, StickySessionsBlock, ApplyBlock DEF Kinds
<1>3. MainHead(main, s) = ((pv \o d) \o v) \o st /\ MainIfServed(main, s) = stI
    BY DEF MainHead, MainIfServed
<1> HIDE DEF pv, d, v, st, pvA, stD, stI, dA, vA
<1>4. Block(pv \o d, pvA \union dA, {} \union {}, {} \union {})
    BY <1>2, ConcatBlocks
<1>5. Block((pv \o d) \o v, (pvA \union dA) \union vA, ({} \union {}) \union {},
            ({} \union {}) \union {})
    BY <1>2, <1>4, ConcatBlocks
<1>6. Block(((pv \o d) \o v) \o st, ((pvA \union dA) \union vA) \union {},
            (({} \union {}) \union {}) \union stD, (({} \union {}) \union {}) \union stI)
    BY <1>2, <1>5, ConcatBlocks
<1>7. Block(MainHead(main, s), (pvA \union dA) \union vA, stD, stI)
    BY <1>3, <1>6 DEF Block
<1>8. QED BY <1>3, <1>7 DEF pvA, dA, vA, stD

LEMMA MainBlock ==
    ASSUME NEW main \in Names, NEW s \in Specs
    PROVE  Block(MainPlan(main, s),
                 Only(s.volumes, {<<"PVC", Append(main, "data")>>}) \union Role(main, s.net),
                 MainDrops(main, s), MainIfServed(main, s))
<1> DEFINE head == MainHead(main, s)
           nw == Networking(main, s.net)
           pvA == Only(s.volumes, {<<"PVC", Append(main, "data")>>})
           headA == (pvA \union {<<"Deployment", main>>}) \union {<<"Service", main>>}
           headD == Only(~s.multiMain, {<<"DestinationRule", main>>})
           headI == MainIfServed(main, s)
           nwA == Exposed(main, s.net)
           nwD == Exposure(main) \ Exposed(main, s.net)
<1>1. Block(head, headA, headD, headI) /\ Block(nw, nwA, nwD, {})
    <2>1. s.net \in Nets
        BY DEF Specs
    <2>2. QED BY <2>1, MainHeadBlock, NetworkingBlock
<1>2. MainPlan(main, s) = head \o nw
    BY DEF MainPlan, MainHead
<1>3. /\ pvA \union Role(main, s.net) = headA \union nwA
      /\ MainDrops(main, s) = headD \union nwD
    BY DEF Role, MainDrops
<1> HIDE DEF head, nw, headA, headD, headI, nwA, nwD
<1>4. Block(head \o nw, headA \union nwA, headD \union nwD, headI \union {})
    BY <1>1, ConcatBlocks
<1>5. QED BY <1>2, <1>3, <1>4 DEF Block, pvA, headI

LEMMA WorkerBlock ==
    ASSUME NEW worker \in Names, NEW s \in Specs
    PROVE  Block(WorkerPlan(worker, s),
                 {<<"Deployment", worker>>} \union Only(s.autoscale, {<<"HPA", worker>>}),
                 Only(~s.autoscale, {<<"HPA", worker>>}), {})
<1>1. Block(Apply("Deployment", worker), {<<"Deployment", worker>>}, {}, {})
    BY ApplyBlock DEF Kinds
<1>2. CASE s.autoscale
    <2>1. Block(Apply("HPA", worker), {<<"HPA", worker>>}, {}, {})
        BY ApplyBlock DEF Kinds
    <2>2. Block(Apply("Deployment", worker) \o Apply("HPA", worker),
                {<<"Deployment", worker>>} \union {<<"HPA", worker>>}, {} \union {}, {} \union {})
        BY <1>1, <2>1, ConcatBlocks
    <2>3. QED BY <1>2, <2>2 DEF WorkerPlan, Only, Block
<1>3. CASE ~s.autoscale
    <2>1. Block(Remove("HPA", worker), {}, {<<"HPA", worker>>}, {})
        BY RemoveBlock DEF Kinds
    <2>2. Block(Apply("Deployment", worker) \o Remove("HPA", worker),
                {<<"Deployment", worker>>} \union {}, {} \union {<<"HPA", worker>>}, {} \union {})
        BY <1>1, <2>1, ConcatBlocks
    <2>3. QED BY <1>3, <2>2 DEF WorkerPlan, Only, Block
<1>4. QED BY <1>2, <1>3

WebhookApplies(webhook, s) == Only(s.webhooks # "off", Role(webhook, s.webhooks))
WebhookDrops(webhook, s) ==
    IF s.webhooks = "off"
    THEN {<<"Deployment", webhook>>, <<"Service", webhook>>} \union Exposure(webhook)
    ELSE Exposure(webhook) \ Exposed(webhook, s.webhooks)

LEMMA WebhookBlock ==
    ASSUME NEW webhook \in Names, NEW s \in Specs
    PROVE  Block(WebhookPlan(webhook, s), WebhookApplies(webhook, s), WebhookDrops(webhook, s), {})
<1>1. CASE s.webhooks = "off"
    <2> DEFINE d == DropQuietly("Deployment", webhook)
               v == DropQuietly("Service", webhook)
               i == DropQuietly("Ingress", webhook)
               r == RemoveRoutes(webhook)
               dD == {<<"Deployment", webhook>>}
               vD == {<<"Service", webhook>>}
               iD == {<<"Ingress", webhook>>}
               rD == Routes(webhook)
    <2>1. Block(d, {}, dD, {}) /\ Block(v, {}, vD, {}) /\ Block(i, {}, iD, {}) /\ Block(r, {}, rD, {})
        BY DropQuietlyBlock, RemoveRoutesBlock DEF Kinds
    <2>2. WebhookPlan(webhook, s) = ((d \o v) \o i) \o r
        BY <1>1 DEF WebhookPlan
    <2>3. WebhookDrops(webhook, s) = ((dD \union vD) \union iD) \union rD
        BY <1>1 DEF WebhookDrops, Exposure
    <2> HIDE DEF d, v, i, r, dD, vD, iD, rD
    <2>4. Block(d \o v, {} \union {}, dD \union vD, {} \union {})
        BY <2>1, ConcatBlocks
    <2>5. Block((d \o v) \o i, ({} \union {}) \union {}, (dD \union vD) \union iD,
                ({} \union {}) \union {})
        BY <2>1, <2>4, ConcatBlocks
    <2>6. Block(((d \o v) \o i) \o r, (({} \union {}) \union {}) \union {},
                ((dD \union vD) \union iD) \union rD, (({} \union {}) \union {}) \union {})
        BY <2>1, <2>5, ConcatBlocks
    <2>7. WebhookApplies(webhook, s) = {}
        BY <1>1 DEF WebhookApplies, Only
    <2>8. QED BY <2>2, <2>3, <2>6, <2>7 DEF Block
<1>2. CASE s.webhooks # "off"
    <2>1. s.webhooks \in Nets
        BY <1>2 DEF Specs
    <2>2. WebhookPlan(webhook, s) =
              (Apply("Deployment", webhook) \o Apply("Service", webhook)) \o Networking(webhook, s.webhooks)
        BY <1>2 DEF WebhookPlan
    <2>3. QED BY <1>2, <2>1, <2>2, RoleBlock DEF WebhookApplies, WebhookDrops, Only
<1>3. QED BY <1>1, <1>2

LEMMA EnsureBlock ==
    ASSUME NEW name \in Names
    PROVE  Block(Ensure("Secret", name), {}, {}, {})
<1> DEFINE k == Call("ensure", "Secret", name, 0)
<1>1. k \in AnyCall /\ k.op = "ensure" /\ k.thing = <<"Secret", name>> /\ k.skip = 0
    BY DEF Call, AnyCall, AnyThing, Ops, Kinds
<1>2. Ensure("Secret", name) = <<k>>
    BY DEF Ensure
<1> HIDE DEF k
<1>3. Tidy(<<k>>) /\ \A ops : Does(<<k>>, ops) = IF k.op \in ops THEN {k.thing} ELSE {}
    BY <1>1, OneCall
<1>4. Block(<<k>>, {}, {}, {})
    BY <1>1, <1>3 DEF Block, Applies, Drops, Deletes
<1>5. QED BY <1>2, <1>4

-----------------------------------------------------------------------------
(* The plans up to the event and the status.                                *)

SingleWork(n, s) ==
    (((Ensure("Secret", KeySecret(n)) \o When(s.volumes, Apply("PVC", Append(n, "data"))))
      \o Apply("Deployment", n)) \o Apply("Service", n)) \o Networking(n, s.net)

LEMMA SingleWorkBlock ==
    ASSUME NEW n \in Names, NEW s \in Specs
    PROVE  Block(SingleWork(n, s),
                 Only(s.volumes, {<<"PVC", Append(n, "data")>>}) \union Role(n, s.net),
                 Exposure(n) \ Exposed(n, s.net), {})
<1>1. s.volumes \in BOOLEAN /\ s.net \in Nets
    BY DEF Specs
<1> DEFINE e == Ensure("Secret", KeySecret(n))
           pv == When(s.volumes, Apply("PVC", Append(n, "data")))
           d == Apply("Deployment", n)
           v == Apply("Service", n)
           nw == Networking(n, s.net)
           pvA == Only(s.volumes, {<<"PVC", Append(n, "data")>>})
           dA == {<<"Deployment", n>>}
           vA == {<<"Service", n>>}
           nwA == Exposed(n, s.net)
           nwD == Exposure(n) \ Exposed(n, s.net)
<1>2. KeySecret(n) \in Names /\ Append(n, "data") \in Names
    BY NamesGrow DEF KeySecret, Suffixes
<1>3. Block(e, {}, {}, {}) /\ Block(pv, pvA, {}, {}) /\ Block(d, dA, {}, {})
      /\ Block(v, vA, {}, {}) /\ Block(nw, nwA, nwD, {})
    BY <1>1, <1>2, EnsureBlock, VolumeBlock, ApplyBlock, NetworkingBlock DEF Kinds
<1>4. SingleWork(n, s) = (((e \o pv) \o d) \o v) \o nw
    BY DEF SingleWork
<1>5. pvA \union Role(n, s.net) = ((({} \union pvA) \union dA) \union vA) \union nwA
    BY DEF Role
<1> HIDE DEF e, pv, d, v, nw, pvA, dA, vA, nwA, nwD
<1>6. Block(e \o pv, {} \union pvA, {} \union {}, {} \union {})
    BY <1>3, ConcatBlocks
<1>7. Block((e \o pv) \o d, ({} \union pvA) \union dA, ({} \union {}) \union {},
            ({} \union {}) \union {})
    BY <1>3, <1>6, ConcatBlocks
<1>8. Block(((e \o pv) \o d) \o v, (({} \union pvA) \union dA) \union vA,
            (({} \union {}) \union {}) \union {}, (({} \union {}) \union {}) \union {})
    BY <1>3, <1>7, ConcatBlocks
<1>9. Block((((e \o pv) \o d) \o v) \o nw, ((({} \union pvA) \union dA) \union vA) \union nwA,
            ((({} \union {}) \union {}) \union {}) \union nwD,
            ((({} \union {}) \union {}) \union {}) \union {})
    BY <1>3, <1>8, ConcatBlocks
<1>10. Block(SingleWork(n, s), pvA \union Role(n, s.net), nwD, {})
    BY <1>4, <1>5, <1>9 DEF Block
<1>11. QED BY <1>10 DEF pvA, nwD

SharedVolumes(n) == {<<"PVC", Append(n, "nodes")>>, <<"PVC", BinaryData(n)>>}
BeforeMain(n, s) ==
    Ensure("Secret", KeySecret(n))
    \o When(s.volumes, Apply("PVC", Append(n, "nodes")) \o Apply("PVC", BinaryData(n)))
BeforeWebhooks(n, s) ==
    (BeforeMain(n, s) \o MainPlan(Append(n, "main"), s)) \o WorkerPlan(Append(n, "worker"), s)
FirstApplies(n, s) ==
    ((Only(s.volumes, SharedVolumes(n))
      \union (Only(s.volumes, {<<"PVC", Append(Append(n, "main"), "data")>>})
              \union Role(Append(n, "main"), s.net)))
     \union ({<<"Deployment", Append(n, "worker")>>}
             \union Only(s.autoscale, {<<"HPA", Append(n, "worker")>>})))
FirstDrops(n, s) ==
    MainDrops(Append(n, "main"), s) \union Only(~s.autoscale, {<<"HPA", Append(n, "worker")>>})

LEMMA BeforeMainBlock ==
    ASSUME NEW n \in Names, NEW s \in Specs
    PROVE  Block(BeforeMain(n, s), Only(s.volumes, SharedVolumes(n)), {}, {})
<1>1. /\ s.volumes \in BOOLEAN
      /\ Append(n, "nodes") \in Names /\ BinaryData(n) \in Names /\ KeySecret(n) \in Names
    BY NamesGrow DEF KeySecret, BinaryData, Suffixes, Specs
<1> DEFINE e == Ensure("Secret", KeySecret(n))
           vols == Apply("PVC", Append(n, "nodes")) \o Apply("PVC", BinaryData(n))
           pv == When(s.volumes, vols)
           pvA == Only(s.volumes, SharedVolumes(n))
<1>2. Block(pv, pvA, {}, {})
    <2>1. Block(Apply("PVC", Append(n, "nodes")), {<<"PVC", Append(n, "nodes")>>}, {}, {})
          /\ Block(Apply("PVC", BinaryData(n)), {<<"PVC", BinaryData(n)>>}, {}, {})
        BY <1>1, ApplyBlock DEF Kinds
    <2>2. Block(vols, {<<"PVC", Append(n, "nodes")>>} \union {<<"PVC", BinaryData(n)>>},
                {} \union {}, {} \union {})
        BY <2>1, ConcatBlocks
    <2>3. Block(vols, SharedVolumes(n), {}, {})
        BY <2>2 DEF Block, SharedVolumes
    <2> HIDE DEF vols
    <2>4. QED BY <1>1, <2>3, WhenBlock DEF Only
<1>3. Block(e, {}, {}, {})
    BY <1>1, EnsureBlock
<1>4. BeforeMain(n, s) = e \o pv
    BY DEF BeforeMain
<1> HIDE DEF e, pv, pvA
<1>5. Block(e \o pv, {} \union pvA, {} \union {}, {} \union {})
    BY <1>2, <1>3, ConcatBlocks
<1>6. Block(BeforeMain(n, s), pvA, {}, {})
    BY <1>4, <1>5 DEF Block
<1>7. QED BY <1>6 DEF pvA

LEMMA BeforeWebhooksBlock ==
    ASSUME NEW n \in Names, NEW s \in Specs
    PROVE  Block(BeforeWebhooks(n, s), FirstApplies(n, s), FirstDrops(n, s),
                 MainIfServed(Append(n, "main"), s))
<1>1. Append(n, "main") \in Names /\ Append(n, "worker") \in Names
    BY NamesGrow DEF Suffixes
<1> DEFINE b == BeforeMain(n, s)
           m == MainPlan(Append(n, "main"), s)
           w == WorkerPlan(Append(n, "worker"), s)
           bA == Only(s.volumes, SharedVolumes(n))
           mA == Only(s.volumes, {<<"PVC", Append(Append(n, "main"), "data")>>})
                 \union Role(Append(n, "main"), s.net)
           wA == {<<"Deployment", Append(n, "worker")>>}
                 \union Only(s.autoscale, {<<"HPA", Append(n, "worker")>>})
           mD == MainDrops(Append(n, "main"), s)
           wD == Only(~s.autoscale, {<<"HPA", Append(n, "worker")>>})
           mI == MainIfServed(Append(n, "main"), s)
<1>2. Block(b, bA, {}, {}) /\ Block(m, mA, mD, mI) /\ Block(w, wA, wD, {})
    BY <1>1, BeforeMainBlock, MainBlock, WorkerBlock
<1>3. BeforeWebhooks(n, s) = (b \o m) \o w
    BY DEF BeforeWebhooks
<1>4. /\ FirstApplies(n, s) = (bA \union mA) \union wA
      /\ FirstDrops(n, s) = ({} \union mD) \union wD
    BY DEF FirstApplies, FirstDrops
<1> HIDE DEF b, m, w, bA, mA, wA, mD, wD, mI
<1>5. Block(b \o m, bA \union mA, {} \union mD, {} \union mI)
    BY <1>2, ConcatBlocks
<1>6. Block((b \o m) \o w, (bA \union mA) \union wA, ({} \union mD) \union wD,
            ({} \union mI) \union {})
    BY <1>2, <1>5, ConcatBlocks
<1>7. Block(BeforeWebhooks(n, s), FirstApplies(n, s), FirstDrops(n, s), mI)
    BY <1>3, <1>4, <1>6 DEF Block
<1>8. QED BY <1>7 DEF mI

ClusterWork(n, s) == BeforeWebhooks(n, s) \o WebhookPlan(Append(n, "webhook"), s)

LEMMA ClusterWorkBlock ==
    ASSUME NEW n \in Names, NEW s \in Specs
    PROVE  Block(ClusterWork(n, s),
                 FirstApplies(n, s) \union WebhookApplies(Append(n, "webhook"), s),
                 FirstDrops(n, s) \union WebhookDrops(Append(n, "webhook"), s),
                 MainIfServed(Append(n, "main"), s))
<1>1. Append(n, "webhook") \in Names
    BY NamesGrow DEF Suffixes
<1>2. Block(ClusterWork(n, s),
            FirstApplies(n, s) \union WebhookApplies(Append(n, "webhook"), s),
            FirstDrops(n, s) \union WebhookDrops(Append(n, "webhook"), s),
            MainIfServed(Append(n, "main"), s) \union {})
    BY <1>1, BeforeWebhooksBlock, WebhookBlock, ConcatBlocks DEF ClusterWork
<1>3. QED BY <1>2 DEF Block

-----------------------------------------------------------------------------
(* What a CR's plans name; ensure, which overwrites nothing, aside.         *)

RoleThings(name) == {<<"Deployment", name>>, <<"Service", name>>} \union Exposure(name)
Reach(c) ==
    LET n == NameOf[c] IN
    IF KindOf[c] = "Single" THEN RoleThings(n) \union {<<"PVC", Append(n, "data")>>}
    ELSE UNION { RoleThings(Append(n, "main")), RoleThings(Append(n, "webhook")),
                 {<<"Deployment", Append(n, "worker")>>, <<"HPA", Append(n, "worker")>>},
                 {<<"DestinationRule", Append(n, "main")>>},
                 SharedVolumes(n), {<<"PVC", Append(Append(n, "main"), "data")>>} }

(* The work of a plan between validation and status, by kind.               *)
Work(c, s) == IF KindOf[c] = "Single" THEN SingleWork(NameOf[c], s) ELSE ClusterWork(NameOf[c], s)
Valid(c, s) == IF KindOf[c] = "Single" THEN SingleValid(s) ELSE ClusterValid(s)

LEMMA PlanShape ==
    ASSUME NEW c \in CRs, NEW s
    PROVE  ApplyPlan(c, s) = IF Valid(c, s) THEN Work(c, s) \o Finish ELSE Plain("fail")
<1>1. ASSUME NEW n, NEW t  PROVE SinglePlan(n, t) = IF SingleValid(t) THEN SingleWork(n, t) \o Finish
                                                    ELSE Plain("fail")
    BY DEF SinglePlan, SingleWork
<1>2. ASSUME NEW n, NEW t  PROVE ClusterPlan(n, t) = IF ClusterValid(t) THEN ClusterWork(n, t) \o Finish
                                                     ELSE Plain("fail")
    BY DEF ClusterPlan, ClusterWork, BeforeWebhooks, BeforeMain
<1>3. QED BY <1>1, <1>2 DEF ApplyPlan, Work, Valid

LEMMA RedirectDiffers ==
    \A name \in Names : Redirect(name) # name
<1> SUFFICES ASSUME NEW name \in Names  PROVE Redirect(name) # name
    OBVIOUS
<1>1. name \in Seq(Segments) /\ "redirect" \in Segments
    BY DEF Names, Segments, Suffixes
<1>2. Len(Append(name, "redirect")) = Len(name) + 1 /\ Len(name) \in Nat
    BY <1>1, AppendProperties
<1>3. QED BY <1>2 DEF Redirect

LEMMA RolesDiffer ==
    ASSUME NEW n \in Names
    PROVE  LET m == Append(n, "main")
               h == Append(n, "webhook")
           IN  /\ m \in Names /\ h \in Names /\ m # h /\ h # Append(n, "worker")
               /\ Redirect(m) # m /\ Redirect(m) # h
               /\ Redirect(h) # h /\ Redirect(h) # m /\ Redirect(m) # Redirect(h)
<1>1. {"main", "worker", "webhook", "redirect"} \subseteq Suffixes
    BY DEF Suffixes
<1>2. Append(n, "main") \in Names /\ Append(n, "webhook") \in Names
    BY <1>1, NamesGrow
<1>3. ASSUME NEW name \in Names, NEW x \in Suffixes, NEW other \in Names, NEW y \in Suffixes, x # y
      PROVE  Append(name, x) # Append(other, y)
    BY <1>3, NamesGrow
<1>4. Append(n, "main") # Append(n, "webhook") /\ Append(n, "webhook") # Append(n, "worker")
    BY <1>1, <1>3
<1>5. ASSUME NEW name \in Names
      PROVE  Redirect(name) # Append(n, "main") /\ Redirect(name) # Append(n, "webhook")
    BY <1>1, <1>3 DEF Redirect
<1>6. Redirect(Append(n, "main")) # Redirect(Append(n, "webhook"))
    <2>1. ASSUME NEW a \in Names, NEW b \in Names, a # b  PROVE Redirect(a) # Redirect(b)
        <3>1. "redirect" \in Suffixes
            BY DEF Suffixes
        <3>2. Append(a, "redirect") = Append(b, "redirect") <=> a = b
            BY <3>1, NamesGrow
        <3>3. QED BY <2>1, <3>2 DEF Redirect
    <2>2. QED BY <1>2, <1>4, <2>1
<1>7. /\ Redirect(Append(n, "main")) # Append(n, "main")
      /\ Redirect(Append(n, "main")) # Append(n, "webhook")
    BY <1>2, <1>5
<1>8. /\ Redirect(Append(n, "webhook")) # Append(n, "main")
      /\ Redirect(Append(n, "webhook")) # Append(n, "webhook")
    BY <1>2, <1>5
<1>9. QED BY <1>2, <1>4, <1>6, <1>7, <1>8

(* The same set of wanted things, with the names of the roles as variables. *)
ClusterWants(n, m, h, s) ==
    UNION { {<<"Secret", KeySecret(n)>>}, Role(m, s.net), {<<"Deployment", Append(n, "worker")>>},
            Only(s.multiMain, {<<"DestinationRule", m>>}),
            Only(s.autoscale, {<<"HPA", Append(n, "worker")>>}),
            Only(s.webhooks # "off", Role(h, s.webhooks)),
            Only(s.volumes, SharedVolumes(n)), Only(s.volumes, {<<"PVC", Append(m, "data")>>}) }

LEMMA WantedOfCluster ==
    ASSUME NEW c \in CRs, KindOf[c] = "Cluster", NEW s
    PROVE  Wanted(c, s) = ClusterWants(NameOf[c], Append(NameOf[c], "main"),
                                       Append(NameOf[c], "webhook"), s)
BY DEF Wanted, ClusterWants, Only, SharedVolumes

LEMMA WantedOfSingle ==
    ASSUME NEW c \in CRs, KindOf[c] = "Single", NEW s
    PROVE  Wanted(c, s) = {<<"Secret", KeySecret(NameOf[c])>>}
                          \union (Role(NameOf[c], s.net)
                                  \union Only(s.volumes, {<<"PVC", Append(NameOf[c], "data")>>}))
BY DEF Wanted, Only

LEMMA WantedOfClusterWork ==
    ASSUME NEW n \in Names, NEW s \in Specs
    PROVE  LET wants == ClusterWants(n, Append(n, "main"), Append(n, "webhook"), s)
               applies == FirstApplies(n, s) \union WebhookApplies(Append(n, "webhook"), s)
               drops == FirstDrops(n, s) \union WebhookDrops(Append(n, "webhook"), s)
           IN  /\ \A t \in wants : t[1] \notin {"Secret", "DestinationRule"} => t \in applies
               /\ drops \intersect wants = {}
<1> DEFINE m == Append(n, "main")
           h == Append(n, "webhook")
<1>1. /\ m # h /\ h # Append(n, "worker") /\ Redirect(m) # m /\ Redirect(m) # h
      /\ Redirect(h) # h /\ Redirect(h) # m /\ Redirect(m) # Redirect(h)
    BY RolesDiffer
<1>2. /\ FirstApplies(n, s) = ((Only(s.volumes, SharedVolumes(n))
                                \union (Only(s.volumes, {<<"PVC", Append(m, "data")>>})
                                        \union Role(m, s.net)))
                               \union ({<<"Deployment", Append(n, "worker")>>}
                                       \union Only(s.autoscale, {<<"HPA", Append(n, "worker")>>})))
      /\ FirstDrops(n, s) = MainDrops(m, s) \union Only(~s.autoscale, {<<"HPA", Append(n, "worker")>>})
    BY DEF FirstApplies, FirstDrops
<1> HIDE DEF m, h
<1>3. \A t \in ClusterWants(n, m, h, s) : t[1] \notin {"Secret", "DestinationRule"}
          => t \in FirstApplies(n, s) \union WebhookApplies(h, s)
    BY <1>2 DEF ClusterWants, WebhookApplies, Only
<1>4. MainDrops(m, s) \intersect ClusterWants(n, m, h, s) = {}
    BY <1>1 DEF ClusterWants, MainDrops, Only, Role, Exposure, Exposed, Routes, SharedVolumes
<1>5. Only(~s.autoscale, {<<"HPA", Append(n, "worker")>>}) \intersect ClusterWants(n, m, h, s) = {}
    BY DEF ClusterWants, Only, Role, Exposed, SharedVolumes
<1>6. WebhookDrops(h, s) \intersect ClusterWants(n, m, h, s) = {}
    <2>1. CASE s.webhooks = "off"
        BY <1>1, <2>1 DEF ClusterWants, WebhookDrops, Only, Role, Exposure, Exposed, Routes, SharedVolumes
    <2>2. CASE s.webhooks # "off"
        BY <1>1, <2>2 DEF ClusterWants, WebhookDrops, Only, Role, Exposure, Exposed, Routes, SharedVolumes
    <2>3. QED BY <2>1, <2>2
<1>7. QED BY <1>2, <1>3, <1>4, <1>5, <1>6 DEF m, h

-----------------------------------------------------------------------------
(* What is left of a reconcile.                                             *)

Puts == {"apply", "applyIfServed", "ensure"}
Naming == {"apply", "applyIfServed", "delete", "deleteQuietly"}
InSecrets(t) == t \in {"Secret"} \X Names

StatusLast(plan) == \A i \in 1..Len(plan) : plan[i].op = "status" => i = Len(plan)

(* Every apply of the main role comes before every deletion of the webhook  *)
(* role's Deployment.                                                       *)
MainFirst(c, plan) ==
    \A i, j \in 1..Len(plan) :
        /\ plan[i].op = "apply" /\ plan[i].thing = Main(c)
        /\ plan[j].op \in Deletes /\ plan[j].thing = Webhook(c)
        => i < j

(* A plan, or what is left of it, that a reconcile of CR c may run for spec *)
(* s.                                                                       *)
Fit(c, plan, s) ==
    /\ Tidy(plan) /\ CallsOf(plan) \subseteq Calls
    /\ Drops(plan) \intersect Wanted(c, s) = {}
    /\ Does(plan, Naming) \subseteq Reach(c)
    /\ \A t \in Does(plan, {"ensure"}) : InSecrets(t)
    /\ Does(plan, Puts) # {} => Valid(c, s)
    /\ StatusLast(plan)
    /\ KindOf[c] = "Cluster" =>
           /\ Webhook(c) \in Drops(plan) => s.webhooks = "off"
           /\ MainFirst(c, plan)

(* A child the status of a CR stands for, but for the DestinationRule.      *)
Counted(t) == t[1] \notin {"Secret", "DestinationRule"}

(* Inductive for any CRs and names.                                         *)
SpecsKnown == \A c \in CRs : cr[c].spec \in SpecsOf[c]
PlansFit == \A c \in CRs : ~Idle(c) => doing[c] \in SpecsOf[c] /\ Fit(c, todo[c], doing[c])
Owned == \A t \in Things : obj[t] # Absent =>
             /\ t \in Reach(obj[t].owner) \/ InSecrets(t)
             /\ obj[t].spec \in SpecsOf[obj[t].owner] /\ Valid(obj[t].owner, obj[t].spec)
ChildInv == TypeOK /\ SpecsKnown /\ PlansFit /\ Owned

(* The rest needs that no two CRs reach for one thing.  Until the status is *)
(* written, every child it stands for is applied or still to be applied.    *)
InPlace(c) ==
    (Does(todo[c], {"status"}) # {} /\ cr[c].exists /\ ~ending) =>
        \A t \in Wanted(c, doing[c]) : Counted(t) =>
            \/ t \in Applies(todo[c])
            \/ t \in Things /\ obj[t] = [owner |-> c, spec |-> doing[c]]

(* Before the webhook role goes, main has the webhooks back, or gets them.  *)
TakenBack(c) ==
    Webhook(c) \in Drops(todo[c]) => Main(c) \in Applies(todo[c]) \/ ~Offloads(c)

NamesApart == \A c, d \in CRs : c # d => Reach(c) \intersect Reach(d) = {}
RoutesStay == ApiMayChange => "HTTPRoute" \notin Optional

LEMMA Suffix ==
    ASSUME NEW p, Tidy(p), NEW n \in 0..Len(p)
    PROVE  LET q == SubSeq(p, n + 1, Len(p)) IN
           /\ Tidy(q) /\ Len(q) = Len(p) - n
           /\ \A i \in 1..Len(q) : q[i] = p[i + n] /\ i + n \in 1..Len(p)
           /\ CallsOf(q) \subseteq CallsOf(p)
           /\ \A ops : Does(q, ops) \subseteq Does(p, ops)
<1> DEFINE q == SubSeq(p, n + 1, Len(p))
<1>1. p \in Seq(AnyCall) /\ Len(p) \in Nat
    BY DEF Tidy
<1>2. /\ q \in Seq(AnyCall) /\ Len(q) = Len(p) - n /\ Len(q) \in Nat
      /\ \A i \in 1..Len(q) : q[i] = p[i + n] /\ i + n \in 1..Len(p)
    <2>1. n + 1 \in 1..Len(p) + 1 /\ Len(p) \in n + 1 - 1..Len(p)
        BY <1>1
    <2>2. \A i \in 1..Len(p) : p[i] \in AnyCall
        BY <1>1
    <2>3. CASE n = Len(p)
        <3>1. q = << >>
            BY <1>1, <2>3
        <3>2. QED BY <2>3, <3>1
    <2>4. CASE n < Len(p)
        <3>1. /\ q \in Seq(AnyCall) /\ Len(q) = Len(p) - (n + 1) + 1
              /\ \A i \in 1..Len(p) - (n + 1) + 1 : q[i] = p[n + 1 + i - 1]
            BY <1>1, <2>4, SubSeqProperties
        <3>2. \A i \in 1..Len(q) : n + 1 + i - 1 = i + n /\ i + n \in 1..Len(p)
            BY <1>1, <3>1
        <3>3. QED BY <1>1, <3>1, <3>2
    <2>5. QED BY <1>1, <2>3, <2>4
<1> HIDE DEF q
<1>3. \A i \in 1..Len(p) : p[i].skip \in Nat
    <2>1. \A i \in 1..Len(p) : p[i] \in AnyCall
        BY <1>1
    <2>2. QED BY <2>1 DEF AnyCall
<1>4. Tidy(q)
    <2>1. ASSUME NEW j \in 1..Len(q)  PROVE j + q[j].skip <= Len(q) + 1
        <3>1. j + n + p[j + n].skip <= Len(p) + 1
            BY <1>2 DEF Tidy
        <3>2. QED BY <1>1, <1>2, <1>3, <3>1
    <2>2. ASSUME NEW i \in 1..Len(q), NEW j \in 1..Len(q), j < i, q[i].op \in Fixed
          PROVE  j + q[j].skip <= i
        <3>1. j + n + p[j + n].skip <= i + n
            <4>1. j + n < i + n /\ p[i + n].op \in Fixed /\ i + n \in 1..Len(p) /\ j + n \in 1..Len(p)
                BY <1>1, <1>2, <2>2
            <4>2. QED BY <4>1 DEF Tidy
        <3>2. QED BY <1>1, <1>2, <1>3, <3>1
    <2>3. QED BY <1>2, <2>1, <2>2 DEF Tidy
<1>5. CallsOf(q) \subseteq CallsOf(p)
    <2>1. DOMAIN q = 1..Len(q) /\ DOMAIN p = 1..Len(p)
        BY <1>1, <1>2
    <2>2. QED BY <1>2, <2>1 DEF CallsOf
<1>6. \A ops : Does(q, ops) \subseteq Does(p, ops)
    BY <1>5 DEF Does
<1>7. QED BY <1>2, <1>4, <1>5, <1>6 DEF q

(* Going on passes over no apply, but for the call that was made.           *)
LEMMA Advance ==
    ASSUME NEW p, Tidy(p), p # << >>, NEW n \in {1, p[1].skip}
    PROVE  /\ n \in 0..Len(p)
           /\ Applies(p) \subseteq Applies(SubSeq(p, n + 1, Len(p)))
                  \union (IF p[1].op = "apply" THEN {p[1].thing} ELSE {})
<1>1. p \in Seq(AnyCall) /\ Len(p) \in Nat /\ Len(p) >= 1 /\ DOMAIN p = 1..Len(p)
    BY EmptySeq DEF Tidy
<1>2. p[1] \in AnyCall /\ p[1].skip \in Nat
    <2>1. p[1] \in AnyCall
        BY <1>1, ElementOfSeq
    <2>2. QED BY <2>1 DEF AnyCall
<1>3. n \in 0..Len(p)
    BY <1>1, <1>2 DEF Tidy
<1> DEFINE q == SubSeq(p, n + 1, Len(p))
<1>4. Len(q) = Len(p) - n /\ Tidy(q) /\ \A i \in 1..Len(q) : q[i] = p[i + n]
    BY <1>3, Suffix
<1> HIDE DEF q
<1>5. ASSUME NEW t \in Applies(p), t \notin Applies(q)
      PROVE  p[1].op = "apply" /\ p[1].thing = t
    <2>1. PICK i \in 1..Len(p) : p[i].op = "apply" /\ p[i].thing = t
        BY <1>1 DEF Applies, Does, CallsOf
    <2>2. CASE i > n
        <3>1. i - n \in 1..Len(q) /\ q[i - n] = p[i]
            <4>1. i - n \in 1..Len(q) /\ (i - n) + n = i
                BY <1>1, <1>3, <1>4, <2>2
            <4>2. QED BY <1>4, <4>1
        <3>2. DOMAIN q = 1..Len(q)
            BY <1>4 DEF Tidy
        <3>3. t \in Applies(q)
            BY <2>1, <3>1, <3>2 DEF Applies, Does, CallsOf
        <3>4. QED BY <1>5, <3>3
    <2>3. CASE i <= n /\ i # 1
        <3>1. 1 + p[1].skip <= i
            BY <1>1, <2>1, <2>3 DEF Tidy, Fixed
        <3>2. n = p[1].skip
            BY <1>1, <1>2, <2>3
        <3>3. QED BY <1>2, <2>3, <3>1, <3>2
    <2>4. CASE i = 1
        BY <2>1, <2>4
    <2>5. QED BY <1>1, <1>3, <2>2, <2>3, <2>4
<1>6. QED BY <1>3, <1>5 DEF q

LEMMA FitSuffix ==
    ASSUME NEW c \in CRs, NEW s, NEW p, Fit(c, p, s), NEW n \in 0..Len(p)
    PROVE  Fit(c, SubSeq(p, n + 1, Len(p)), s)
<1> DEFINE q == SubSeq(p, n + 1, Len(p))
<1>1. p \in Seq(AnyCall) /\ Len(p) \in Nat
    BY DEF Fit, Tidy
<1>2. /\ Tidy(q) /\ Len(q) = Len(p) - n
      /\ \A i \in 1..Len(q) : q[i] = p[i + n] /\ i + n \in 1..Len(p)
      /\ CallsOf(q) \subseteq CallsOf(p)
      /\ \A ops : Does(q, ops) \subseteq Does(p, ops)
    BY Suffix DEF Fit
<1> HIDE DEF q
<1>3. Drops(q) \subseteq Drops(p)
    BY <1>2 DEF Drops
<1>4. StatusLast(q)
    <2>1. SUFFICES ASSUME NEW i \in 1..Len(q), q[i].op = "status"  PROVE i = Len(q)
        BY DEF StatusLast
    <2>2. i + n = Len(p)
        BY <1>2, <2>1 DEF Fit, StatusLast
    <2>3. QED BY <1>1, <1>2, <2>2
<1>5. ASSUME KindOf[c] = "Cluster"  PROVE MainFirst(c, q)
    <2>1. SUFFICES ASSUME NEW i \in 1..Len(q), NEW j \in 1..Len(q),
                          q[i].op = "apply", q[i].thing = Main(c),
                          q[j].op \in Deletes, q[j].thing = Webhook(c)
                   PROVE  i < j
        BY DEF MainFirst
    <2>2. i + n < j + n
        BY <1>2, <1>5, <2>1 DEF Fit, MainFirst
    <2>3. QED BY <1>1, <2>2
<1>6. QED BY <1>2, <1>3, <1>4, <1>5 DEF Fit, q

-----------------------------------------------------------------------------
(* The plans fit.                                                           *)

LEMMA FinishFacts ==
    /\ Tidy(Finish) /\ Len(Finish) = 2
    /\ Finish[1].op = "event" /\ Finish[2].op = "status"
    /\ Does(Finish, Naming) = {} /\ Does(Finish, Puts) = {} /\ Does(Finish, {"ensure"}) = {}
    /\ Applies(Finish) = {} /\ Drops(Finish) = {} /\ Does(Finish, {"status"}) # {}
<1> DEFINE a == [op |-> "event", thing |-> None, skip |-> 0]
           b == [op |-> "status", thing |-> None, skip |-> 0]
<1>1. /\ a \in AnyCall /\ b \in AnyCall
      /\ a.op = "event" /\ b.op = "status" /\ a.skip = 0 /\ b.skip = 0
    BY DEF AnyCall, Ops
<1>2. Finish = <<a>> \o <<b>>
    BY DEF Finish, Plain
<1> HIDE DEF a, b
<1>3. /\ Tidy(<<a>>) /\ Tidy(<<b>>) /\ CallsOf(<<a>>) = {a} /\ CallsOf(<<b>>) = {b}
      /\ Len(<<a>>) = 1 /\ <<a>>[1] = a /\ Len(<<b>>) = 1 /\ <<b>>[1] = b
    <2>1. ASSUME NEW x \in AnyCall, x.skip = 0
          PROVE  Tidy(<<x>>) /\ CallsOf(<<x>>) = {x} /\ Len(<<x>>) = 1 /\ <<x>>[1] = x
        <3>1. x.skip <= 1
            BY <2>1
        <3>2. Tidy(<<x>>) /\ CallsOf(<<x>>) = {x}
            BY <3>1, OneCall
        <3>3. QED BY <3>2
    <2>2. QED BY <1>1, <2>1
<1>4. Tidy(<<a>> \o <<b>>)
    BY <1>3, ConcatTidy
<1>5. <<a>> \in Seq(AnyCall) /\ <<b>> \in Seq(AnyCall)
    BY <1>3 DEF Tidy
<1>6. CallsOf(<<a>> \o <<b>>) = {a, b}
    <2>1. CallsOf(<<a>> \o <<b>>) = CallsOf(<<a>>) \union CallsOf(<<b>>)
        BY <1>5, ConcatCalls
    <2>2. QED BY <1>3, <2>1
<1>7. Len(<<a>> \o <<b>>) = 2 /\ (<<a>> \o <<b>>)[1] = a /\ (<<a>> \o <<b>>)[2] = b
    <2>1. /\ Len(<<a>> \o <<b>>) = Len(<<a>>) + Len(<<b>>)
          /\ \A i \in 1..Len(<<a>>) + Len(<<b>>) :
                 (<<a>> \o <<b>>)[i] = IF i <= Len(<<a>>) THEN <<a>>[i] ELSE <<b>>[i - Len(<<a>>)]
        BY <1>5, ConcatProperties
    <2>2. QED BY <1>3, <2>1
<1>8. ASSUME NEW ops, ops \in {Naming, Puts, {"ensure"}, {"apply"}, Deletes}
      PROVE  Does(Finish, ops) = {}
    BY <1>1, <1>2, <1>6, <1>8 DEF Does, Naming, Puts, Deletes
<1>9. b.thing \in Does(Finish, {"status"})
    BY <1>1, <1>2, <1>6 DEF Does
<1>10. QED BY <1>1, <1>2, <1>4, <1>7, <1>8, <1>9 DEF Applies, Drops

LEMMA ConcatStatus ==
    ASSUME NEW w, Tidy(w), Does(w, {"status"}) = {}
    PROVE  StatusLast(w \o Finish)
<1>1. w \in Seq(AnyCall) /\ Finish \in Seq(AnyCall) /\ Len(w) \in Nat /\ DOMAIN w = 1..Len(w)
    BY FinishFacts DEF Tidy
<1>2. /\ Len(w \o Finish) = Len(w) + 2
      /\ \A i \in 1..Len(w) + 2 :
             (w \o Finish)[i] = IF i <= Len(w) THEN w[i] ELSE Finish[i - Len(w)]
    <2>1. /\ Len(w \o Finish) = Len(w) + Len(Finish)
          /\ \A i \in 1..Len(w) + Len(Finish) :
                 (w \o Finish)[i] = IF i <= Len(w) THEN w[i] ELSE Finish[i - Len(w)]
        BY <1>1, ConcatProperties
    <2>2. Len(Finish) = 2
        BY FinishFacts
    <2>3. QED BY <2>1, <2>2
<1> SUFFICES ASSUME NEW i \in 1..Len(w) + 2, (w \o Finish)[i].op = "status"
             PROVE  i = Len(w) + 2
    BY <1>2 DEF StatusLast
<1>3. CASE i <= Len(w)
    <2>1. w[i].op = "status"
        BY <1>2, <1>3
    <2>2. i \in DOMAIN w
        BY <1>1, <1>3
    <2>3. w[i].thing \in Does(w, {"status"})
        BY <2>1, <2>2 DEF Does, CallsOf
    <2>4. QED BY <2>3
<1>4. CASE i = Len(w) + 1
    <2>1. (w \o Finish)[i] = Finish[1]
        BY <1>1, <1>2, <1>4
    <2>2. QED BY <2>1, FinishFacts
<1>5. QED BY <1>1, <1>3, <1>4

LEMMA ConcatMainFirst ==
    ASSUME NEW c, NEW p, NEW q, Tidy(p), Tidy(q),
           Webhook(c) \notin Drops(p), Main(c) \notin Applies(q)
    PROVE  MainFirst(c, p \o q)
<1>1. /\ p \in Seq(AnyCall) /\ q \in Seq(AnyCall) /\ Len(p) \in Nat /\ Len(q) \in Nat
      /\ DOMAIN p = 1..Len(p) /\ DOMAIN q = 1..Len(q)
    BY DEF Tidy
<1>2. /\ Len(p \o q) = Len(p) + Len(q)
      /\ \A i \in 1..Len(p) + Len(q) :
             (p \o q)[i] = IF i <= Len(p) THEN p[i] ELSE q[i - Len(p)]
    BY <1>1, ConcatProperties
<1>3. ASSUME NEW i \in 1..Len(p) + Len(q),
             (p \o q)[i].op = "apply", (p \o q)[i].thing = Main(c), ~(i <= Len(p))
      PROVE  FALSE
    <2>1. i - Len(p) \in DOMAIN q /\ q[i - Len(p)] = (p \o q)[i]
        BY <1>1, <1>2, <1>3
    <2>2. QED BY <1>3, <2>1 DEF Applies, Does, CallsOf
<1>4. ASSUME NEW j \in 1..Len(p) + Len(q),
             (p \o q)[j].op \in Deletes, (p \o q)[j].thing = Webhook(c), j <= Len(p)
      PROVE  FALSE
    <2>1. j \in DOMAIN p /\ p[j] = (p \o q)[j]
        BY <1>1, <1>2, <1>4
    <2>2. QED BY <1>4, <2>1 DEF Drops, Does, CallsOf
<1>5. QED BY <1>1, <1>2, <1>3, <1>4 DEF MainFirst

(* The work of a plan: what Fit and the invariants need of it.              *)
WorkFacts(c, w, s) ==
    /\ Tidy(w) /\ Does(w, {"status"}) = {}
    /\ Drops(w) \intersect Wanted(c, s) = {}
    /\ Does(w, Naming) \subseteq Reach(c)
    /\ \A t \in Does(w, {"ensure"}) : InSecrets(t)
    /\ \A t \in Wanted(c, s) : Counted(t) => t \in Applies(w)
    /\ KindOf[c] = "Cluster" =>
           /\ Webhook(c) \in Drops(w) => s.webhooks = "off"
           /\ Main(c) \in Applies(w)
           /\ MainFirst(c, w \o Finish)

LEMMA NamingParts ==
    \A plan : Does(plan, Naming) = (Applies(plan) \union Does(plan, {"applyIfServed"}))
                                       \union Drops(plan)
BY DEF Does, Applies, Drops, Naming, Deletes

LEMMA ExposedIsExposure == \A name, net : Exposed(name, net) \subseteq Exposure(name)
BY DEF Exposed, Exposure, Routes

LEMMA SingleFacts ==
    ASSUME NEW c \in CRs, KindOf[c] = "Single", NEW s \in Specs
    PROVE  WorkFacts(c, SingleWork(NameOf[c], s), s)
<1> DEFINE n == NameOf[c]
           w == SingleWork(n, s)
           a == Only(s.volumes, {<<"PVC", Append(n, "data")>>}) \union Role(n, s.net)
<1>1. n \in Names
    BY ConstantsOK
<1>2. Block(w, a, Exposure(n) \ Exposed(n, s.net), {})
    BY <1>1, SingleWorkBlock
<1>3. Wanted(c, s) = {<<"Secret", KeySecret(n)>>}
                     \union (Role(n, s.net) \union Only(s.volumes, {<<"PVC", Append(n, "data")>>}))
    BY WantedOfSingle
<1>4. Reach(c) = RoleThings(n) \union {<<"PVC", Append(n, "data")>>}
    BY DEF Reach
<1> HIDE DEF n, w
<1>5. (Exposure(n) \ Exposed(n, s.net)) \intersect Wanted(c, s) = {}
    BY <1>3 DEF Role, Only, Exposure, Routes
<1>6. a \subseteq Reach(c) /\ Exposure(n) \ Exposed(n, s.net) \subseteq Reach(c)
    BY <1>4, ExposedIsExposure DEF Role, RoleThings, Only
<1>7. \A t \in Wanted(c, s) : Counted(t) => t \in a
    BY <1>3 DEF Counted
<1> HIDE DEF a
<1>8. /\ Applies(w) = a /\ Drops(w) \subseteq Exposure(n) \ Exposed(n, s.net)
      /\ Does(w, {"applyIfServed"}) = {} /\ Does(w, {"status"}) = {} /\ Tidy(w)
      /\ \A t \in Does(w, {"ensure"}) : InSecrets(t)
    BY <1>2 DEF Block, InSecrets
<1>9. Does(w, Naming) \subseteq Reach(c)
    BY <1>6, <1>8, NamingParts
<1>10. QED BY <1>5, <1>7, <1>8, <1>9 DEF WorkFacts, w, n

LEMMA ClusterFacts ==
    ASSUME NEW c \in CRs, KindOf[c] = "Cluster", NEW s \in Specs
    PROVE  WorkFacts(c, ClusterWork(NameOf[c], s), s)
<1> DEFINE n == NameOf[c]
           m == Append(n, "main")
           h == Append(n, "webhook")
           k == Append(n, "worker")
           w == ClusterWork(n, s)
           a == FirstApplies(n, s) \union WebhookApplies(h, s)
           d == FirstDrops(n, s) \union WebhookDrops(h, s)
           b == BeforeWebhooks(n, s)
           v == WebhookPlan(h, s)
<1>1. n \in Names
    BY ConstantsOK
<1>2. h \in Names /\ m # h
    BY <1>1, RolesDiffer
<1>3. Block(w, a, d, MainIfServed(m, s))
    BY <1>1, ClusterWorkBlock
<1>4. /\ \A t \in Wanted(c, s) : t[1] \notin {"Secret", "DestinationRule"} => t \in a
      /\ d \intersect Wanted(c, s) = {}
    BY <1>1, WantedOfCluster, WantedOfClusterWork
<1>5. /\ Block(b, FirstApplies(n, s), FirstDrops(n, s), MainIfServed(m, s))
      /\ Block(v, WebhookApplies(h, s), WebhookDrops(h, s), {})
      /\ w = b \o v
    BY <1>1, <1>2, BeforeWebhooksBlock, WebhookBlock DEF ClusterWork
<1>6. /\ Reach(c) = UNION { RoleThings(m), RoleThings(h),
                            {<<"Deployment", k>>, <<"HPA", k>>}, {<<"DestinationRule", m>>},
                            SharedVolumes(n), {<<"PVC", Append(m, "data")>>} }
      /\ FirstApplies(n, s) = ((Only(s.volumes, SharedVolumes(n))
                                \union (Only(s.volumes, {<<"PVC", Append(m, "data")>>})
                                        \union Role(m, s.net)))
                               \union ({<<"Deployment", k>>} \union Only(s.autoscale, {<<"HPA", k>>})))
      /\ FirstDrops(n, s) = MainDrops(m, s) \union Only(~s.autoscale, {<<"HPA", k>>})
      /\ Main(c) = <<"Deployment", m>> /\ Webhook(c) = <<"Deployment", h>>
    BY DEF Reach, FirstApplies, FirstDrops, Main, Webhook
<1> HIDE DEF n, m, h, k, w, b, v
<1>7. FirstApplies(n, s) \subseteq Reach(c) /\ FirstDrops(n, s) \subseteq Reach(c)
      /\ MainIfServed(m, s) \subseteq Reach(c)
    BY <1>6, ExposedIsExposure DEF Only, Role, RoleThings, MainDrops, MainIfServed
<1>8. WebhookApplies(h, s) \subseteq Reach(c) /\ WebhookDrops(h, s) \subseteq Reach(c)
    BY <1>6, ExposedIsExposure DEF Only, Role, RoleThings, WebhookApplies, WebhookDrops
<1>9. Main(c) \in FirstApplies(n, s)
    BY <1>6 DEF Role
<1>10. Webhook(c) \notin FirstDrops(n, s)
    BY <1>6 DEF MainDrops, Only, Exposure, Routes
<1>11. Main(c) \notin WebhookApplies(h, s)
    BY <1>2, <1>6 DEF WebhookApplies, Only, Role, Exposed
<1>12. s.webhooks # "off" => Webhook(c) \notin WebhookDrops(h, s)
    BY <1>6 DEF WebhookDrops, Exposure, Routes
<1>13. /\ Applies(w) = a /\ Drops(w) \subseteq d /\ Tidy(w)
       /\ Does(w, {"applyIfServed"}) \subseteq MainIfServed(m, s) /\ Does(w, {"status"}) = {}
       /\ \A t \in Does(w, {"ensure"}) : InSecrets(t)
    BY <1>3 DEF Block, InSecrets
<1>14. MainFirst(c, w \o Finish)
    <2>1. /\ Tidy(b) /\ Tidy(v) /\ Webhook(c) \notin Drops(b) /\ Main(c) \notin Applies(v)
        BY <1>5, <1>10, <1>11 DEF Block
    <2>2. Tidy(v \o Finish) /\ Applies(v \o Finish) = Applies(v)
        <3>1. Applies(v \o Finish) = Applies(v) \union Applies(Finish)
            BY <2>1, FinishFacts, ConcatCalls DEF Applies, Tidy
        <3>2. QED BY <2>1, <3>1, FinishFacts, ConcatTidy
    <2>3. w \o Finish = b \o (v \o Finish)
        BY <1>5, <2>1, FinishFacts, ConcatAssociative DEF Tidy
    <2>4. QED BY <2>1, <2>2, <2>3, ConcatMainFirst
<1>15. Does(w, Naming) \subseteq Reach(c)
    BY <1>7, <1>8, <1>13, NamingParts
<1>16. Webhook(c) \in Drops(w) => s.webhooks = "off"
    BY <1>10, <1>12, <1>13
<1> HIDE DEF a, d
<1>17. Main(c) \in Applies(w)
    BY <1>9, <1>13 DEF a
<1>18. QED BY <1>4, <1>13, <1>14, <1>15, <1>16, <1>17 DEF WorkFacts, Counted, w, n

(* Plans that make no call on a child.                                      *)
LEMMA BareFits ==
    ASSUME NEW c \in CRs, NEW s, NEW p, Tidy(p), CallsOf(p) \subseteq Calls,
           \A x \in CallsOf(p) : x.op \in {"fail", "event", "addFinalizer", "removeFinalizer"}
    PROVE  Fit(c, p, s) /\ Does(p, {"status"}) = {} /\ Drops(p) = {} /\ Does(p, Puts) = {}
<1>1. \A ops : ops \intersect {"fail", "event", "addFinalizer", "removeFinalizer"} = {}
          => Does(p, ops) = {}
    BY DEF Does
<1>2. /\ Naming \intersect {"fail", "event", "addFinalizer", "removeFinalizer"} = {}
      /\ Puts \intersect {"fail", "event", "addFinalizer", "removeFinalizer"} = {}
      /\ Deletes \intersect {"fail", "event", "addFinalizer", "removeFinalizer"} = {}
    BY DEF Naming, Puts, Deletes
<1>3. /\ Does(p, Naming) = {} /\ Does(p, Puts) = {} /\ Drops(p) = {}
      /\ Does(p, {"ensure"}) = {} /\ Does(p, {"status"}) = {}
    BY <1>1, <1>2 DEF Drops
<1>4. \A i \in 1..Len(p) : p[i] \in CallsOf(p)
    BY DEF Tidy, CallsOf
<1>5. StatusLast(p) /\ MainFirst(c, p)
    BY <1>4 DEF StatusLast, MainFirst
<1>6. QED BY <1>3, <1>5 DEF Fit

LEMMA PlainFacts ==
    ASSUME NEW op \in Ops
    PROVE  /\ Tidy(Plain(op)) /\ Plain(op) \in Seq(AnyCall)
           /\ CallsOf(Plain(op)) = {[op |-> op, thing |-> None, skip |-> 0]}
<1> DEFINE k == [op |-> op, thing |-> None, skip |-> 0]
<1>1. k \in AnyCall /\ k.skip <= 1
    BY DEF AnyCall
<1>2. Plain(op) = <<k>>
    BY DEF Plain
<1> HIDE DEF k
<1>3. Tidy(<<k>>) /\ CallsOf(<<k>>) = {k}
    BY <1>1, OneCall
<1>4. QED BY <1>2, <1>3 DEF Tidy, k

LEMMA CleanupFits ==
    ASSUME NEW c \in CRs, NEW s, NEW p \in {CleanupPlan, FinalizerPlan}
    PROVE  Fit(c, p, s) /\ Does(p, {"status"}) = {} /\ Drops(p) = {} /\ Does(p, Puts) = {}
<1>1. {"event", "removeFinalizer", "addFinalizer"} \subseteq Ops
    BY DEF Ops
<1>2. /\ Tidy(CleanupPlan) /\ CleanupPlan \in Seq(AnyCall)
      /\ \A x \in CallsOf(CleanupPlan) : x.op \in {"event", "removeFinalizer"}
    <2> DEFINE a == Plain("event")
               b == Plain("removeFinalizer")
    <2>1. /\ Tidy(a) /\ a \in Seq(AnyCall) /\ \A x \in CallsOf(a) : x.op = "event"
        BY <1>1, PlainFacts
    <2>2. /\ Tidy(b) /\ b \in Seq(AnyCall) /\ \A x \in CallsOf(b) : x.op = "removeFinalizer"
        BY <1>1, PlainFacts
    <2>3. CleanupPlan = a \o b
        BY DEF CleanupPlan
    <2> HIDE DEF a, b
    <2>4. QED BY <2>1, <2>2, <2>3, ConcatTidy, ConcatCalls
<1>3. /\ Tidy(FinalizerPlan) /\ FinalizerPlan \in Seq(AnyCall)
      /\ \A x \in CallsOf(FinalizerPlan) : x.op = "addFinalizer"
    BY <1>1, PlainFacts DEF FinalizerPlan
<1>4. CallsOf(CleanupPlan) \subseteq Calls /\ CallsOf(FinalizerPlan) \subseteq Calls
    <2>1. CallsOf(CleanupPlan \o FinalizerPlan) = CallsOf(CleanupPlan) \union CallsOf(FinalizerPlan)
        BY <1>2, <1>3, ConcatCalls
    <2>2. CallsOf(CleanupPlan \o FinalizerPlan) \subseteq Calls
        BY DEF Calls
    <2>3. QED BY <2>1, <2>2
<1>5. Tidy(p) /\ CallsOf(p) \subseteq Calls
      /\ \A x \in CallsOf(p) : x.op \in {"fail", "event", "addFinalizer", "removeFinalizer"}
    BY <1>2, <1>3, <1>4
<1>6. QED BY <1>5, BareFits

(* What a reconcile begins with.                                            *)
Begun(c, p, s) ==
    /\ Fit(c, p, s)
    /\ Does(p, {"status"}) # {} => \A t \in Wanted(c, s) : Counted(t) => t \in Applies(p)
    /\ KindOf[c] = "Cluster" /\ Webhook(c) \in Drops(p) => Main(c) \in Applies(p)

LEMMA ApplyBegun ==
    ASSUME NEW c \in CRs, NEW s \in SpecsOf[c]
    PROVE  Begun(c, ApplyPlan(c, s), s)
<1> DEFINE p == ApplyPlan(c, s)
           w == Work(c, s)
<1>1. s \in Specs /\ KindOf[c] \in {"Single", "Cluster"}
    BY ConstantsOK
<1>2. CallsOf(p) \subseteq Calls
    BY DEF Calls
<1>3. CASE ~Valid(c, s)
    <2>1. p = Plain("fail")
        BY <1>3, PlanShape
    <2>2. Tidy(p) /\ \A x \in CallsOf(p) : x.op = "fail"
        <3>1. "fail" \in Ops
            BY DEF Ops
        <3>2. QED BY <2>1, <3>1, PlainFacts
    <2> HIDE DEF p
    <2>3. Fit(c, p, s) /\ Does(p, {"status"}) = {} /\ Drops(p) = {}
        BY <1>2, <2>2, BareFits
    <2>4. QED BY <2>3 DEF Begun, p
<1>4. CASE Valid(c, s)
    <2>1. p = w \o Finish
        BY <1>4, PlanShape
    <2>2. WorkFacts(c, w, s)
        BY <1>1, SingleFacts, ClusterFacts DEF Work
    <2> HIDE DEF p, w
    <2>3. /\ w \in Seq(AnyCall) /\ Finish \in Seq(AnyCall) /\ Tidy(w) /\ Tidy(Finish)
        BY <2>2, FinishFacts DEF WorkFacts, Tidy
    <2>4. Tidy(p) /\ \A ops : Does(p, ops) = Does(w, ops) \union Does(Finish, ops)
        BY <2>1, <2>3, ConcatTidy, ConcatCalls
    <2>5. /\ Does(p, Naming) = Does(w, Naming) /\ Does(p, {"ensure"}) = Does(w, {"ensure"})
          /\ Applies(p) = Applies(w) /\ Drops(p) = Drops(w)
        BY <2>4, FinishFacts DEF Applies, Drops
    <2>6. StatusLast(p)
        BY <2>1, <2>2, ConcatStatus DEF WorkFacts
    <2>7. Fit(c, p, s)
        BY <1>2, <1>4, <2>1, <2>2, <2>4, <2>5, <2>6 DEF Fit, WorkFacts
    <2>8. QED BY <2>2, <2>5, <2>7 DEF Begun, WorkFacts, p
<1>5. QED BY <1>3, <1>4

-----------------------------------------------------------------------------
(* The invariant, for any CRs and names.                                    *)

LEMMA CallsTyped ==
    ASSUME NEW p, Tidy(p), CallsOf(p) \subseteq Calls
    PROVE  p \in Seq(Calls)
<1>1. p \in Seq(AnyCall) /\ Len(p) \in Nat /\ DOMAIN p = 1..Len(p)
    BY DEF Tidy
<1>2. \A i \in 1..Len(p) : p[i] \in Calls
    BY <1>1 DEF CallsOf
<1>3. p = [i \in 1..Len(p) |-> p[i]]
    BY <1>1
<1>4. QED BY <1>1, <1>2, <1>3, SeqDef

(* The call a reconcile is at.                                              *)
LEMMA AtCall ==
    ASSUME PlansFit, NEW c \in CRs, ~Idle(c)
    PROVE  /\ todo[c] # << >> /\ Tidy(todo[c])
           /\ Len(todo[c]) \in Nat /\ 1 \in 1..Len(todo[c]) /\ Head(todo[c]) = todo[c][1]
           /\ todo[c][1] \in CallsOf(todo[c]) /\ todo[c][1] \in Calls
           /\ \A ops : Head(todo[c]).op \in ops => This(c) \in Does(todo[c], ops)
<1>1. todo[c] # << >> /\ Tidy(todo[c]) /\ CallsOf(todo[c]) \subseteq Calls
    BY DEF PlansFit, Idle, Fit
<1>2. Len(todo[c]) \in Nat /\ 1 \in 1..Len(todo[c]) /\ DOMAIN todo[c] = 1..Len(todo[c])
    BY <1>1, EmptySeq DEF Tidy
<1>3. Head(todo[c]) = todo[c][1]
    BY <1>1 DEF Tidy
<1>4. todo[c][1] \in CallsOf(todo[c])
    BY <1>2 DEF CallsOf
<1>5. QED BY <1>1, <1>2, <1>3, <1>4 DEF Does, This

LEMMA Goes ==
    ASSUME TypeOK, PlansFit, NEW c \in CRs, ~Idle(c), NEW n \in 0..Len(todo[c]), GoOn(c, n)
    PROVE  /\ todo' \in [CRs -> Seq(Calls)] /\ doing' \in [CRs -> Specs \union {None}]
           /\ PlansFit'
           /\ todo'[c] = SubSeq(todo[c], n + 1, Len(todo[c]))
           /\ todo'[c] # << >> => doing'[c] = doing[c]
           /\ \A d \in CRs : d # c => todo'[d] = todo[d] /\ doing'[d] = doing[d]
<1> DEFINE q == SubSeq(todo[c], n + 1, Len(todo[c]))
<1>1. /\ todo \in [CRs -> Seq(Calls)] /\ doing \in [CRs -> Specs \union {None}]
    BY DEF TypeOK
<1>2. doing[c] \in SpecsOf[c] /\ Fit(c, todo[c], doing[c]) /\ Tidy(todo[c]) /\ Len(todo[c]) \in Nat
    BY AtCall DEF PlansFit
<1>3. Fit(c, q, doing[c]) /\ Len(q) = Len(todo[c]) - n
    BY <1>2, FitSuffix, Suffix
<1>4. q \in Seq(Calls)
    BY <1>3, CallsTyped DEF Fit
<1> HIDE DEF q
<1>5. todo' = [todo EXCEPT ![c] = q]
    BY DEF GoOn, q
<1>6. doing' = [doing EXCEPT ![c] = IF n < Len(todo[c]) THEN doing[c] ELSE None]
    BY DEF GoOn
<1>7. q # << >> => n < Len(todo[c])
    BY <1>2, <1>3, <1>4, EmptySeq
<1>8. todo'[c] = q /\ (q # << >> => doing'[c] = doing[c])
    BY <1>1, <1>5, <1>6, <1>7
<1>9. \A d \in CRs : d # c => todo'[d] = todo[d] /\ doing'[d] = doing[d]
    BY <1>1, <1>5, <1>6
<1>10. /\ todo' \in [CRs -> Seq(Calls)] /\ doing' \in [CRs -> Specs \union {None}]
    BY <1>1, <1>4, <1>5, <1>6
<1>11. PlansFit'
    <2> SUFFICES ASSUME NEW d \in CRs, ~Idle(d)'
                 PROVE  doing'[d] \in SpecsOf[d] /\ Fit(d, todo'[d], doing'[d])
        BY DEF PlansFit
    <2>1. CASE d = c
        BY <1>2, <1>3, <1>8, <2>1 DEF Idle
    <2>2. CASE d # c
        BY <1>9, <2>2 DEF Idle, PlansFit
    <2>3. QED BY <2>1, <2>2
<1>12. QED BY <1>8, <1>9, <1>10, <1>11 DEF q

(* The steps of a reconcile on the calls that are left: it goes on by one    *)
(* call, or by those a call that was ignored passes over, or it stops.      *)
Moves(c) ==
    \/ GoOn(c, 1) /\ Head(todo[c]).op # "fail"
    \/ GoOn(c, Head(todo[c]).skip) /\ Head(todo[c]).op \notin Fixed
    \/ Stop(c)

LEMMA Moved ==
    ASSUME TypeOK, PlansFit, NEW c \in CRs, ~Idle(c), Moves(c)
    PROVE  /\ todo' \in [CRs -> Seq(Calls)] /\ doing' \in [CRs -> Specs \union {None}]
           /\ PlansFit'
           /\ todo'[c] # << >> => doing'[c] = doing[c]
           /\ \A d \in CRs : d # c => todo'[d] = todo[d] /\ doing'[d] = doing[d]
           /\ \A ops : Does(todo'[c], ops) \subseteq Does(todo[c], ops)
           /\ todo'[c] # << >> =>
                  Applies(todo[c]) \subseteq Applies(todo'[c])
                      \union (IF Head(todo[c]).op = "apply" THEN {This(c)} ELSE {})
<1> DEFINE p == todo[c]
<1>1. /\ p # << >> /\ Tidy(p) /\ Len(p) \in Nat /\ Head(p) = p[1]
      /\ This(c) = p[1].thing
    BY AtCall DEF This
<1>2. CASE \E n \in {1, p[1].skip} : GoOn(c, n)
    <2>1. PICK n \in {1, p[1].skip} : GoOn(c, n)
        BY <1>2
    <2>2. /\ n \in 0..Len(p)
          /\ Applies(p) \subseteq Applies(SubSeq(p, n + 1, Len(p)))
                 \union (IF p[1].op = "apply" THEN {p[1].thing} ELSE {})
        BY <1>1, Advance
    <2>3. \A ops : Does(SubSeq(p, n + 1, Len(p)), ops) \subseteq Does(p, ops)
        BY <1>1, <2>2, Suffix
    <2>4. QED BY <1>1, <2>1, <2>2, <2>3, Goes
<1>3. CASE Stop(c)
    <2>1. Len(p) \in 0..Len(p) /\ GoOn(c, Len(p))
        BY <1>1, <1>3 DEF Stop
    <2>2. todo'[c] = << >>
        <3>1. todo'[c] = SubSeq(p, Len(p) + 1, Len(p))
            BY <2>1, Goes
        <3>2. QED BY <1>1, <3>1, SubSeqEmpty
    <2>3. \A ops : Does(todo'[c], ops) = {}
        BY <2>2, NoCall
    <2>4. QED BY <2>1, <2>2, <2>3, Goes
<1>4. QED BY <1>1, <1>2, <1>3 DEF Moves

LEMMA PlanBegun ==
    ASSUME TypeOK, SpecsKnown, PlansFit, NEW c \in CRs, Begin(c)
    PROVE  /\ todo' \in [CRs -> Seq(Calls)] /\ doing' \in [CRs -> Specs \union {None}]
           /\ PlansFit' /\ Begun(c, todo'[c], doing'[c])
           /\ \A d \in CRs : d # c => todo'[d] = todo[d] /\ doing'[d] = doing[d]
<1>1. PICK p : /\ todo' = [todo EXCEPT ![c] = p]
               /\ p \in {CleanupPlan, FinalizerPlan, ApplyPlan(c, cr[c].spec)}
    BY DEF Begin
<1>2. doing' = [doing EXCEPT ![c] = cr[c].spec] /\ cr[c].spec \in SpecsOf[c]
      /\ SpecsOf[c] \subseteq Specs
    BY ConstantsOK DEF Begin, SpecsKnown
<1>3. Begun(c, p, cr[c].spec)
    <2>1. CASE p \in {CleanupPlan, FinalizerPlan}
        BY <2>1, CleanupFits DEF Begun
    <2>2. CASE p = ApplyPlan(c, cr[c].spec)
        BY <1>2, <2>2, ApplyBegun
    <2>3. QED BY <1>1, <2>1, <2>2
<1>4. p \in Seq(Calls)
    BY <1>3, CallsTyped DEF Begun, Fit
<1>5. /\ todo \in [CRs -> Seq(Calls)] /\ doing \in [CRs -> Specs \union {None}]
    BY DEF TypeOK
<1>6. /\ todo' \in [CRs -> Seq(Calls)] /\ doing' \in [CRs -> Specs \union {None}]
      /\ todo'[c] = p /\ doing'[c] = cr[c].spec
      /\ \A d \in CRs : d # c => todo'[d] = todo[d] /\ doing'[d] = doing[d]
    BY <1>1, <1>2, <1>4, <1>5
<1>7. PlansFit'
    <2> SUFFICES ASSUME NEW d \in CRs, ~Idle(d)'
                 PROVE  doing'[d] \in SpecsOf[d] /\ Fit(d, todo'[d], doing'[d])
        BY DEF PlansFit
    <2>1. CASE d = c
        BY <1>2, <1>3, <1>6, <2>1 DEF Begun
    <2>2. CASE d # c
        BY <1>6, <2>2 DEF Idle, PlansFit
    <2>3. QED BY <2>1, <2>2
<1>8. QED BY <1>3, <1>6, <1>7

(* The steps by what they do to the children: a reconcile writes one,        *)
(* erases one or passes on; everyone else makes children go away at most.   *)
AtOp(c, ops) == ~Idle(c) /\ Head(todo[c]).op \in ops

Writes(c) ==
    /\ AtOp(c, Puts) /\ GoOn(c, 1) /\ Put(c, This(c))
    /\ Head(todo[c]).op = "ensure" => obj[This(c)] = Absent
Erases(c) == AtOp(c, Deletes) /\ GoOn(c, 1) /\ Drop(This(c))
Passes(c) ==
    /\ ~Idle(c) /\ UNCHANGED obj
    /\ \/ Stop(c)
       \/ Head(todo[c]).op \notin Fixed /\ (GoOn(c, 1) \/ GoOn(c, Head(todo[c]).skip))
Shrinks ==
    /\ UNCHANGED <<todo, doing>>
    /\ obj' \in [Things -> [owner : CRs, spec : Specs] \union {Absent}]
    /\ \A t \in Things : obj'[t] # obj[t] =>
           /\ obj'[t] = Absent
           /\ ~cr[obj[t].owner].exists \/ ending
              \/ (ApiMayChange /\ t[1] \in Optional \ served')

LEMMA ReconcileKinds ==
    ASSUME TypeOK, NEW c \in CRs, Reconcile(c) \/ Fault(c)
    PROVE  Begin(c) \/ Writes(c) \/ Erases(c) \/ Passes(c)
<1>1. CASE ApplyCall(c)
    BY <1>1 DEF ApplyCall, Doing, Writes, AtOp, Puts
<1>2. CASE EnsureCall(c)
    BY <1>2 DEF EnsureCall, Doing, Writes, Passes, AtOp, Puts, Fixed
<1>3. CASE Delete(c)
    BY <1>3 DEF Delete, Doing, Erases, AtOp, Deletes
<1>4. CASE NotServed(c) \/ Lookup(c)
    BY <1>4 DEF NotServed, Lookup, Doing, Passes, Fixed
<1>5. CASE Probe(c)
    BY <1>5 DEF Probe, Doing, Passes, Fixed
<1>6. CASE PublishEvent(c) \/ PatchStatus(c) \/ AddFinalizer(c) \/ RemoveFinalizer(c)
    BY <1>6 DEF PublishEvent, PatchStatus, AddFinalizer, RemoveFinalizer, Doing,
       Passes, Fixed
<1>7. CASE Fail(c)
    BY <1>7 DEF Fail, Refused, Missing, Doing, Passes
<1>8. CASE Ignore(c)
    BY <1>8 DEF Ignore, Missing, Doing, Passes, Fixed
<1>9. CASE Fault(c)
    BY <1>9 DEF Fault, IgnoresFailure, Passes, Fixed
<1>10. QED BY <1>1, <1>2, <1>3, <1>4, <1>5, <1>6, <1>7, <1>8, <1>9 DEF Reconcile

LEMMA StepKinds ==
    ASSUME TypeOK, [Next]_vars
    PROVE  Shrinks \/ \E c \in CRs : Begin(c) \/ Writes(c) \/ Erases(c) \/ Passes(c)
<1>1. obj \in [Things -> [owner : CRs, spec : Specs] \union {Absent}]
    BY DEF TypeOK
<1> DEFINE Objs == [owner : CRs, spec : Specs] \union {Absent}
<1>2. Absent \in Objs
    OBVIOUS
<1> HIDE DEF Objs
<1>3. ASSUME NEW c \in CRs, Reconcile(c) \/ Fault(c)
      PROVE  Begin(c) \/ Writes(c) \/ Erases(c) \/ Passes(c)
    BY <1>3, ReconcileKinds
<1>4. ASSUME UNCHANGED <<todo, doing, obj>>  PROVE Shrinks
    BY <1>1, <1>4 DEF Shrinks
<1>5. ASSUME NEW c \in CRs, NEW s, DeleteCR(c) \/ EditSpec(c, s)  PROVE Shrinks
    BY <1>4, <1>5 DEF DeleteCR, EditSpec
<1>6. ASSUME NEW k, EndNamespace \/ InstallApi(k)  PROVE Shrinks
    BY <1>4, <1>6 DEF EndNamespace, InstallApi
<1>7. ASSUME NEW t \in Things, Collect(t)  PROVE Shrinks
    <2>1. obj' = [obj EXCEPT ![t] = Absent] /\ ~cr[obj[t].owner].exists /\ UNCHANGED <<todo, doing>>
        BY <1>7 DEF Collect, Drop
    <2>2. obj' \in [Things -> Objs] /\ \A u \in Things : u # t => obj'[u] = obj[u]
        BY <1>1, <1>2, <2>1 DEF Objs
    <2>3. obj'[t] = Absent
        BY <1>1, <2>1
    <2>4. \A u \in Things : obj'[u] # obj[u] => u = t
        BY <2>2
    <2>5. obj' \in [Things -> [owner : CRs, spec : Specs] \union {Absent}]
        BY <2>2 DEF Objs
    <2>6. \A u \in Things : obj'[u] # obj[u] =>
              /\ obj'[u] = Absent
              /\ ~cr[obj[u].owner].exists \/ ending
                 \/ (ApiMayChange /\ u[1] \in Optional \ served')
        BY <2>1, <2>3, <2>4, Zenon
    <2>7. UNCHANGED <<todo, doing>>
        BY <2>1
    <2>8. QED BY <2>5, <2>6, <2>7, Zenon DEF Shrinks
<1>8. ASSUME Terminate  PROVE Shrinks
    <2>1. obj' = [t \in Things |-> Absent] /\ ending /\ UNCHANGED <<todo, doing>>
        BY <1>8 DEF Terminate
    <2>2. obj' \in [Things -> Objs]
        BY <1>2, <2>1
    <2>3. obj' \in [Things -> [owner : CRs, spec : Specs] \union {Absent}]
        BY <2>2 DEF Objs
    <2>4. \A u \in Things : obj'[u] = Absent
        BY <2>1
    <2>5. \A u \in Things : obj'[u] # obj[u] =>
              /\ obj'[u] = Absent
              /\ ~cr[obj[u].owner].exists \/ ending
                 \/ (ApiMayChange /\ u[1] \in Optional \ served')
        BY <2>1, <2>4, Zenon
    <2>6. UNCHANGED <<todo, doing>>
        BY <2>1
    <2>7. QED BY <2>3, <2>5, <2>6, Zenon DEF Shrinks
<1>9. ASSUME NEW k \in Optional, RemoveApi(k)  PROVE Shrinks
    <2>1. /\ obj' = [t \in Things |-> IF t[1] = k THEN Absent ELSE obj[t]]
          /\ ApiMayChange /\ k \notin served' /\ UNCHANGED <<todo, doing>>
        BY <1>9 DEF RemoveApi
    <2>2. obj' \in [Things -> Objs]
        BY <1>1, <1>2, <2>1 DEF Objs
    <2>3. QED BY <2>1, <2>2 DEF Shrinks, Objs
<1>10. CASE UNCHANGED vars
    BY <1>4, <1>10 DEF vars
<1>11. CASE Next
    BY <1>3, <1>5, <1>6, <1>7, <1>8, <1>9, <1>11 DEF Next
<1>12. QED BY <1>10, <1>11

(* The CRs, and what is bounded.  No step brings a CR back.                 *)
LEMMA RecordsTyped ==
    ASSUME TypeOK, SpecsKnown, PlansFit, [Next]_vars
    PROVE  /\ cr' \in [CRs -> [exists : BOOLEAN, finalizer : BOOLEAN, deleting : BOOLEAN,
                               spec : Specs, ready : Specs \union {None}]]
           /\ SpecsKnown'
           /\ \A c \in CRs : cr'[c].exists => cr[c].exists
<1> DEFINE Records == [exists : BOOLEAN, finalizer : BOOLEAN, deleting : BOOLEAN,
                       spec : Specs, ready : Specs \union {None}]
           Fine == /\ cr' \in [CRs -> Records] /\ SpecsKnown'
                   /\ \A c \in CRs : cr'[c].exists => cr[c].exists
<1>1. cr \in [CRs -> Records] /\ \A c \in CRs : cr[c].spec \in SpecsOf[c]
    BY DEF TypeOK, SpecsKnown
<1>2. \A c \in CRs : SpecsOf[c] \subseteq Specs
    BY ConstantsOK
<1>3. ASSUME UNCHANGED cr  PROVE Fine
    BY <1>1, <1>3 DEF SpecsKnown
<1>4. ASSUME NEW c \in CRs, NEW r \in Records, r.spec \in SpecsOf[c], r.exists => cr[c].exists,
             cr' = [cr EXCEPT ![c] = r]
      PROVE  Fine
    <2>1. cr' \in [CRs -> Records] /\ cr'[c] = r /\ \A d \in CRs : d # c => cr'[d] = cr[d]
        BY <1>1, <1>4
    <2>2. QED BY <1>1, <1>4, <2>1 DEF SpecsKnown
<1>5. ASSUME NEW c \in CRs, PatchStatus(c)  PROVE Fine
    <2>1. doing[c] \in Specs
        BY <1>2, <1>5 DEF PatchStatus, Doing, PlansFit
    <2> DEFINE r == [cr[c] EXCEPT !.ready = doing[c]]
    <2>2. cr' = [cr EXCEPT ![c] = r]
        BY <1>5 DEF PatchStatus
    <2>3. r \in Records /\ r.spec = cr[c].spec /\ r.exists = cr[c].exists
        BY <1>1, <2>1
    <2> HIDE DEF r
    <2>4. QED BY <1>1, <1>4, <2>2, <2>3
<1>6. ASSUME NEW c \in CRs, AddFinalizer(c)  PROVE Fine
    <2> DEFINE r == [cr[c] EXCEPT !.finalizer = @ \/ ~cr[c].deleting]
    <2>1. cr' = [cr EXCEPT ![c] = r]
        BY <1>6 DEF AddFinalizer
    <2>2. r \in Records /\ r.spec = cr[c].spec /\ r.exists = cr[c].exists
        BY <1>1
    <2> HIDE DEF r
    <2>3. QED BY <1>1, <1>4, <2>1, <2>2
<1>7. ASSUME NEW c \in CRs, RemoveFinalizer(c)  PROVE Fine
    <2> DEFINE r == [[cr[c] EXCEPT !.finalizer = FALSE] EXCEPT !.exists = FALSE]
    <2>1. cr' = [cr EXCEPT ![c] = r]
        BY <1>1, <1>7 DEF RemoveFinalizer
    <2>2. r \in Records /\ r.spec = cr[c].spec /\ r.exists = FALSE
        BY <1>1
    <2> HIDE DEF r
    <2>3. QED BY <1>1, <1>4, <2>1, <2>2
<1>8. ASSUME NEW c \in CRs, NEW s \in SpecsOf[c], EditSpec(c, s)  PROVE Fine
    <2> DEFINE r == [cr[c] EXCEPT !.spec = s]
    <2>1. cr' = [cr EXCEPT ![c] = r]
        BY <1>8 DEF EditSpec
    <2>2. r \in Records /\ r.spec = s /\ r.exists = cr[c].exists
        BY <1>1, <1>2
    <2> HIDE DEF r
    <2>3. QED BY <1>1, <1>4, <2>1, <2>2
<1>9. ASSUME NEW c \in CRs
      PROVE  Deleted(cr[c]) \in Records /\ Deleted(cr[c]).spec = cr[c].spec
    BY <1>1 DEF Deleted
<1>10. ASSUME NEW c \in CRs, DeleteCR(c)  PROVE Fine
    <2>1. cr' = [cr EXCEPT ![c] = Deleted(cr[c])] /\ cr[c].exists
        BY <1>10 DEF DeleteCR
    <2>2. QED BY <1>1, <1>4, <1>9, <2>1
<1>11. ASSUME EndNamespace  PROVE Fine
    <2>1. cr' = [c \in CRs |-> IF cr[c].exists THEN Deleted(cr[c]) ELSE cr[c]]
        BY <1>11 DEF EndNamespace
    <2>2. QED BY <1>1, <1>9, <2>1 DEF SpecsKnown
<1> HIDE DEF Fine, Records
<1>12. ASSUME NEW c \in CRs, Reconcile(c) \/ Fault(c)  PROVE Fine
    BY <1>3, <1>5, <1>6, <1>7, <1>12 DEF Reconcile, Begin, ApplyCall, NotServed, EnsureCall, Lookup, Probe,
       Delete, PublishEvent, Fail, Ignore, Fault
<1>13. ASSUME Next  PROVE Fine
    BY <1>3, <1>8, <1>10, <1>11, <1>12, <1>13
       DEF Next, Collect, InstallApi, RemoveApi, Terminate
<1>14. ASSUME UNCHANGED vars  PROVE Fine
    BY <1>3, <1>14 DEF vars
<1>15. QED BY <1>13, <1>14 DEF Fine, Records

LEMMA BoundsTyped ==
    ASSUME TypeOK, [Next]_vars
    PROVE  /\ served' \subseteq Extensions /\ ending' \in BOOLEAN
           /\ edits' \in 0..MaxEdits /\ faults' \in 0..MaxFaults
           /\ ending => ending'
<1> DEFINE Fine == /\ served' \subseteq Extensions /\ ending' \in BOOLEAN
                   /\ edits' \in 0..MaxEdits /\ faults' \in 0..MaxFaults
                   /\ ending => ending'
<1>1. /\ served \subseteq Extensions /\ ending \in BOOLEAN /\ Optional \subseteq Extensions
      /\ edits \in 0..MaxEdits /\ faults \in 0..MaxFaults /\ MaxEdits \in Nat /\ MaxFaults \in Nat
    BY ConstantsOK DEF TypeOK
<1>2. ASSUME UNCHANGED <<world, bounds>>  PROVE Fine
    BY <1>1, <1>2 DEF world, bounds
<1>3. ASSUME NEW c \in CRs, Fault(c)  PROVE Fine
    BY <1>1, <1>3 DEF Fault, world
<1>4. ASSUME NEW c \in CRs, NEW s, EditSpec(c, s)  PROVE Fine
    BY <1>1, <1>4 DEF EditSpec, world
<1>5. ASSUME EndNamespace  PROVE Fine
    BY <1>1, <1>5 DEF EndNamespace, bounds
<1>6. ASSUME NEW k \in Optional, InstallApi(k) \/ RemoveApi(k)  PROVE Fine
    BY <1>1, <1>6 DEF InstallApi, RemoveApi
<1> HIDE DEF Fine
<1>7. ASSUME NEW c \in CRs, Reconcile(c)  PROVE Fine
    BY <1>2, <1>7 DEF Reconcile, Begin, ApplyCall, NotServed, EnsureCall, Lookup, Probe, Delete,
       PublishEvent, PatchStatus, AddFinalizer, RemoveFinalizer, Fail, Ignore
<1>8. ASSUME Next  PROVE Fine
    BY <1>2, <1>3, <1>4, <1>5, <1>6, <1>7, <1>8 DEF Next, DeleteCR, Collect, Terminate
<1>9. ASSUME UNCHANGED vars  PROVE Fine
    BY <1>2, <1>9 DEF vars, world, bounds
<1>10. QED BY <1>8, <1>9 DEF Fine

Objects == [owner : CRs, spec : Specs] \union {Absent}

LEMMA AbsentHasNoOwner ==
    /\ Absent.owner = None /\ \A c \in CRs : c # None
    /\ \A o \in Objects : o # Absent => o.owner \in CRs /\ o.spec \in Specs
BY ConstantsOK DEF Absent, Objects

LEMMA ObjectsTyped ==
    ASSUME TypeOK, PlansFit, Owned,
           Shrinks \/ \E c \in CRs : Begin(c) \/ Writes(c) \/ Erases(c) \/ Passes(c)
    PROVE  obj' \in [Things -> Objects] /\ Owned'
<1>1. obj \in [Things -> Objects] /\ Absent \in Objects
    BY DEF TypeOK, Objects
<1>2. ASSUME obj' \in [Things -> Objects],
             \A t \in Things : obj'[t] # obj[t] => obj'[t] = Absent
      PROVE  obj' \in [Things -> Objects] /\ Owned'
    BY <1>2 DEF Owned
<1>3. CASE Shrinks
    BY <1>2, <1>3 DEF Shrinks, Objects
<1>4. ASSUME NEW c \in CRs, Begin(c) \/ Passes(c)
      PROVE  obj' \in [Things -> Objects] /\ Owned'
    <2>1. obj' = obj
        BY <1>4 DEF Begin, Passes
    <2>2. QED BY <1>1, <1>2, <2>1
<1>5. ASSUME NEW c \in CRs, Erases(c)
      PROVE  obj' \in [Things -> Objects] /\ Owned'
    <2>1. obj' = [obj EXCEPT ![This(c)] = Absent]
        BY <1>5 DEF Erases, Drop
    <2>2. obj' \in [Things -> Objects] /\ \A t \in Things : obj'[t] # obj[t] => obj'[t] = Absent
        BY <1>1, <2>1
    <2>3. QED BY <1>2, <2>2
<1>6. ASSUME NEW c \in CRs, Writes(c)
      PROVE  obj' \in [Things -> Objects] /\ Owned'
    <2> DEFINE o == [owner |-> c, spec |-> doing[c]]
    <2>1. obj' = [obj EXCEPT ![This(c)] = o] /\ AtOp(c, Puts)
        BY <1>6 DEF Writes, Put
    <2>2. ~Idle(c) /\ doing[c] \in SpecsOf[c] /\ Fit(c, todo[c], doing[c])
        BY <2>1 DEF AtOp, PlansFit
    <2>3. doing[c] \in Specs
        BY <2>2, ConstantsOK
    <2>4. \A ops : Head(todo[c]).op \in ops => This(c) \in Does(todo[c], ops)
        BY <2>2, AtCall
    <2>5. This(c) \in Reach(c) \/ InSecrets(This(c))
        <3>1. CASE Head(todo[c]).op = "ensure"
            BY <2>2, <2>4, <3>1 DEF Fit
        <3>2. CASE Head(todo[c]).op \in {"apply", "applyIfServed"}
            <4>1. Head(todo[c]).op \in Naming
                BY <3>2 DEF Naming
            <4>2. QED BY <2>2, <2>4, <4>1 DEF Fit
        <3>3. QED BY <2>1, <3>1, <3>2 DEF AtOp, Puts
    <2>6. Valid(c, doing[c])
        BY <2>1, <2>2, <2>4 DEF AtOp, Fit
    <2>7. o \in Objects /\ o.owner = c /\ o.spec = doing[c]
        BY <2>3 DEF Objects
    <2> HIDE DEF o
    <2>8. /\ obj' \in [Things -> Objects]
          /\ \A t \in Things : IF t = This(c) THEN obj'[t] = o ELSE obj'[t] = obj[t]
        BY <1>1, <2>1, <2>7
    <2>9. Owned'
        <3> SUFFICES ASSUME NEW t \in Things, obj'[t] # Absent
                     PROVE  /\ t \in Reach(obj'[t].owner) \/ InSecrets(t)
                            /\ obj'[t].spec \in SpecsOf[obj'[t].owner]
                            /\ Valid(obj'[t].owner, obj'[t].spec)
            BY DEF Owned
        <3>1. CASE t = This(c)
            BY <2>2, <2>5, <2>6, <2>7, <2>8, <3>1
        <3>2. CASE t # This(c)
            BY <2>8, <3>2 DEF Owned
        <3>3. QED BY <3>1, <3>2
    <2>10. QED BY <2>8, <2>9
<1>7. QED BY <1>3, <1>4, <1>5, <1>6

LEMMA PlansStay ==
    ASSUME TypeOK, SpecsKnown, PlansFit,
           Shrinks \/ \E c \in CRs : Begin(c) \/ Writes(c) \/ Erases(c) \/ Passes(c)
    PROVE  /\ todo' \in [CRs -> Seq(Calls)] /\ doing' \in [CRs -> Specs \union {None}]
           /\ PlansFit'
<1>1. CASE Shrinks
    BY <1>1 DEF Shrinks, TypeOK, PlansFit, Idle
<1>2. ASSUME NEW c \in CRs, Begin(c)
      PROVE  /\ todo' \in [CRs -> Seq(Calls)] /\ doing' \in [CRs -> Specs \union {None}]
             /\ PlansFit'
    BY <1>2, PlanBegun
<1>3. ASSUME NEW c \in CRs, Writes(c) \/ Erases(c) \/ Passes(c)
      PROVE  /\ todo' \in [CRs -> Seq(Calls)] /\ doing' \in [CRs -> Specs \union {None}]
             /\ PlansFit'
    <2>1. ~Idle(c) /\ Moves(c)
        BY <1>3 DEF Writes, Erases, Passes, AtOp, Moves, Puts, Deletes, Fixed
    <2>2. QED BY <2>1, Moved
<1>4. QED BY <1>1, <1>2, <1>3

LEMMA ChildInit == Init => ChildInv
<1> SUFFICES ASSUME Init  PROVE ChildInv
    OBVIOUS
<1>1. PICK there \in Present, s \in [CRs -> UNION {SpecsOf[c] : c \in CRs}] :
          /\ \A c \in CRs : s[c] \in SpecsOf[c]
          /\ cr = [c \in CRs |-> [exists |-> c \in there, finalizer |-> FALSE,
                                  deleting |-> FALSE, spec |-> s[c], ready |-> None]]
    BY DEF Init
<1>2. \A c \in CRs : s[c] \in Specs
    BY <1>1, ConstantsOK
<1>3. cr \in [CRs -> [exists : BOOLEAN, finalizer : BOOLEAN, deleting : BOOLEAN,
                      spec : Specs, ready : Specs \union {None}]] /\ SpecsKnown
    BY <1>1, <1>2 DEF SpecsKnown
<1>4. /\ todo = [c \in CRs |-> << >>] /\ doing = [c \in CRs |-> None]
      /\ obj = [t \in Things |-> Absent] /\ served \in {Extensions, Extensions \ Optional}
      /\ ending = FALSE /\ edits = 0 /\ faults = 0
    BY DEF Init
<1>5. << >> \in Seq(Calls)
    BY EmptySeq
<1>6. TypeOK
    <2>1. todo \in [CRs -> Seq(Calls)] /\ doing \in [CRs -> Specs \union {None}]
        BY <1>4, <1>5
    <2>2. obj \in [Things -> [owner : CRs, spec : Specs] \union {Absent}]
        BY <1>4
    <2>3. edits \in 0..MaxEdits /\ faults \in 0..MaxFaults
        BY <1>4, ConstantsOK
    <2>4. QED BY <1>3, <1>4, <2>1, <2>2, <2>3 DEF TypeOK
<1>7. PlansFit
    BY <1>4 DEF PlansFit, Idle
<1>8. Owned
    BY <1>4 DEF Owned
<1>9. QED BY <1>3, <1>6, <1>7, <1>8 DEF ChildInv

LEMMA ChildStep == ChildInv /\ [Next]_vars => ChildInv'
<1> SUFFICES ASSUME ChildInv, [Next]_vars  PROVE ChildInv'
    OBVIOUS
<1>1. TypeOK /\ SpecsKnown /\ PlansFit /\ Owned
    BY DEF ChildInv
<1>2. Shrinks \/ \E c \in CRs : Begin(c) \/ Writes(c) \/ Erases(c) \/ Passes(c)
    BY <1>1, StepKinds
<1>3. /\ todo' \in [CRs -> Seq(Calls)] /\ doing' \in [CRs -> Specs \union {None}]
      /\ PlansFit'
    BY <1>1, <1>2, PlansStay
<1>4. obj' \in [Things -> [owner : CRs, spec : Specs] \union {Absent}] /\ Owned'
    BY <1>1, <1>2, ObjectsTyped DEF Objects
<1>5. cr' \in [CRs -> [exists : BOOLEAN, finalizer : BOOLEAN, deleting : BOOLEAN,
                       spec : Specs, ready : Specs \union {None}]] /\ SpecsKnown'
    BY <1>1, RecordsTyped
<1>6. TypeOK'
    BY <1>1, <1>3, <1>4, <1>5, BoundsTyped DEF TypeOK
<1>7. QED BY <1>3, <1>4, <1>5, <1>6 DEF ChildInv

(* The inductive invariant holds: the state keeps its shape, specs are ones  *)
(* that users give, what is left of a reconcile is the tail of a plan for a  *)
(* spec that validation accepts, and so is what every child was applied for. *)
THEOREM ChildInductive == Spec => []ChildInv
<1>1. QED BY ChildInit, ChildStep, PTL DEF Spec

(* State has the shape the code and the API server give it, whatever the    *)
(* CRs, their names and their specs.                                        *)
THEOREM TypeCorrect == Spec => []TypeOK
<1>1. ChildInv => TypeOK
    BY DEF ChildInv
<1>2. QED BY <1>1, ChildInductive, PTL

(* No CR is ever given a child for a spec that its validation refuses.      *)
AdmittedOnly ==
    \A c \in CRs, t \in Things : obj[t].owner = c => Valid(c, obj[t].spec)

(* Every child there is was applied for a spec its CR's validation accepts  *)
(* (single_apply.rs, cluster_apply.rs: validation comes before the first    *)
(* call), although reconciles work on specs that have since been edited.    *)
THEOREM Admitted == Spec => []AdmittedOnly
<1>1. ASSUME ChildInv  PROVE AdmittedOnly
    BY <1>1, AbsentHasNoOwner DEF ChildInv, Owned, AdmittedOnly
<1>2. QED BY <1>1, ChildInductive, PTL

-----------------------------------------------------------------------------
(* Where the plan of a rejected spec stops.                                 *)

(* A plan that meets the refusal of spec s, and what it puts before that.   *)
StopsShort(c, plan, s) ==
    \E i \in 1..Len(plan) :
        /\ plan[i].op = "fail"
        /\ \A j \in 1..i : plan[j].op \in Puts => BeforeRefusal(c, s, plan[j].thing)
Idles(plan) == Does(plan, Puts) = {} /\ Does(plan, {"status"}) = {}
Halts(c, plan, s) == Rejected(s) => Idles(plan) \/ StopsShort(c, plan, s)

LEMMA ShortThenMore ==
    ASSUME NEW c, NEW s, NEW p \in Seq(AnyCall), NEW q \in Seq(AnyCall), StopsShort(c, p, s)
    PROVE  StopsShort(c, p \o q, s)
<1>1. /\ Len(p \o q) = Len(p) + Len(q) /\ Len(p) \in Nat /\ Len(q) \in Nat
      /\ \A i \in 1..Len(p) : i \in 1..Len(p \o q) /\ (p \o q)[i] = p[i]
    BY ConcatProperties
<1>2. PICK i \in 1..Len(p) :
          /\ p[i].op = "fail"
          /\ \A j \in 1..i : p[j].op \in Puts => BeforeRefusal(c, s, p[j].thing)
    BY DEF StopsShort
<1>3. i \in 1..Len(p \o q) /\ (p \o q)[i].op = "fail"
    BY <1>1, <1>2
<1>4. ASSUME NEW j \in 1..i, (p \o q)[j].op \in Puts
      PROVE  BeforeRefusal(c, s, (p \o q)[j].thing)
    <2>1. j \in 1..Len(p)
        BY <1>1
    <2>2. (p \o q)[j] = p[j]
        BY <1>1, <2>1
    <2>3. QED BY <1>2, <1>4, <2>2
<1>5. QED BY <1>3, <1>4 DEF StopsShort

LEMMA MoreThenShort ==
    ASSUME NEW c, NEW s, NEW p \in Seq(AnyCall), NEW q \in Seq(AnyCall), StopsShort(c, q, s),
           \A t \in Does(p, Puts) : BeforeRefusal(c, s, t)
    PROVE  StopsShort(c, p \o q, s)
<1>1. /\ Len(p \o q) = Len(p) + Len(q) /\ Len(p) \in Nat /\ Len(q) \in Nat
      /\ \A i \in 1..Len(p) + Len(q) :
             (p \o q)[i] = IF i <= Len(p) THEN p[i] ELSE q[i - Len(p)]
    BY ConcatProperties
<1>2. PICK i \in 1..Len(q) :
          /\ q[i].op = "fail"
          /\ \A j \in 1..i : q[j].op \in Puts => BeforeRefusal(c, s, q[j].thing)
    BY DEF StopsShort
<1>3. /\ i + Len(p) \in 1..Len(p \o q) /\ ~(i + Len(p) <= Len(p))
      /\ i + Len(p) - Len(p) = i
    BY <1>1
<1>4. (p \o q)[i + Len(p)].op = "fail"
    BY <1>1, <1>2, <1>3
<1>5. ASSUME NEW j \in 1..i + Len(p), (p \o q)[j].op \in Puts
      PROVE  BeforeRefusal(c, s, (p \o q)[j].thing)
    <2>1. CASE j <= Len(p)
        <3>1. j \in 1..Len(p) /\ j \in 1..Len(p) + Len(q)
            BY <1>1, <2>1
        <3>2. (p \o q)[j] = p[j] /\ j \in DOMAIN p
            BY <1>1, <2>1, <3>1
        <3>3. p[j].thing \in Does(p, Puts)
            BY <1>5, <3>2 DEF Does, CallsOf
        <3>4. QED BY <3>2, <3>3
    <2>2. CASE j > Len(p)
        <3>1. j - Len(p) \in 1..i /\ j \in 1..Len(p) + Len(q) /\ ~(j <= Len(p))
            BY <1>1, <2>2
        <3>2. (p \o q)[j] = q[j - Len(p)]
            BY <1>1, <3>1
        <3>3. QED BY <1>2, <1>5, <3>1, <3>2
    <2>3. QED BY <1>1, <2>1, <2>2
<1>6. QED BY <1>3, <1>4, <1>5 DEF StopsShort

(* What a block puts.                                                       *)
LEMMA BlockPuts ==
    ASSUME NEW c, NEW s, NEW p, NEW a, NEW d, NEW i, Block(p, a, d, i),
           \A t \in a \union i : BeforeRefusal(c, s, t)
    PROVE  p \in Seq(AnyCall) /\ \A t \in Does(p, Puts) : BeforeRefusal(c, s, t)
<1>1. Does(p, Puts) = (Applies(p) \union Does(p, {"applyIfServed"})) \union Does(p, {"ensure"})
    BY DEF Does, Applies, Puts
<1>2. \A t \in {"Secret"} \X Names : BeforeRefusal(c, s, t)
    BY DEF BeforeRefusal
<1>3. QED BY <1>1, <1>2 DEF Block, Tidy

(* The refusal itself puts nothing.                                         *)
LEMMA RefusalStops ==
    \A c, s : StopsShort(c, Plain("fail"), s) /\ Plain("fail") \in Seq(AnyCall)
<1> DEFINE k == [op |-> "fail", thing |-> None, skip |-> 0]
<1>1. k \in AnyCall /\ k.op = "fail" /\ Plain("fail") = <<k>> /\ "fail" \notin Puts
    BY DEF AnyCall, Ops, Plain, Puts
<1> HIDE DEF k
<1>2. Len(<<k>>) = 1 /\ <<k>>[1] = k /\ <<k>> \in Seq(AnyCall)
    BY <1>1
<1> SUFFICES ASSUME NEW c, NEW s  PROVE StopsShort(c, <<k>>, s) /\ <<k>> \in Seq(AnyCall)
    BY <1>1
<1>3. 1 \in 1..Len(<<k>>) /\ \A j \in 1..1 : j = 1
    BY <1>2
<1>4. QED BY <1>1, <1>2, <1>3 DEF StopsShort

LEMMA ClusterStops ==
    ASSUME NEW c \in CRs, KindOf[c] = "Cluster", NEW s \in Specs, Rejected(s), s.legal
    PROVE  StopsShort(c, ClusterWork(NameOf[c], s), s) /\ ClusterWork(NameOf[c], s) \in Seq(AnyCall)
<1> DEFINE n == NameOf[c]
           m == Append(n, "main")
           h == Append(n, "webhook")
           k == Append(n, "worker")
           first == BeforeMain(n, s)
           head == MainHead(m, s)
           main == MainPlan(m, s)
           work == WorkerPlan(k, s)
           before == BeforeWebhooks(n, s)
           hook == WebhookPlan(h, s)
           stop == Plain("fail")
<1>1. n \in Names /\ m \in Names /\ h \in Names /\ k \in Names
    BY ConstantsOK, NamesGrow DEF Suffixes
<1>2. /\ Block(first, Only(s.volumes, SharedVolumes(n)), {}, {})
      /\ Block(head, (Only(s.volumes, {<<"PVC", Append(m, "data")>>})
                        \union {<<"Deployment", m>>}) \union {<<"Service", m>>},
               Only(~s.multiMain, {<<"DestinationRule", m>>}), MainIfServed(m, s))
      /\ Block(before, FirstApplies(n, s), FirstDrops(n, s), MainIfServed(m, s))
    BY <1>1, BeforeMainBlock, MainHeadBlock, BeforeWebhooksBlock
<1>3. main \in Seq(AnyCall) /\ work \in Seq(AnyCall) /\ hook \in Seq(AnyCall)
    BY <1>1, MainBlock, WorkerBlock, WebhookBlock DEF Block, Tidy
<1>4. ClusterWork(NameOf[c], s) = before \o hook /\ before = (first \o main) \o work
    BY DEF ClusterWork, BeforeWebhooks
<1>5. Wanted(c, s) = ClusterWants(n, m, h, s)
    BY WantedOfCluster
<1>6. FirstApplies(n, s) = ((Only(s.volumes, SharedVolumes(n))
                             \union (Only(s.volumes, {<<"PVC", Append(m, "data")>>})
                                     \union Role(m, s.net)))
                            \union ({<<"Deployment", k>>} \union Only(s.autoscale, {<<"HPA", k>>})))
    BY DEF FirstApplies
<1>7. \A t : BeforeRefusal(c, s, t) <=>
                 \/ t[1] = "Secret"
                 \/ t \in ClusterWants(n, m, h, s) /\ (s.net = "both" => t[1] = "PVC" \/ t[2] = m)
    BY <1>5 DEF BeforeRefusal
<1>8. s.net = "both" => main = head \o stop
    BY DEF MainPlan, MainHead, Networking
<1>9. s.webhooks = "both" =>
          hook = (Apply("Deployment", h) \o Apply("Service", h)) \o stop
    BY DEF WebhookPlan, Networking
<1>10. Block(Apply("Deployment", h), {<<"Deployment", h>>}, {}, {})
       /\ Block(Apply("Service", h), {<<"Service", h>>}, {}, {})
    BY <1>1, ApplyBlock DEF Kinds
<1>11. ClusterWants(n, m, h, s) =
           UNION { {<<"Secret", KeySecret(n)>>}, Role(m, s.net), {<<"Deployment", k>>},
                   MainIfServed(m, s), Only(s.autoscale, {<<"HPA", k>>}),
                   Only(s.webhooks # "off", Role(h, s.webhooks)),
                   Only(s.volumes, SharedVolumes(n)), Only(s.volumes, {<<"PVC", Append(m, "data")>>}) }
    BY DEF ClusterWants, MainIfServed
<1>12. StopsShort(c, stop, s) /\ stop \in Seq(AnyCall)
    BY RefusalStops
<1> HIDE DEF n, m, h, k, first, head, main, work, before, hook, stop
<1>13. ASSUME NEW p \in Seq(AnyCall), NEW q \in Seq(AnyCall)  PROVE p \o q \in Seq(AnyCall)
    BY ConcatCalls
<1>14. CASE s.net = "both"
    <2>1. \A t \in Only(s.volumes, SharedVolumes(n)) \union {} : BeforeRefusal(c, s, t)
        BY <1>7, <1>11 DEF Only, SharedVolumes
    <2>2. \A t \in ((Only(s.volumes, {<<"PVC", Append(m, "data")>>})
                        \union {<<"Deployment", m>>}) \union {<<"Service", m>>})
                   \union MainIfServed(m, s) : BeforeRefusal(c, s, t)
        BY <1>7, <1>11 DEF Only, Role, MainIfServed
    <2>3. /\ first \in Seq(AnyCall) /\ \A t \in Does(first, Puts) : BeforeRefusal(c, s, t)
          /\ head \in Seq(AnyCall) /\ \A t \in Does(head, Puts) : BeforeRefusal(c, s, t)
        BY <1>2, <2>1, <2>2, BlockPuts
    <2>4. StopsShort(c, main, s)
        BY <1>8, <1>12, <1>14, <2>3, MoreThenShort
    <2>5. StopsShort(c, first \o main, s) /\ first \o main \in Seq(AnyCall)
        BY <1>3, <1>13, <2>3, <2>4, MoreThenShort
    <2>6. StopsShort(c, before, s) /\ before \in Seq(AnyCall)
        BY <1>3, <1>4, <1>13, <2>5, ShortThenMore
    <2>7. StopsShort(c, before \o hook, s) /\ before \o hook \in Seq(AnyCall)
        BY <1>3, <1>13, <2>6, ShortThenMore
    <2>8. QED BY <1>4, <2>7
<1>15. CASE s.net # "both"
    <2>1. s.webhooks = "both"
        BY <1>15 DEF Rejected
    <2>2. \A t \in FirstApplies(n, s) \union MainIfServed(m, s) : BeforeRefusal(c, s, t)
        BY <1>6, <1>7, <1>11, <1>15
    <2>3. before \in Seq(AnyCall) /\ \A t \in Does(before, Puts) : BeforeRefusal(c, s, t)
        BY <1>2, <2>2, BlockPuts
    <2> DEFINE deployment == Apply("Deployment", h)
               service == Apply("Service", h)
    <2>4. \A t \in ({<<"Deployment", h>>} \union {<<"Service", h>>}) \union ({} \union {}) :
              BeforeRefusal(c, s, t)
        BY <1>7, <1>11, <1>15, <2>1 DEF Only, Role
    <2>5. Block(deployment \o service, {<<"Deployment", h>>} \union {<<"Service", h>>},
                {} \union {}, {} \union {})
        BY <1>10, ConcatBlocks
    <2>6. hook = (deployment \o service) \o stop
        BY <1>9, <2>1
    <2> HIDE DEF deployment, service
    <2>7. /\ deployment \o service \in Seq(AnyCall)
          /\ \A t \in Does(deployment \o service, Puts) : BeforeRefusal(c, s, t)
        BY <2>4, <2>5, BlockPuts
    <2>8. StopsShort(c, hook, s)
        BY <1>12, <2>6, <2>7, MoreThenShort
    <2>9. StopsShort(c, before \o hook, s) /\ before \o hook \in Seq(AnyCall)
        BY <1>3, <1>13, <2>3, <2>8, MoreThenShort
    <2>10. QED BY <1>4, <2>9
<1>16. QED BY <1>14, <1>15

-----------------------------------------------------------------------------
(* What a CR reaches for, and what it wants.                                *)

LEMMA ReachTyped ==
    ASSUME NEW c \in CRs, NEW t \in Reach(c)
    PROVE  t \in AnyThing /\ t # None /\ t[1] # "Secret" /\ ~InSecrets(t)
<1> DEFINE n == NameOf[c]
           m == Append(n, "main")
           h == Append(n, "webhook")
           k == Append(n, "worker")
<1>1. n \in Names /\ None \notin Kinds \X Names /\ KindOf[c] \in {"Single", "Cluster"}
    BY ConstantsOK
<1>2. /\ m \in Names /\ h \in Names /\ k \in Names /\ Append(n, "data") \in Names
      /\ Append(n, "nodes") \in Names /\ BinaryData(n) \in Names /\ Append(m, "data") \in Names
    BY <1>1, NamesGrow DEF Suffixes, BinaryData
<1> DEFINE kinds == {"PVC", "Deployment", "Service", "Ingress", "HPA", "HTTPRoute",
                     "DestinationRule"}
           there == kinds \X Names
<1>3. \A u \in there : u \in AnyThing /\ u # None /\ u[1] # "Secret" /\ ~InSecrets(u)
    <2>1. kinds \subseteq Kinds /\ "Secret" \notin kinds
        BY DEF Kinds, Extensions
    <2> HIDE DEF kinds
    <2>2. QED BY <1>1, <2>1 DEF AnyThing, InSecrets
<1>4. \A x \in Names :
          /\ <<"PVC", x>> \in there /\ <<"Deployment", x>> \in there /\ <<"Service", x>> \in there
          /\ <<"Ingress", x>> \in there /\ <<"HPA", x>> \in there
          /\ <<"HTTPRoute", x>> \in there /\ <<"DestinationRule", x>> \in there
    OBVIOUS
<1> HIDE DEF there
<1>5. \A x \in Names : RoleThings(x) \subseteq there
    BY <1>4, RedirectIsName DEF RoleThings, Exposure, Routes
<1>6. SharedVolumes(n) \subseteq there
    BY <1>2, <1>4 DEF SharedVolumes
<1>7. /\ KindOf[c] = "Single" => Reach(c) = RoleThings(n) \union {<<"PVC", Append(n, "data")>>}
      /\ KindOf[c] = "Cluster" =>
             Reach(c) = UNION { RoleThings(m), RoleThings(h),
                                {<<"Deployment", k>>, <<"HPA", k>>}, {<<"DestinationRule", m>>},
                                SharedVolumes(n), {<<"PVC", Append(m, "data")>>} }
    BY DEF Reach
<1> HIDE DEF n, m, h, k
<1>8. t \in there
    <2>1. CASE KindOf[c] = "Single"
        BY <1>1, <1>2, <1>4, <1>5, <1>7, <2>1
    <2>2. CASE KindOf[c] = "Cluster"
        <3>1. RoleThings(m) \subseteq there /\ RoleThings(h) \subseteq there
            BY <1>2, <1>5
        <3>2. /\ <<"Deployment", k>> \in there /\ <<"HPA", k>> \in there
              /\ <<"DestinationRule", m>> \in there /\ <<"PVC", Append(m, "data")>> \in there
            BY <1>2, <1>4
        <3>3. QED BY <1>6, <1>7, <2>2, <3>1, <3>2
    <2>3. QED BY <1>1, <2>1, <2>2
<1>9. QED BY <1>3, <1>8

LEMMA WantedInReach ==
    ASSUME NEW c \in CRs, NEW s, NEW t \in Wanted(c, s)
    PROVE  t \in Reach(c) \/ InSecrets(t)
<1> DEFINE n == NameOf[c]
           m == Append(n, "main")
           h == Append(n, "webhook")
           k == Append(n, "worker")
<1>1. KindOf[c] \in {"Single", "Cluster"} /\ n \in Names
    BY ConstantsOK
<1>2. KeySecret(n) \in Names
    BY <1>1, NamesGrow DEF KeySecret, Suffixes
<1>3. InSecrets(<<"Secret", KeySecret(n)>>)
    BY <1>2 DEF InSecrets
<1>4. \A name, net : Role(name, net) \subseteq RoleThings(name)
    BY ExposedIsExposure DEF Role, RoleThings
<1>5. CASE KindOf[c] = "Single"
    <2>1. /\ Wanted(c, s) = {<<"Secret", KeySecret(n)>>}
                            \union (Role(n, s.net) \union Only(s.volumes, {<<"PVC", Append(n, "data")>>}))
          /\ Reach(c) = RoleThings(n) \union {<<"PVC", Append(n, "data")>>}
        BY <1>5, WantedOfSingle DEF Reach
    <2> HIDE DEF n
    <2>2. QED BY <1>3, <1>4, <2>1 DEF Only
<1>6. CASE KindOf[c] = "Cluster"
    <2>1. /\ Wanted(c, s) = ClusterWants(n, m, h, s)
          /\ Reach(c) = UNION { RoleThings(m), RoleThings(h),
                                {<<"Deployment", k>>, <<"HPA", k>>}, {<<"DestinationRule", m>>},
                                SharedVolumes(n), {<<"PVC", Append(m, "data")>>} }
        BY <1>6, WantedOfCluster DEF Reach
    <2>2. ClusterWants(n, m, h, s) =
              UNION { {<<"Secret", KeySecret(n)>>}, Role(m, s.net), {<<"Deployment", k>>},
                      Only(s.multiMain, {<<"DestinationRule", m>>}),
                      Only(s.autoscale, {<<"HPA", k>>}),
                      Only(s.webhooks # "off", Role(h, s.webhooks)),
                      Only(s.volumes, SharedVolumes(n)),
                      Only(s.volumes, {<<"PVC", Append(m, "data")>>}) }
        BY DEF ClusterWants
    <2> HIDE DEF n, m, h, k
    <2>3. QED BY <1>3, <1>4, <2>1, <2>2 DEF Only
<1>7. QED BY <1>1, <1>5, <1>6

LEMMA MainIsReached ==
    ASSUME NEW c \in Clusters
    PROVE  /\ Main(c) \in Reach(c) /\ Webhook(c) \in Reach(c)
           /\ Main(c) \in Things /\ Webhook(c) \in Things
<1>1. Main(c) \in Things /\ Webhook(c) \in Things
    BY DEF Things
<1>2. <<"Deployment", Append(NameOf[c], "main")>> \in RoleThings(Append(NameOf[c], "main"))
      /\ <<"Deployment", Append(NameOf[c], "webhook")>> \in RoleThings(Append(NameOf[c], "webhook"))
    BY DEF RoleThings
<1>3. KindOf[c] # "Single"
    BY DEF Clusters
<1>4. QED BY <1>1, <1>2, <1>3 DEF Main, Webhook, Reach

(* A call made by name, of a reconcile of c, is on something c reaches for.  *)
LEMMA CallInReach ==
    ASSUME PlansFit, NEW c \in CRs, Writes(c) \/ Erases(c)
    PROVE  This(c) \in Reach(c) \/ (InSecrets(This(c)) /\ obj[This(c)] = Absent /\ Writes(c))
<1>1. ~Idle(c) /\ Fit(c, todo[c], doing[c]) /\ Head(todo[c]).op \in Puts \union Deletes
    BY DEF Writes, Erases, AtOp, PlansFit
<1>2. \A ops : Head(todo[c]).op \in ops => This(c) \in Does(todo[c], ops)
    BY <1>1, AtCall
<1>3. CASE Head(todo[c]).op \in Naming
    BY <1>1, <1>2, <1>3 DEF Fit
<1>4. CASE Head(todo[c]).op = "ensure"
    <2>1. InSecrets(This(c))
        BY <1>1, <1>2, <1>4 DEF Fit
    <2>2. Writes(c)
        BY <1>4 DEF Erases, AtOp, Deletes
    <2>3. QED BY <1>4, <2>1, <2>2 DEF Writes
<1>5. QED BY <1>1, <1>3, <1>4 DEF Puts, Naming, Deletes

(* What a CR reaches for changes by its own reconcile alone, or shrinks.    *)
LEMMA OthersKeepOff ==
    ASSUME TypeOK, PlansFit, NamesApart, NEW c \in CRs, NEW d \in CRs, d # c,
           Writes(d) \/ Erases(d), NEW t \in Things, t \in Reach(c)
    PROVE  obj'[t] = obj[t]
<1>1. This(d) \in Reach(d) \/ InSecrets(This(d))
    BY CallInReach
<1>2. t # This(d)
    BY <1>1, ReachTyped DEF NamesApart
<1>3. QED BY <1>2 DEF Writes, Erases, Put, Drop, TypeOK

-----------------------------------------------------------------------------
(* Children are kept while they are wanted.                                 *)

LEMMA KeptStep ==
    ASSUME NamesApart, ChildInv, [Next]_vars, NEW t \in Things, NEW c \in CRs,
           obj[t].owner = c, Living(c), t \in Wanted(c, cr[c].spec),
           \A call \in CallsOf(todo[c]) : ~(call.thing = t /\ call.op \in Deletes),
           IsServed(t)', ~ending
    PROVE  obj'[t].owner = c
<1>1. TypeOK /\ SpecsKnown /\ PlansFit /\ Owned
    BY DEF ChildInv
<1>2. Shrinks \/ \E d \in CRs : Begin(d) \/ Writes(d) \/ Erases(d) \/ Passes(d)
    BY <1>1, StepKinds
<1>3. t \in Reach(c) \/ InSecrets(t)
    BY WantedInReach
<1>4. obj[t] # Absent
    BY AbsentHasNoOwner
<1>5. CASE Shrinks
    <2>1. cr[c].exists
        BY DEF Living
    <2>2. t[1] \in Optional => t[1] \in served'
        BY ConstantsOK DEF IsServed
    <2>3. QED BY <1>5, <2>1, <2>2 DEF Shrinks
<1>6. ASSUME NEW d \in CRs, Begin(d) \/ Passes(d)  PROVE obj'[t].owner = c
    BY <1>6 DEF Begin, Passes
<1>7. ASSUME NEW d \in CRs, d # c, Writes(d) \/ Erases(d)  PROVE obj'[t].owner = c
    <2>1. t # This(d)
        <3>1. CASE This(d) \in Reach(d)
            BY <1>3, <1>7, <3>1, ReachTyped DEF NamesApart
        <3>2. CASE obj[This(d)] = Absent
            BY <1>4, <3>2
        <3>3. QED BY <1>1, <1>7, <3>1, <3>2, CallInReach
    <2>2. QED BY <1>1, <1>7, <2>1 DEF Writes, Erases, Put, Drop, TypeOK
<1>8. ASSUME Writes(c)  PROVE obj'[t].owner = c
    <2>1. obj' = [obj EXCEPT ![This(c)] = [owner |-> c, spec |-> doing[c]]]
        BY <1>8 DEF Writes, Put
    <2>2. CASE t = This(c)
        BY <1>1, <2>1, <2>2 DEF TypeOK
    <2>3. CASE t # This(c)
        BY <1>1, <2>1, <2>3 DEF TypeOK
    <2>4. QED BY <2>2, <2>3
<1>9. ASSUME Erases(c)  PROVE obj'[t].owner = c
    <2>1. ~Idle(c) /\ Head(todo[c]).op \in Deletes
        BY <1>9 DEF Erases, AtOp
    <2>2. Head(todo[c]) \in CallsOf(todo[c])
        BY <1>1, <2>1, AtCall
    <2>3. t # This(c)
        BY <2>1, <2>2 DEF This
    <2>4. QED BY <1>1, <1>9, <2>3 DEF Erases, Drop, TypeOK
<1>10. QED BY <1>2, <1>5, <1>6, <1>7, <1>8, <1>9

(* A child that its owner wants stays the owner's, whatever the reconciles   *)
(* of other CRs, users and the collector do, for any CRs of which no two    *)
(* reach for one thing (child_mixed; child_webhook, of a Single named like  *)
(* a Cluster's webhook role, shows why).                                    *)
THEOREM WantedIsKept == ASSUME NamesApart PROVE Spec => KeptWhileWanted
<1>1. ASSUME ChildInv, [Next]_vars
      PROVE  \A t \in Things, c \in CRs :
                 /\ obj[t].owner = c /\ Living(c)
                 /\ t \in Wanted(c, cr[c].spec)
                 /\ \A call \in CallsOf(todo[c]) : ~(call.thing = t /\ call.op \in Deletes)
                 /\ IsServed(t)' /\ ~ending
                 => obj'[t].owner = c
    BY <1>1, KeptStep
<1>2. QED BY <1>1, ChildInductive, PTL DEF KeptWhileWanted, Spec

-----------------------------------------------------------------------------
(* What has been done at each point of a reconcile.                         *)

LEMMA InPlaceStep ==
    ASSUME NamesApart, RoutesStay, ChildInv, [Next]_vars, NEW c \in CRs, InPlace(c)
    PROVE  InPlace(c)'
<1>1. TypeOK /\ SpecsKnown /\ PlansFit /\ Owned
    BY DEF ChildInv
<1>2. Shrinks \/ \E d \in CRs : Begin(d) \/ Writes(d) \/ Erases(d) \/ Passes(d)
    BY <1>1, StepKinds
<1>3. SUFFICES ASSUME Does(todo'[c], {"status"}) # {}, cr'[c].exists, ~ending',
                      NEW t \in Wanted(c, doing'[c]), Counted(t)
               PROVE  \/ t \in Applies(todo'[c])
                      \/ t \in Things /\ obj'[t] = [owner |-> c, spec |-> doing'[c]]
    BY DEF InPlace
<1>4. cr[c].exists /\ ~ending /\ todo'[c] # << >>
    BY <1>1, <1>3, RecordsTyped, BoundsTyped, NoCall
<1>5. t \in Reach(c)
    BY <1>3, WantedInReach DEF Counted, InSecrets
<1>6. ASSUME UNCHANGED <<todo[c], doing[c]>>,
             \A u \in Things : u \in Reach(c) /\ Counted(u) /\ obj[u].owner = c => obj'[u] = obj[u]
      PROVE  \/ t \in Applies(todo'[c])
             \/ t \in Things /\ obj'[t] = [owner |-> c, spec |-> doing'[c]]
    BY <1>3, <1>4, <1>5, <1>6 DEF InPlace
<1>7. CASE Shrinks
    <2>1. ASSUME NEW u \in Things, Counted(u), obj[u].owner = c  PROVE obj'[u] = obj[u]
        <3>1. ApiMayChange => u[1] \notin Optional
            BY <2>1, ConstantsOK DEF RoutesStay, Counted, Extensions
        <3>2. QED BY <1>4, <1>7, <2>1, <3>1 DEF Shrinks
    <2>2. QED BY <1>6, <1>7, <2>1 DEF Shrinks
<1>8. CASE Begin(c)
    <2>1. Begun(c, todo'[c], doing'[c])
        BY <1>1, <1>8, PlanBegun
    <2>2. QED BY <1>3, <2>1 DEF Begun
<1>9. ASSUME NEW d \in CRs, d # c, Begin(d) \/ Writes(d) \/ Erases(d) \/ Passes(d)
      PROVE  \/ t \in Applies(todo'[c])
             \/ t \in Things /\ obj'[t] = [owner |-> c, spec |-> doing'[c]]
    <2>1. UNCHANGED <<todo[c], doing[c]>>
        <3>1. CASE Begin(d)
            BY <1>1, <1>9, <3>1, PlanBegun
        <3>2. CASE Writes(d) \/ Erases(d) \/ Passes(d)
            <4>1. ~Idle(d) /\ Moves(d)
                BY <3>2 DEF Writes, Erases, Passes, AtOp, Moves, Puts, Deletes, Fixed
            <4>2. QED BY <1>1, <1>9, <4>1, Moved
        <3>3. QED BY <1>9, <3>1, <3>2
    <2>2. \A u \in Things : u \in Reach(c) => obj'[u] = obj[u]
        <3>1. CASE Begin(d) \/ Passes(d)
            BY <3>1 DEF Begin, Passes
        <3>2. CASE Writes(d) \/ Erases(d)
            BY <1>1, <1>9, <3>2, OthersKeepOff
        <3>3. QED BY <1>9, <3>1, <3>2
    <2>3. QED BY <1>6, <2>1, <2>2
<1>10. ASSUME Writes(c) \/ Erases(c) \/ Passes(c)
       PROVE  \/ t \in Applies(todo'[c])
              \/ t \in Things /\ obj'[t] = [owner |-> c, spec |-> doing'[c]]
    <2>1. ~Idle(c) /\ Moves(c)
        BY <1>10 DEF Writes, Erases, Passes, AtOp, Moves, Puts, Deletes, Fixed
    <2>2. /\ doing'[c] = doing[c] /\ Does(todo'[c], {"status"}) \subseteq Does(todo[c], {"status"})
          /\ Applies(todo[c]) \subseteq Applies(todo'[c])
                 \union (IF Head(todo[c]).op = "apply" THEN {This(c)} ELSE {})
        BY <1>1, <1>4, <2>1, Moved
    <2>3. t \in Applies(todo[c]) \/ (t \in Things /\ obj[t] = [owner |-> c, spec |-> doing[c]])
        BY <1>3, <1>4, <2>2 DEF InPlace
    <2>4. CASE Passes(c)
        <3>1. Head(todo[c]).op # "apply" \/ todo'[c] = << >>
            <4>1. ASSUME Stop(c)  PROVE todo'[c] = << >>
                <5>1. Len(todo[c]) \in Nat /\ Len(todo[c]) \in 0..Len(todo[c])
                    BY <1>1, <2>1, AtCall
                <5>2. todo'[c] = SubSeq(todo[c], Len(todo[c]) + 1, Len(todo[c]))
                    BY <1>1, <2>1, <4>1, <5>1, Goes DEF Stop
                <5>3. QED BY <5>1, <5>2, SubSeqEmpty
            <4>2. QED BY <2>4, <4>1 DEF Passes, Fixed
        <3>2. QED BY <1>4, <2>2, <2>3, <2>4, <3>1 DEF Passes
    <2>5. CASE Writes(c)
        <3>1. obj' = [obj EXCEPT ![This(c)] = [owner |-> c, spec |-> doing[c]]]
            BY <2>5 DEF Writes, Put
        <3>2. CASE t = This(c)
            <4>1. t \in Things
                <5>1. Head(todo[c]) \in Calls
                    BY <1>1, <2>1, AtCall
                <5>2. t # None
                    BY <1>5, ReachTyped
                <5>3. QED BY <3>2, <5>1, <5>2 DEF Things, This
            <4>2. QED BY <1>1, <2>2, <3>1, <3>2, <4>1 DEF TypeOK
        <3>3. CASE t # This(c)
            <4>1. t \in Things => obj'[t] = obj[t]
                BY <1>1, <3>1, <3>3 DEF TypeOK
            <4>2. QED BY <2>2, <2>3, <3>3, <4>1
        <3>4. QED BY <3>2, <3>3
    <2>6. CASE Erases(c)
        <3>1. This(c) \in Drops(todo[c]) /\ Head(todo[c]).op # "apply"
            <4>1. Head(todo[c]).op \in Deletes
                BY <2>6 DEF Erases, AtOp
            <4>2. QED BY <1>1, <2>1, <4>1, AtCall DEF Drops, Deletes
        <3>2. t # This(c)
            BY <1>1, <1>3, <2>1, <2>2, <3>1 DEF PlansFit, Fit
        <3>3. t \in Things => obj'[t] = obj[t]
            BY <1>1, <2>6, <3>2 DEF Erases, Drop, TypeOK
        <3>4. QED BY <2>2, <2>3, <3>1, <3>3
    <2>7. QED BY <1>10, <2>4, <2>5, <2>6
<1>11. QED BY <1>2, <1>7, <1>8, <1>9, <1>10

LEMMA TakenBackStep ==
    ASSUME NamesApart, ChildInv, [Next]_vars, NEW c \in Clusters, TakenBack(c)
    PROVE  TakenBack(c)'
<1>1. TypeOK /\ SpecsKnown /\ PlansFit /\ Owned /\ c \in CRs /\ KindOf[c] = "Cluster"
    BY DEF ChildInv, Clusters
<1>2. Shrinks \/ \E d \in CRs : Begin(d) \/ Writes(d) \/ Erases(d) \/ Passes(d)
    BY <1>1, StepKinds
<1>3. SUFFICES ASSUME Webhook(c) \in Drops(todo'[c]), Main(c) \notin Applies(todo'[c])
               PROVE  ~Offloads(c)'
    BY DEF TakenBack
<1>4. todo'[c] # << >>
    BY <1>3, NoCall DEF Drops
<1>5. Main(c) \in Things /\ Main(c) \in Reach(c)
    BY MainIsReached
<1>6. ASSUME ~Offloads(c), obj'[Main(c)] = obj[Main(c)] \/ obj'[Main(c)] = Absent
      PROVE  ~Offloads(c)'
    BY <1>6 DEF Offloads
<1>7. ASSUME todo'[c] = todo[c]  PROVE ~Offloads(c)
    BY <1>3, <1>7 DEF TakenBack
<1>8. CASE Shrinks
    BY <1>5, <1>6, <1>7, <1>8 DEF Shrinks
<1>9. CASE Begin(c)
    <2>1. Begun(c, todo'[c], doing'[c])
        BY <1>1, <1>9, PlanBegun
    <2>2. QED BY <1>1, <1>3, <2>1 DEF Begun
<1>10. ASSUME NEW d \in CRs, d # c, Begin(d) \/ Writes(d) \/ Erases(d) \/ Passes(d)
       PROVE  ~Offloads(c)'
    <2>1. todo'[c] = todo[c]
        <3>1. CASE Begin(d)
            BY <1>1, <1>10, <3>1, PlanBegun
        <3>2. CASE Writes(d) \/ Erases(d) \/ Passes(d)
            <4>1. ~Idle(d) /\ Moves(d)
                BY <3>2 DEF Writes, Erases, Passes, AtOp, Moves, Puts, Deletes, Fixed
            <4>2. QED BY <1>1, <1>10, <4>1, Moved
        <3>3. QED BY <1>10, <3>1, <3>2
    <2>2. obj'[Main(c)] = obj[Main(c)]
        <3>1. CASE Begin(d) \/ Passes(d)
            BY <3>1 DEF Begin, Passes
        <3>2. CASE Writes(d) \/ Erases(d)
            BY <1>1, <1>5, <1>10, <3>2, OthersKeepOff
        <3>3. QED BY <1>10, <3>1, <3>2
    <2>3. QED BY <1>6, <1>7, <2>1, <2>2
<1>11. ASSUME Writes(c) \/ Erases(c) \/ Passes(c)  PROVE ~Offloads(c)'
    <2>1. ~Idle(c) /\ Moves(c)
        BY <1>11 DEF Writes, Erases, Passes, AtOp, Moves, Puts, Deletes, Fixed
    <2>2. /\ \A ops : Does(todo'[c], ops) \subseteq Does(todo[c], ops)
          /\ Applies(todo[c]) \subseteq Applies(todo'[c])
                 \union (IF Head(todo[c]).op = "apply" THEN {This(c)} ELSE {})
        BY <1>1, <1>4, <2>1, Moved
    <2>3. Webhook(c) \in Drops(todo[c])
        BY <1>3, <2>2 DEF Drops
    <2>4. Main(c) \in Applies(todo[c]) \/ ~Offloads(c)
        BY <2>3 DEF TakenBack
    <2>5. doing[c].webhooks = "off"
        BY <1>1, <2>1, <2>3 DEF PlansFit, Fit
    <2>6. CASE Passes(c)
        <3>1. Head(todo[c]).op # "apply" \/ todo'[c] = << >>
            <4>1. ASSUME Stop(c)  PROVE todo'[c] = << >>
                <5>1. Len(todo[c]) \in Nat /\ Len(todo[c]) \in 0..Len(todo[c])
                    BY <1>1, <2>1, AtCall
                <5>2. todo'[c] = SubSeq(todo[c], Len(todo[c]) + 1, Len(todo[c]))
                    BY <1>1, <2>1, <4>1, <5>1, Goes DEF Stop
                <5>3. QED BY <5>1, <5>2, SubSeqEmpty
            <4>2. QED BY <2>6, <4>1 DEF Passes, Fixed
        <3>2. ~Offloads(c) /\ obj' = obj
            BY <1>3, <1>4, <2>2, <2>4, <2>6, <3>1 DEF Passes
        <3>3. QED BY <1>6, <3>2
    <2>7. CASE Writes(c)
        <3>1. obj' = [obj EXCEPT ![This(c)] = [owner |-> c, spec |-> doing[c]]]
            BY <2>7 DEF Writes, Put
        <3>2. CASE This(c) = Main(c)
            <4>1. obj'[Main(c)] = [owner |-> c, spec |-> doing[c]]
                BY <1>1, <1>5, <3>1, <3>2 DEF TypeOK
            <4>2. obj'[Main(c)].spec.webhooks = "off"
                BY <2>5, <4>1
            <4>3. QED BY <4>2 DEF Offloads
        <3>3. CASE This(c) # Main(c)
            <4>1. obj'[Main(c)] = obj[Main(c)]
                BY <1>1, <1>5, <3>1, <3>3 DEF TypeOK
            <4>2. ~Offloads(c)
                BY <1>3, <2>2, <2>4, <3>3
            <4>3. QED BY <1>6, <4>1, <4>2
        <3>4. QED BY <3>2, <3>3
    <2>8. CASE Erases(c)
        <3>1. Head(todo[c]).op # "apply"
            BY <2>8 DEF Erases, AtOp, Deletes
        <3>2. obj'[Main(c)] = obj[Main(c)] \/ obj'[Main(c)] = Absent
            BY <1>1, <1>5, <2>8 DEF Erases, Drop, TypeOK
        <3>3. QED BY <1>3, <1>6, <2>2, <2>4, <3>1, <3>2
    <2>9. QED BY <1>11, <2>6, <2>7, <2>8
<1>12. QED BY <1>2, <1>8, <1>9, <1>10, <1>11

AllInPlace == \A c \in CRs : InPlace(c)

LEMMA InPlaceHolds == ASSUME NamesApart, RoutesStay PROVE Spec => [](ChildInv /\ AllInPlace)
<1>1. Init => AllInPlace
    <2> SUFFICES ASSUME Init, NEW c \in CRs  PROVE InPlace(c)
        BY DEF AllInPlace
    <2>1. todo[c] = << >>
        BY DEF Init
    <2>2. QED BY <2>1, NoCall DEF InPlace
<1>2. ChildInv /\ AllInPlace /\ [Next]_vars => AllInPlace'
    BY InPlaceStep DEF AllInPlace
<1>3. QED BY <1>1, <1>2, ChildInit, ChildStep, PTL DEF Spec

AllTakenBack == \A c \in Clusters : TakenBack(c)

LEMMA TakenBackHolds == ASSUME NamesApart PROVE Spec => [](ChildInv /\ AllTakenBack)
<1>1. Init => AllTakenBack
    <2> SUFFICES ASSUME Init, NEW c \in Clusters  PROVE TakenBack(c)
        BY DEF AllTakenBack
    <2>1. todo[c] = << >>
        BY DEF Init, Clusters
    <2>2. QED BY <2>1, NoCall DEF TakenBack, Drops
<1>2. ChildInv /\ AllTakenBack /\ [Next]_vars => AllTakenBack'
    BY TakenBackStep DEF AllTakenBack
<1>3. QED BY <1>1, <1>2, ChildInit, ChildStep, PTL DEF Spec

LEMMA ReadyChanges ==
    ASSUME TypeOK, [Next]_vars, NEW c \in CRs, cr'[c].ready # cr[c].ready
    PROVE  PatchStatus(c)
<1>1. cr \in [CRs -> [exists : BOOLEAN, finalizer : BOOLEAN, deleting : BOOLEAN,
                      spec : Specs, ready : Specs \union {None}]]
    BY DEF TypeOK
<1>2. ASSUME NEW d \in CRs  PROVE Deleted(cr[d]).ready = cr[d].ready
    BY <1>1 DEF Deleted
<1>3. ASSUME NEW d \in CRs, Reconcile(d) \/ Fault(d)  PROVE PatchStatus(c)
    <2>1. CASE UNCHANGED cr
        BY <2>1
    <2>2. CASE PatchStatus(d)
        BY <1>1, <2>2 DEF PatchStatus
    <2>3. CASE AddFinalizer(d)
        BY <1>1, <2>3 DEF AddFinalizer
    <2>4. CASE RemoveFinalizer(d)
        BY <1>1, <2>4 DEF RemoveFinalizer
    <2>5. QED BY <1>3, <2>1, <2>2, <2>3, <2>4 DEF Reconcile, Begin, ApplyCall, NotServed,
              EnsureCall, Lookup, Probe, Delete, PublishEvent, Fail, Ignore, Fault
<1>4. ASSUME NEW d \in CRs, DeleteCR(d)  PROVE PatchStatus(c)
    <2>1. cr' = [cr EXCEPT ![d] = Deleted(cr[d])]
        BY <1>4 DEF DeleteCR
    <2>2. QED BY <1>1, <1>2, <2>1
<1>5. ASSUME NEW d \in CRs, NEW s, EditSpec(d, s)  PROVE PatchStatus(c)
    BY <1>1, <1>5 DEF EditSpec
<1>6. ASSUME EndNamespace  PROVE PatchStatus(c)
    <2>1. cr' = [d \in CRs |-> IF cr[d].exists THEN Deleted(cr[d]) ELSE cr[d]]
        BY <1>6 DEF EndNamespace
    <2>2. QED BY <1>2, <2>1
<1>7. CASE UNCHANGED vars
    BY <1>7 DEF vars
<1>8. CASE Next
    BY <1>3, <1>4, <1>5, <1>6, <1>8 DEF Next, Collect, InstallApi, RemoveApi, Terminate
<1>9. QED BY <1>7, <1>8

LEMMA StatusStep ==
    ASSUME ChildInv, NEW c \in CRs, InPlace(c), [Next]_vars, cr'[c].ready # cr[c].ready, ~ending,
           NEW t \in Wanted(c, doing[c]), Counted(t)
    PROVE  obj[t] = [owner |-> c, spec |-> doing[c]]
<1>1. TypeOK /\ PlansFit
    BY DEF ChildInv
<1>2. ~Idle(c) /\ Head(todo[c]).op = "status" /\ cr[c].exists
    BY <1>1, ReadyChanges DEF PatchStatus, Doing
<1>3. /\ Does(todo[c], {"status"}) # {}
      /\ 1 \in 1..Len(todo[c]) /\ todo[c][1].op = "status" /\ Len(todo[c]) \in Nat
    BY <1>1, <1>2, AtCall
<1>4. Len(todo[c]) = 1 /\ DOMAIN todo[c] = 1..Len(todo[c])
    <2>1. StatusLast(todo[c]) /\ Tidy(todo[c])
        BY <1>1, <1>2 DEF PlansFit, Fit
    <2>2. Len(todo[c]) = 1
        BY <1>3, <2>1 DEF StatusLast
    <2>3. QED BY <2>1, <2>2 DEF Tidy
<1>5. t \notin Applies(todo[c])
    BY <1>3, <1>4 DEF Applies, Does, CallsOf
<1>6. QED BY <1>2, <1>3, <1>5 DEF InPlace

(* A status is written only once every child it stands for is in place, but *)
(* for the DestinationRule: a reconcile that passes over calls whose        *)
(* failure it ignores never passes over the application of a child          *)
(* (child_one).  The names of the CRs must be apart, and the Gateway API    *)
(* must not be uninstalled under a running reconcile.                       *)
THEOREM StatusIsLast == ASSUME NamesApart, RoutesStay PROVE Spec => StatusAfterChildren
<1>1. ASSUME ChildInv, AllInPlace, [Next]_vars
      PROVE  \A c \in CRs : cr'[c].ready # cr[c].ready /\ ~ending =>
                 \A t \in Wanted(c, doing[c]) :
                     t[1] \notin {"Secret", "DestinationRule"} =>
                         obj[t] = [owner |-> c, spec |-> doing[c]]
    BY <1>1, StatusStep DEF Counted, AllInPlace
<1>2. QED BY <1>1, InPlaceHolds, PTL DEF StatusAfterChildren, Spec

LEMMA TakenBackFirstStep ==
    ASSUME NamesApart, ChildInv, [Next]_vars, NEW c \in Clusters, TakenBack(c),
           Living(c), ~ending, obj[Webhook(c)] # Absent, obj'[Webhook(c)] = Absent
    PROVE  ~Offloads(c)
<1> DEFINE w == Webhook(c)
<1>1. /\ TypeOK /\ SpecsKnown /\ PlansFit /\ Owned /\ c \in CRs /\ KindOf[c] = "Cluster"
      /\ w \in Things /\ w \in Reach(c) /\ w[1] = "Deployment"
    BY MainIsReached DEF ChildInv, Clusters, Webhook
<1>2. Shrinks \/ \E d \in CRs : Begin(d) \/ Writes(d) \/ Erases(d) \/ Passes(d)
    BY <1>1, StepKinds
<1>3. obj[w].owner = c
    <2>1. obj[w].owner \in CRs
        BY <1>1, AbsentHasNoOwner DEF TypeOK, Objects
    <2>2. w \in Reach(obj[w].owner)
        BY <1>1, ReachTyped DEF Owned
    <2>3. QED BY <1>1, <2>1, <2>2 DEF NamesApart
<1>4. CASE Shrinks
    <2>1. cr[c].exists /\ w[1] \notin Optional
        BY <1>1, ConstantsOK DEF Living, Extensions
    <2>2. obj'[w] = obj[w]
        BY <1>1, <1>3, <1>4, <2>1 DEF Shrinks
    <2>3. QED BY <2>2
<1>5. ASSUME NEW d \in CRs, Begin(d) \/ Passes(d)  PROVE FALSE
    BY <1>5 DEF Begin, Passes
<1>6. ASSUME NEW d \in CRs, d # c, Writes(d) \/ Erases(d)  PROVE FALSE
    BY <1>1, <1>6, OthersKeepOff
<1>7. ASSUME Writes(c)  PROVE FALSE
    <2>1. /\ obj' = [obj EXCEPT ![This(c)] = [owner |-> c, spec |-> doing[c]]]
          /\ [owner |-> c, spec |-> doing[c]] # Absent
        BY <1>1, <1>7, AbsentHasNoOwner DEF Writes, Put, Absent
    <2>2. QED BY <1>1, <2>1 DEF TypeOK
<1>8. CASE Erases(c)
    <2>1. ~Idle(c) /\ Head(todo[c]).op \in Deletes /\ This(c) = w
        BY <1>1, <1>8 DEF Erases, AtOp, Drop, TypeOK
    <2>2. /\ w \in Drops(todo[c]) /\ 1 \in 1..Len(todo[c]) /\ Head(todo[c]) = todo[c][1]
        BY <1>1, <2>1, AtCall DEF Drops
    <2>3. Main(c) \notin Applies(todo[c])
        <3>1. MainFirst(c, todo[c]) /\ DOMAIN todo[c] = 1..Len(todo[c]) /\ Len(todo[c]) \in Nat
            BY <1>1, <2>1 DEF PlansFit, Fit, Tidy
        <3>2. SUFFICES ASSUME NEW i \in 1..Len(todo[c]), todo[c][i].op = "apply",
                              todo[c][i].thing = Main(c)
                       PROVE  FALSE
            BY <3>1 DEF Applies, Does, CallsOf
        <3>3. i < 1
            BY <2>1, <2>2, <3>1, <3>2 DEF MainFirst, This
        <3>4. QED BY <3>1, <3>3
    <2>4. QED BY <2>2, <2>3 DEF TakenBack
<1>9. QED BY <1>2, <1>4, <1>5, <1>6, <1>7, <1>8

(* The webhook role of a Cluster goes only once main has production         *)
(* webhooks back: the plan applies main before it deletes the webhook       *)
(* role, whatever is passed over in between, and no one else touches        *)
(* either, for any CRs of which no two reach for one thing.                 *)
THEOREM WebhooksTakenBack == ASSUME NamesApart PROVE Spec => TakenBackFirst
<1>1. ASSUME ChildInv, AllTakenBack, [Next]_vars
      PROVE  \A c \in Clusters :
                 Living(c) /\ ~ending /\ obj[Webhook(c)] # Absent /\ obj'[Webhook(c)] = Absent
                 => ~Offloads(c)
    BY <1>1, TakenBackFirstStep DEF AllTakenBack
<1>2. QED BY <1>1, TakenBackHolds, PTL DEF TakenBackFirst, Spec

-----------------------------------------------------------------------------
(* Rejected specs.                                                          *)

(* A plan begins with its refusal ahead, or has nothing to put.             *)
LEMMA PlanHalts ==
    ASSUME NEW c \in CRs, NEW s \in SpecsOf[c]
    PROVE  /\ \A p \in {CleanupPlan, FinalizerPlan} : Halts(c, p, s)
           /\ Halts(c, ApplyPlan(c, s), s)
<1>1. s \in Specs /\ KindOf[c] \in {"Single", "Cluster"}
      /\ (KindOf[c] = "Single" => s.webhooks = "off")
    BY ConstantsOK
<1>2. \A p \in {CleanupPlan, FinalizerPlan} : Halts(c, p, s)
    BY CleanupFits DEF Halts, Idles
<1>3. CASE ~Valid(c, s)
    <2>1. StopsShort(c, Plain("fail"), s)
        BY RefusalStops
    <2>2. ApplyPlan(c, s) = Plain("fail")
        BY <1>3, PlanShape
    <2>3. QED BY <1>2, <2>1, <2>2 DEF Halts
<1>4. CASE Valid(c, s) /\ ~Rejected(s)
    BY <1>2, <1>4 DEF Halts
<1>5. CASE Valid(c, s) /\ Rejected(s)
    <2>1. KindOf[c] = "Cluster" /\ s.legal
        BY <1>1, <1>5 DEF Valid, SingleValid, ClusterValid, Rejected
    <2>2. /\ StopsShort(c, ClusterWork(NameOf[c], s), s)
          /\ ClusterWork(NameOf[c], s) \in Seq(AnyCall)
        BY <1>1, <1>5, <2>1, ClusterStops
    <2>3. Finish \in Seq(AnyCall)
        BY FinishFacts DEF Tidy
    <2>4. ApplyPlan(c, s) = ClusterWork(NameOf[c], s) \o Finish
        BY <1>5, <2>1, PlanShape DEF Work
    <2>5. StopsShort(c, ApplyPlan(c, s), s)
        BY <2>2, <2>3, <2>4, ShortThenMore
    <2>6. QED BY <1>2, <2>5 DEF Halts
<1>6. QED BY <1>3, <1>4, <1>5

(* Going on keeps the refusal ahead.                                        *)
LEMMA HaltsAhead ==
    ASSUME NEW c, NEW s, NEW p, Tidy(p), p # << >>, Halts(c, p, s), p[1].op # "fail",
           NEW n \in {1, p[1].skip}
    PROVE  Halts(c, SubSeq(p, n + 1, Len(p)), s)
<1> DEFINE q == SubSeq(p, n + 1, Len(p))
<1>1. n \in 0..Len(p) /\ Len(p) \in Nat
    BY Advance DEF Tidy
<1>2. /\ Len(q) = Len(p) - n
      /\ \A i \in 1..Len(q) : q[i] = p[i + n] /\ i + n \in 1..Len(p)
      /\ \A ops : Does(q, ops) \subseteq Does(p, ops)
    BY <1>1, Suffix
<1> HIDE DEF q
<1>3. CASE Idles(p)
    BY <1>2, <1>3 DEF Halts, Idles, q
<1>4. CASE StopsShort(c, p, s)
    <2>1. PICK i \in 1..Len(p) :
              /\ p[i].op = "fail"
              /\ \A j \in 1..i : p[j].op \in Puts => BeforeRefusal(c, s, p[j].thing)
        BY <1>4 DEF StopsShort
    <2>2. 1 < i
        BY <1>1, <2>1
    <2>3. 1 + p[1].skip <= i
        BY <1>1, <2>1, <2>2 DEF Tidy, Fixed
    <2>4. n < i
        BY <1>1, <2>2, <2>3
    <2>5. i - n \in 1..Len(q) /\ (i - n) + n = i
        BY <1>1, <1>2, <2>4
    <2>6. q[i - n].op = "fail"
        BY <1>2, <2>1, <2>5
    <2>7. ASSUME NEW j \in 1..i - n, q[j].op \in Puts
          PROVE  BeforeRefusal(c, s, q[j].thing)
        <3>1. j \in 1..Len(q) /\ j + n \in 1..i
            BY <1>1, <2>5
        <3>2. q[j] = p[j + n]
            BY <1>2, <3>1
        <3>3. QED BY <2>1, <2>7, <3>1, <3>2
    <2>8. StopsShort(c, q, s)
        BY <2>5, <2>6, <2>7 DEF StopsShort
    <2>9. QED BY <2>8 DEF Halts, q
<1>5. QED BY <1>3, <1>4 DEF Halts

AllHalt == \A c \in CRs : ~Idle(c) => Halts(c, todo[c], doing[c])

LEMMA HaltStep ==
    ASSUME ChildInv, AllHalt, [Next]_vars
    PROVE  AllHalt'
<1>1. TypeOK /\ SpecsKnown /\ PlansFit
    BY DEF ChildInv
<1>2. Shrinks \/ \E d \in CRs : Begin(d) \/ Writes(d) \/ Erases(d) \/ Passes(d)
    BY <1>1, StepKinds
<1> SUFFICES ASSUME NEW c \in CRs, ~Idle(c)'
             PROVE  Halts(c, todo'[c], doing'[c])
    BY DEF AllHalt
<1>3. ASSUME UNCHANGED <<todo[c], doing[c]>>  PROVE Halts(c, todo'[c], doing'[c])
    BY <1>3 DEF AllHalt, Idle
<1>4. CASE Shrinks
    BY <1>3, <1>4 DEF Shrinks
<1>5. CASE Begin(c)
    <2>1. PICK p : /\ todo' = [todo EXCEPT ![c] = p]
                   /\ p \in {CleanupPlan, FinalizerPlan, ApplyPlan(c, cr[c].spec)}
        BY <1>5 DEF Begin
    <2>2. /\ doing' = [doing EXCEPT ![c] = cr[c].spec] /\ cr[c].spec \in SpecsOf[c]
          /\ doing \in [CRs -> Specs \union {None}] /\ todo \in [CRs -> Seq(Calls)]
        BY <1>1, <1>5 DEF Begin, SpecsKnown, TypeOK
    <2>3. todo'[c] = p /\ doing'[c] = cr[c].spec
        BY <2>1, <2>2
    <2>4. QED BY <2>1, <2>2, <2>3, PlanHalts
<1>6. ASSUME NEW d \in CRs, d # c, Begin(d) \/ Writes(d) \/ Erases(d) \/ Passes(d)
      PROVE  Halts(c, todo'[c], doing'[c])
    <2>1. CASE Begin(d)
        BY <1>1, <1>3, <1>6, <2>1, PlanBegun
    <2>2. CASE Writes(d) \/ Erases(d) \/ Passes(d)
        <3>1. ~Idle(d) /\ Moves(d)
            BY <2>2 DEF Writes, Erases, Passes, AtOp, Moves, Puts, Deletes, Fixed
        <3>2. QED BY <1>1, <1>3, <1>6, <3>1, Moved
    <2>3. QED BY <1>6, <2>1, <2>2
<1>7. CASE Writes(c) \/ Erases(c) \/ Passes(c)
    <2>1. ~Idle(c) /\ Moves(c)
        BY <1>7 DEF Writes, Erases, Passes, AtOp, Moves, Puts, Deletes, Fixed
    <2>2. /\ todo[c] # << >> /\ Tidy(todo[c]) /\ Len(todo[c]) \in Nat
          /\ Head(todo[c]) = todo[c][1] /\ Halts(c, todo[c], doing[c])
        BY <1>1, <2>1, AtCall DEF AllHalt
    <2>3. CASE Stop(c)
        <3>1. Len(todo[c]) \in 0..Len(todo[c]) /\ GoOn(c, Len(todo[c]))
            BY <2>2, <2>3 DEF Stop
        <3>2. todo'[c] = SubSeq(todo[c], Len(todo[c]) + 1, Len(todo[c]))
            BY <1>1, <2>1, <3>1, Goes
        <3>3. QED BY <2>2, <3>2, SubSeqEmpty DEF Idle
    <2>4. CASE ~Stop(c)
        <3>1. PICK n \in {1, todo[c][1].skip} : GoOn(c, n) /\ todo[c][1].op # "fail"
            BY <2>1, <2>2, <2>4 DEF Moves, Fixed
        <3>2. n \in 0..Len(todo[c])
            BY <2>2, Advance
        <3>3. todo'[c] = SubSeq(todo[c], n + 1, Len(todo[c])) /\ doing'[c] = doing[c]
            BY <1>1, <2>1, <3>1, <3>2, Goes DEF Idle
        <3>4. QED BY <2>2, <3>1, <3>3, HaltsAhead
    <2>5. QED BY <2>3, <2>4
<1>8. QED BY <1>2, <1>4, <1>5, <1>6, <1>7

(* What a reconcile writes for a rejected spec comes before its refusal.    *)
LEMMA WritesBefore ==
    ASSUME ChildInv, AllHalt, NEW c \in CRs, Writes(c), Rejected(doing[c])
    PROVE  /\ KindOf[c] = "Cluster" /\ doing[c].legal
           /\ BeforeRefusal(c, doing[c], This(c))
<1>1. TypeOK /\ PlansFit /\ ~Idle(c) /\ Head(todo[c]).op \in Puts
    BY DEF ChildInv, Writes, AtOp
<1>2. /\ doing[c] \in SpecsOf[c] /\ Fit(c, todo[c], doing[c])
      /\ Does(todo[c], Puts) # {} /\ Head(todo[c]) = todo[c][1]
    BY <1>1, AtCall DEF PlansFit
<1>3. KindOf[c] = "Cluster" /\ doing[c].legal
    <2>1. Valid(c, doing[c])
        BY <1>2 DEF Fit
    <2>2. KindOf[c] \in {"Single", "Cluster"}
          /\ (KindOf[c] = "Single" => doing[c].webhooks = "off")
        BY <1>2, ConstantsOK
    <2>3. QED BY <2>1, <2>2 DEF Valid, SingleValid, ClusterValid, Rejected
<1>4. StopsShort(c, todo[c], doing[c])
    BY <1>1, <1>2 DEF AllHalt, Halts, Idles
<1>5. PICK i \in 1..Len(todo[c]) :
          \A j \in 1..i : todo[c][j].op \in Puts =>
                              BeforeRefusal(c, doing[c], todo[c][j].thing)
    BY <1>4 DEF StopsShort
<1>6. 1 \in 1..i
    OBVIOUS
<1>7. QED BY <1>1, <1>2, <1>3, <1>5, <1>6 DEF This

(* A status is never written for a rejected spec.                           *)
LEMMA StatusAccepted ==
    ASSUME ChildInv, AllHalt, NEW c \in CRs, PatchStatus(c)
    PROVE  ~Rejected(doing[c])
<1>1. PlansFit /\ ~Idle(c) /\ Head(todo[c]).op = "status"
    BY DEF ChildInv, PatchStatus, Doing
<1>2. /\ 1 \in 1..Len(todo[c]) /\ Len(todo[c]) \in Nat /\ todo[c][1].op = "status"
      /\ Does(todo[c], {"status"}) # {} /\ StatusLast(todo[c])
    BY <1>1, AtCall DEF PlansFit, Fit
<1>3. Len(todo[c]) = 1
    BY <1>2 DEF StatusLast
<1> SUFFICES ASSUME Rejected(doing[c])  PROVE FALSE
    OBVIOUS
<1>4. StopsShort(c, todo[c], doing[c])
    BY <1>1, <1>2 DEF AllHalt, Halts, Idles
<1>5. PICK i \in 1..Len(todo[c]) : todo[c][i].op = "fail"
    BY <1>4 DEF StopsShort
<1>6. i = 1
    BY <1>3, <1>5
<1>7. QED BY <1>2, <1>5, <1>6

LEMMA ShortStep ==
    ASSUME ChildInv, AllHalt, RejectedStopsShort, [Next]_vars
    PROVE  RejectedStopsShort'
<1>1. TypeOK /\ SpecsKnown /\ PlansFit /\ obj \in [Things -> Objects]
    BY DEF ChildInv, TypeOK, Objects
<1>2. Shrinks \/ \E d \in CRs : Begin(d) \/ Writes(d) \/ Erases(d) \/ Passes(d)
    BY <1>1, StepKinds
<1>3. ASSUME NEW c \in CRs, cr'[c].ready # None  PROVE ~Rejected(cr'[c].ready)
    <2>1. CASE cr'[c].ready = cr[c].ready
        BY <1>3, <2>1 DEF RejectedStopsShort
    <2>2. CASE cr'[c].ready # cr[c].ready
        <3>1. PatchStatus(c)
            BY <1>1, <2>2, ReadyChanges
        <3>2. cr'[c].ready = doing[c]
            BY <1>1, <3>1 DEF PatchStatus, TypeOK
        <3>3. QED BY <3>1, <3>2, StatusAccepted
    <2>3. QED BY <2>1, <2>2
<1>4. ASSUME NEW c \in CRs, NEW t \in Things, obj'[t].owner = c, Rejected(obj'[t].spec)
      PROVE  /\ KindOf[c] = "Cluster" /\ obj'[t].spec.legal
             /\ BeforeRefusal(c, obj'[t].spec, t)
    <2>1. CASE obj'[t] = obj[t]
        BY <1>4, <2>1 DEF RejectedStopsShort
    <2>2. obj'[t] # Absent
        BY <1>4, AbsentHasNoOwner
    <2>3. ASSUME NEW d \in CRs, Writes(d), t = This(d)
          PROVE  /\ KindOf[c] = "Cluster" /\ obj'[t].spec.legal
                 /\ BeforeRefusal(c, obj'[t].spec, t)
        <3>1. obj'[t] = [owner |-> d, spec |-> doing[d]]
            BY <1>1, <2>3 DEF Writes, Put
        <3>2. d = c /\ Rejected(doing[c])
            BY <1>4, <3>1
        <3>3. QED BY <2>3, <3>1, <3>2, WritesBefore
    <2>4. ASSUME NEW d \in CRs, Writes(d), t # This(d)  PROVE obj'[t] = obj[t]
        BY <1>1, <2>4 DEF Writes, Put
    <2>5. ASSUME NEW d \in CRs, Erases(d)  PROVE obj'[t] = obj[t]
        BY <1>1, <2>2, <2>5 DEF Erases, Drop
    <2>6. ASSUME NEW d \in CRs, Begin(d) \/ Passes(d)  PROVE obj'[t] = obj[t]
        BY <2>6 DEF Begin, Passes
    <2>7. ASSUME Shrinks  PROVE obj'[t] = obj[t]
        BY <2>2, <2>7 DEF Shrinks
    <2>8. QED BY <1>2, <2>1, <2>3, <2>4, <2>5, <2>6, <2>7
<1>5. QED BY <1>3, <1>4 DEF RejectedStopsShort

(* A rejected spec goes no further than its refusal: a Single's before any   *)
(* child, a Cluster's in the networking of main or of the webhook role,      *)
(* with no child behind that and no status.  For any names, also ones that   *)
(* clash, and any specs, those that ask for both included.                   *)
THEOREM RejectedGoNoFurther == Spec => []RejectedStopsShort
<1>1. Init => AllHalt /\ RejectedStopsShort
    <2> SUFFICES ASSUME Init  PROVE AllHalt /\ RejectedStopsShort
        OBVIOUS
    <2>1. /\ \A c \in CRs : Idle(c) /\ cr[c].ready = None
          /\ \A t \in Things : obj[t] = Absent
        BY DEF Init, Idle
    <2>2. \A t \in Things, c \in CRs : obj[t].owner # c
        BY <2>1, AbsentHasNoOwner
    <2>3. QED BY <2>1, <2>2 DEF AllHalt, RejectedStopsShort
<1>2. ChildInv /\ (AllHalt /\ RejectedStopsShort) /\ [Next]_vars
          => (AllHalt /\ RejectedStopsShort)'
    BY HaltStep, ShortStep
<1>3. QED BY <1>1, <1>2, ChildInit, ChildStep, PTL DEF Spec

-----------------------------------------------------------------------------
(* When names are apart.                                                    *)

(* Two CRs have names that begin with different segments, as names without   *)
(* dashes do, or the same name and different kinds.  (The API server keeps  *)
(* the names of one kind distinct.)                                         *)
NamesPlain ==
    /\ \A c \in CRs : NameOf[c] # << >>
    /\ \A c, d \in CRs : c # d =>
           \/ NameOf[c][1] # NameOf[d][1]
           \/ NameOf[c] = NameOf[d] /\ KindOf[c] # KindOf[d]

LEMMA FirstSegment ==
    ASSUME NEW n \in Names, n # << >>, NEW x \in Suffixes
    PROVE  Append(n, x) \in Names /\ Append(n, x) # << >> /\ Append(n, x)[1] = n[1]
<1>1. n \in Seq(Segments) /\ x \in Segments
    BY DEF Names, Segments
<1>2. Len(n) \in Nat /\ Len(n) # 0
    BY <1>1, EmptySeq
<1>3. /\ Append(n, x) \in Seq(Segments) /\ Len(Append(n, x)) = Len(n) + 1
      /\ \A i \in 1..Len(n) : Append(n, x)[i] = n[i]
    BY <1>1, AppendProperties
<1>4. QED BY <1>2, <1>3, EmptySeq DEF Names

LEMMA ReachBegins ==
    ASSUME NEW c \in CRs, NameOf[c] # << >>, NEW t \in Reach(c)
    PROVE  t[2][1] = NameOf[c][1]
<1> DEFINE n == NameOf[c]
           m == Append(n, "main")
           h == Append(n, "webhook")
           k == Append(n, "worker")
           b == Append(n, "binary")
           here == {name \in Names : name # << >> /\ name[1] = n[1]}
<1>1. n \in here
    BY ConstantsOK
<1>2. Suffixes = {"main", "worker", "webhook", "redirect", "data", "nodes", "binary",
                  "encryption", "key"}
    BY DEF Suffixes
<1>3. ASSUME NEW name \in here, NEW x \in Suffixes  PROVE Append(name, x) \in here
    BY <1>3, FirstSegment
<1>4. /\ m \in here /\ h \in here /\ k \in here /\ b \in here
      /\ Append(n, "data") \in here /\ Append(n, "nodes") \in here
    BY <1>1, <1>2, <1>3
<1>5. /\ Append(b, "data") \in here /\ Append(m, "data") \in here
      /\ Redirect(n) \in here /\ Redirect(m) \in here /\ Redirect(h) \in here
    BY <1>1, <1>2, <1>3, <1>4 DEF Redirect
<1> DEFINE kinds == {"PVC", "Deployment", "Service", "Ingress", "HPA", "HTTPRoute",
                     "DestinationRule"}
           there == kinds \X here
<1>6. \A x \in here :
          /\ <<"PVC", x>> \in there /\ <<"Deployment", x>> \in there /\ <<"Service", x>> \in there
          /\ <<"Ingress", x>> \in there /\ <<"HPA", x>> \in there
          /\ <<"HTTPRoute", x>> \in there /\ <<"DestinationRule", x>> \in there
    <2> HIDE DEF here
    <2>1. QED OBVIOUS
<1>7. \A u \in there : u[2][1] = n[1]
    <2>1. \A x \in here : x[1] = n[1]
        OBVIOUS
    <2> HIDE DEF here, kinds
    <2>2. QED BY <2>1
<1> HIDE DEF here, there
<1>8. ASSUME NEW x \in here, Redirect(x) \in here  PROVE RoleThings(x) \subseteq there
    BY <1>6, <1>8 DEF RoleThings, Exposure, Routes
<1>9. RoleThings(n) \subseteq there /\ RoleThings(m) \subseteq there /\ RoleThings(h) \subseteq there
    BY <1>1, <1>4, <1>5, <1>8
<1>10. SharedVolumes(n) \subseteq there
    BY <1>4, <1>5, <1>6 DEF SharedVolumes, BinaryData
<1>11. Reach(c) = IF KindOf[c] = "Single"
                  THEN RoleThings(n) \union {<<"PVC", Append(n, "data")>>}
                  ELSE UNION { RoleThings(m), RoleThings(h),
                               {<<"Deployment", k>>, <<"HPA", k>>}, {<<"DestinationRule", m>>},
                               SharedVolumes(n), {<<"PVC", Append(m, "data")>>} }
    BY DEF Reach
<1> HIDE DEF m, h, k, b
<1>12. t \in there
    <2>1. CASE KindOf[c] = "Single"
        <3>1. <<"PVC", Append(n, "data")>> \in there
            BY <1>4, <1>6
        <3>2. QED BY <1>9, <1>11, <2>1, <3>1
    <2>2. CASE KindOf[c] # "Single"
        <3>1. /\ <<"Deployment", k>> \in there /\ <<"HPA", k>> \in there
              /\ <<"DestinationRule", m>> \in there /\ <<"PVC", Append(m, "data")>> \in there
            BY <1>4, <1>5, <1>6
        <3>2. QED BY <1>9, <1>10, <1>11, <2>2, <3>1
    <2>3. QED BY <2>1, <2>2
<1>13. QED BY <1>7, <1>12

LEMMA KindsApart ==
    ASSUME NEW c \in CRs, NEW d \in CRs, NameOf[c] = NameOf[d],
           KindOf[c] = "Single", KindOf[d] = "Cluster"
    PROVE  Reach(c) \intersect Reach(d) = {}
<1> DEFINE n == NameOf[c]
           m == Append(n, "main")
           h == Append(n, "webhook")
           k == Append(n, "worker")
           b == Append(n, "binary")
<1>1. n \in Names
    BY ConstantsOK
<1>2. {"main", "webhook", "redirect", "data", "nodes", "binary"} \subseteq Suffixes
    BY DEF Suffixes
<1>3. ASSUME NEW name \in Names, NEW x \in Suffixes
      PROVE  Append(name, x) \in Names /\ Append(name, x) # name /\ Len(Append(name, x)) > Len(name)
    <2>1. name \in Seq(Segments) /\ x \in Segments /\ Len(name) \in Nat
        BY DEF Names, Segments
    <2>2. Append(name, x) \in Seq(Segments) /\ Len(Append(name, x)) = Len(name) + 1
        BY <2>1, AppendProperties
    <2>3. QED BY <2>1, <2>2 DEF Names
<1>4. /\ \A name, other \in Names, x, y \in Suffixes : x # y => Append(name, x) # Append(other, y)
      /\ \A name, other \in Names, x \in Suffixes :
             name # other => Append(name, x) # Append(other, x)
    <2>1. ASSUME NEW name \in Names, NEW x \in Suffixes, NEW other \in Names, NEW y \in Suffixes,
                 x # y
          PROVE  Append(name, x) # Append(other, y)
        BY <2>1, NamesGrow
    <2>2. ASSUME NEW name \in Names, NEW x \in Suffixes, NEW other \in Names, name # other
          PROVE  Append(name, x) # Append(other, x)
        BY <2>2, NamesGrow
    <2>3. QED BY <2>1, <2>2
<1>5. m \in Names /\ h \in Names /\ b \in Names /\ m # n /\ h # n /\ b # n
    BY <1>1, <1>2, <1>3
<1>6. n # Redirect(m) /\ n # Redirect(h)
    <2>1. /\ Len(n) \in Nat /\ Len(m) \in Nat /\ Len(h) \in Nat
          /\ Len(Redirect(m)) \in Nat /\ Len(Redirect(h)) \in Nat
        BY <1>1, <1>5, RedirectIsName DEF Names
    <2>2. Len(m) > Len(n) /\ Len(h) > Len(n) /\ Len(Redirect(m)) > Len(m) /\ Len(Redirect(h)) > Len(h)
        BY <1>1, <1>2, <1>3, <1>5 DEF Redirect
    <2>3. QED BY <2>1, <2>2
<1>7. /\ Redirect(n) # m /\ Redirect(n) # h /\ Redirect(n) # Redirect(m) /\ Redirect(n) # Redirect(h)
    BY <1>1, <1>2, <1>4, <1>5 DEF Redirect
<1>8. /\ Append(n, "data") # Append(n, "nodes") /\ Append(n, "data") # Append(b, "data")
      /\ Append(n, "data") # Append(m, "data")
    BY <1>1, <1>2, <1>4, <1>5
<1>9. /\ Reach(c) = RoleThings(n) \union {<<"PVC", Append(n, "data")>>}
      /\ Reach(d) = UNION { RoleThings(m), RoleThings(h),
                            {<<"Deployment", k>>, <<"HPA", k>>}, {<<"DestinationRule", m>>},
                            {<<"PVC", Append(n, "nodes")>>, <<"PVC", Append(b, "data")>>},
                            {<<"PVC", Append(m, "data")>>} }
    BY DEF Reach, SharedVolumes, BinaryData
<1>10. k # n
    <2>1. "worker" \in Suffixes
        BY DEF Suffixes
    <2>2. QED BY <1>1, <1>3, <2>1
<1> HIDE DEF n, m, h, k, b
<1>11. /\ RoleThings(n) \intersect RoleThings(m) = {} /\ RoleThings(n) \intersect RoleThings(h) = {}
    BY <1>5, <1>6, <1>7 DEF RoleThings, Exposure, Routes
<1>12. /\ <<"Deployment", k>> \notin RoleThings(n) /\ <<"HPA", k>> \notin RoleThings(n)
       /\ <<"DestinationRule", m>> \notin RoleThings(n)
       /\ \A x : <<"PVC", x>> \notin RoleThings(n) /\ <<"PVC", x>> \notin RoleThings(m)
                 /\ <<"PVC", x>> \notin RoleThings(h)
    BY <1>10 DEF RoleThings, Exposure, Routes
<1>13. QED BY <1>8, <1>9, <1>11, <1>12

(* The names the operator makes of the names of CRs are apart as long as no  *)
(* CR's name begins like another's (each appends only to the end of a name,  *)
(* a Single's and a Cluster's of one name differ in what they append).      *)
THEOREM PlainNamesApart == NamesPlain => NamesApart
<1> SUFFICES ASSUME NamesPlain, NEW c \in CRs, NEW d \in CRs, c # d
             PROVE  Reach(c) \intersect Reach(d) = {}
    BY DEF NamesApart
<1>1. CASE NameOf[c][1] # NameOf[d][1]
    BY <1>1, ReachBegins DEF NamesPlain
<1>2. CASE NameOf[c] = NameOf[d] /\ KindOf[c] # KindOf[d]
    <2>1. KindOf[c] \in {"Single", "Cluster"} /\ KindOf[d] \in {"Single", "Cluster"}
        BY ConstantsOK
    <2>2. QED BY <1>2, <2>1, KindsApart
<1>3. QED BY <1>1, <1>2 DEF NamesPlain
=============================================================================
