------------------------- MODULE ContainerEnvProofs -------------------------
(***************************************************************************)
(* For every set of specs: build_user_env never yields two entries of one  *)
(* name, whatever the layers hold; each entry is that of the highest layer *)
(* that sets its name; WEBHOOK_URL is the same for all roles; and no name  *)
(* is set by the user and the operator, but for those that validation      *)
(* forgets.                                                                *)
(***************************************************************************)
EXTENDS ContainerEnv, SequenceTheorems, TLAPS

(* What the loop of build_user_env keeps: the names in order are distinct   *)
(* and are the keys of latest, and latest[n] is an entry of name n.         *)
LoopInv ==
    /\ order \in Seq(DOMAIN latest)
    /\ \A i, j \in DOMAIN order : order[i] = order[j] => i = j
    /\ \A n \in DOMAIN latest : latest[n].name = n
    /\ \A i \in DOMAIN order : order[i] \in DOMAIN latest
    /\ \A n \in DOMAIN latest : \E i \in DOMAIN order : order[i] = n

EnvInv == LoopInv /\ UserEnvUnique

(* A fresh start of the loop satisfies its invariant.                       *)
LEMMA StartKeepsLoop ==
    ASSUME order' = << >>, latest' = << >>
    PROVE  LoopInv'
<1>1. DOMAIN latest' = {} /\ DOMAIN order' = {}
  OBVIOUS
<1>2. order' \in Seq(DOMAIN latest')
  OBVIOUS
<1> QED BY <1>1, <1>2 DEF LoopInv

(* One round of the loop keeps it.                                          *)
LEMMA MergeKeepsLoop ==
    ASSUME LoopInv, Merge
    PROVE  LoopInv'
<1> DEFINE e == layered[next]
<1>1. /\ order' = IF e.name \in DOMAIN latest THEN order ELSE Append(order, e.name)
      /\ latest' = [z \in DOMAIN latest \union {e.name} |-> IF z = e.name THEN e ELSE latest[z]]
  BY DEF Merge, Extend
<1>2. DOMAIN latest' = DOMAIN latest \union {e.name}
  BY <1>1
<1>3. \A n \in DOMAIN latest' : latest'[n].name = n
  BY <1>1, <1>2 DEF LoopInv
<1>4. CASE e.name \in DOMAIN latest
  <2>1. DOMAIN latest' = DOMAIN latest /\ order' = order
    BY <1>1, <1>2, <1>4
  <2> QED BY <1>3, <2>1 DEF LoopInv
<1>5. CASE e.name \notin DOMAIN latest
  <2> DEFINE S == DOMAIN latest \union {e.name}
  <2> HIDE DEF e
  <2>1. order' = Append(order, e.name) /\ order \in Seq(S)
    BY <1>1, <1>5 DEF LoopInv
  <2>2. /\ order' \in Seq(S) /\ Len(order) \in Nat /\ DOMAIN order = 1..Len(order)
        /\ DOMAIN order' = 1..Len(order) + 1
        /\ \A i \in 1..Len(order) : order'[i] = order[i]
        /\ order'[Len(order) + 1] = e.name
    BY <2>1
  <2>3. \A i \in 1..Len(order) : order[i] # e.name
    BY <2>2, <1>5 DEF LoopInv
  <2>4. \A i, j \in DOMAIN order' : order'[i] = order'[j] => i = j
    BY <2>2, <2>3 DEF LoopInv
  <2>5. \A i \in DOMAIN order' : order'[i] \in DOMAIN latest'
    BY <2>2, <1>2 DEF LoopInv
  <2>6. \A n \in DOMAIN latest' : \E i \in DOMAIN order' : order'[i] = n
    BY <2>2, <1>2 DEF LoopInv
  <2> QED BY <1>2, <1>3, <2>2, <2>4, <2>5, <2>6 DEF LoopInv
<1> QED BY <1>4, <1>5

(* Rendering the names in order yields one entry for each.                  *)
LEMMA RenderKeepsUnique ==
    ASSUME EnvInv, Render
    PROVE  UserEnvUnique'
<1> DEFINE u == [i \in DOMAIN order |-> latest[order[i]]]
<1>1. container' = [z \in DOMAIN container \union {role} |->
                      IF z = role THEN [wired |-> Wired(spec, role), user |-> u]
                      ELSE container[z]]
  BY DEF Render, Extend
<1>2. \A i, j \in DOMAIN u : u[i].name = u[j].name => i = j
  BY DEF EnvInv, LoopInv
<1> HIDE DEF u
<1>3. SUFFICES ASSUME NEW r \in DOMAIN container',
                      NEW i \in DOMAIN container'[r].user, NEW j \in DOMAIN container'[r].user,
                      container'[r].user[i].name = container'[r].user[j].name
               PROVE  i = j
  BY DEF UserEnvUnique
<1>4. CASE r = role
  <2>1. container'[r].user = u
    BY <1>1, <1>4
  <2> QED BY <1>2, <1>3, <2>1
<1>5. CASE r # role
  <2>1. r \in DOMAIN container /\ container'[r] = container[r]
    BY <1>1, <1>3, <1>5
  <2> QED BY <1>3, <2>1 DEF EnvInv, UserEnvUnique
<1> QED BY <1>4, <1>5

LEMMA EnvInductive == Spec => []EnvInv
<1>1. Init => EnvInv
  <2> SUFFICES ASSUME Init PROVE EnvInv
    OBVIOUS
  <2>1. order = << >> /\ latest = << >> /\ container = << >>
    BY DEF Init
  <2>2. DOMAIN order = {} /\ DOMAIN latest = {} /\ DOMAIN container = {}
    BY <2>1
  <2>3. order \in Seq(DOMAIN latest)
    BY <2>1
  <2> QED BY <2>2, <2>3 DEF EnvInv, LoopInv, UserEnvUnique
<1>2. EnvInv /\ [Next]_vars => EnvInv'
  <2> SUFFICES ASSUME EnvInv, [Next]_vars PROVE EnvInv'
    OBVIOUS
  <2>1. CASE Validate
    <3>1. container' = container
      BY <2>1 DEF Validate
    <3>2. LoopInv'
      <4>1. CASE ValidateExtra(spec)
        <5>1. order' = << >> /\ latest' = << >>
          BY <2>1, <4>1 DEF Validate, StartRole
        <5> QED BY <5>1, StartKeepsLoop
      <4>2. CASE ~ValidateExtra(spec)
        BY <2>1, <4>2 DEF Validate, loopVars, EnvInv, LoopInv
      <4> QED BY <4>1, <4>2
    <3> QED BY <3>1, <3>2 DEF EnvInv, UserEnvUnique
  <2>2. CASE Merge
    <3>1. container' = container
      BY <2>2 DEF Merge
    <3>2. LoopInv'
      BY <2>2, MergeKeepsLoop DEF EnvInv
    <3> QED BY <3>1, <3>2 DEF EnvInv, UserEnvUnique
  <2>3. CASE Render
    <3>1. LoopInv'
      <4>1. CASE Successor(spec, role) = "done"
        BY <2>3, <4>1 DEF Render, loopVars, EnvInv, LoopInv
      <4>2. CASE Successor(spec, role) # "done"
        <5>1. order' = << >> /\ latest' = << >>
          BY <2>3, <4>2 DEF Render, StartRole
        <5> QED BY <5>1, StartKeepsLoop
      <4> QED BY <4>1, <4>2
    <3> QED BY <2>3, <3>1, RenderKeepsUnique DEF EnvInv
  <2>4. CASE UNCHANGED vars
    BY <2>4 DEF vars, EnvInv, LoopInv, UserEnvUnique
  <2> QED BY <2>1, <2>2, <2>3, <2>4 DEF Next
<1> QED BY <1>1, <1>2, PTL DEF Spec

(* Whatever the layers hold, a container's user environment has one entry   *)
(* per name (env/mod.rs:26-33).                                             *)
THEOREM UserEnvHasNoDuplicates == Spec => []UserEnvUnique
<1>1. EnvInv => UserEnvUnique
  BY DEF EnvInv
<1> QED BY <1>1, EnvInductive, PTL

-----------------------------------------------------------------------------
(* Lists of entries: what a concatenation sets, and which entry is the last *)
(* of its name.                                                             *)
Entries(env) == {env[i] : i \in DOMAIN env}
IsList(env) == env \in Seq(Entries(env))
NamesOf(env) == {env[i].name : i \in DOMAIN env}
IsLast(env, n, i) ==
    /\ i \in DOMAIN env /\ env[i].name = n
    /\ \A j \in DOMAIN env : env[j].name = n => j <= i
AllDiffer(env) == \A i, j \in DOMAIN env : env[i].name = env[j].name => i = j

LEMMA ListFacts ==
  ASSUME NEW a, IsList(a)
  PROVE  Len(a) \in Nat /\ DOMAIN a = 1..Len(a)
BY DEF IsList

LEMMA SeqIsList ==
  ASSUME NEW S, NEW a \in Seq(S)
  PROVE  IsList(a)
<1>1. Len(a) \in Nat /\ DOMAIN a = 1..Len(a)
  OBVIOUS
<1>2. \A i \in 1..Len(a) : a[i] \in Entries(a)
  BY <1>1 DEF Entries
<1>. QED
  BY <1>1, <1>2 DEF IsList

LEMMA Joined ==
  ASSUME NEW a, NEW b, IsList(a), IsList(b)
  PROVE  /\ IsList(a \o b)
         /\ Len(a \o b) = Len(a) + Len(b)
         /\ DOMAIN (a \o b) = 1..(Len(a) + Len(b))
         /\ \A i \in DOMAIN a : (a \o b)[i] = a[i]
         /\ \A i \in DOMAIN b : (a \o b)[Len(a) + i] = b[i]
         /\ \A i \in DOMAIN (a \o b) :
               \/ i \in DOMAIN a
               \/ \E k \in DOMAIN b : i = Len(a) + k
<1>. DEFINE S == Entries(a) \union Entries(b)
<1>1. a \in Seq(S) /\ b \in Seq(S)
  <2>1. \A i \in DOMAIN a : a[i] \in S
    BY DEF Entries
  <2>2. \A i \in DOMAIN b : b[i] \in S
    BY DEF Entries
  <2>. HIDE DEF S
  <2>. QED
    BY <2>1, <2>2 DEF IsList
<1>. HIDE DEF S
<1>2. a \o b \in Seq(S)
  BY <1>1
<1>3. IsList(a \o b)
  BY <1>2, SeqIsList
<1>4. /\ Len(a) \in Nat /\ DOMAIN a = 1..Len(a)
      /\ Len(b) \in Nat /\ DOMAIN b = 1..Len(b)
  BY <1>1
<1>5. Len(a \o b) = Len(a) + Len(b) /\ DOMAIN (a \o b) = 1..(Len(a) + Len(b))
  BY <1>1
<1>6. \A i \in DOMAIN a : (a \o b)[i] = a[i]
  BY <1>1, <1>4
<1>7. \A i \in DOMAIN b : (a \o b)[Len(a) + i] = b[i]
  BY <1>1, <1>4
<1>8. ASSUME NEW i \in DOMAIN (a \o b), i \notin DOMAIN a
      PROVE  \E k \in DOMAIN b : i = Len(a) + k
  <2>1. i - Len(a) \in DOMAIN b /\ i = Len(a) + (i - Len(a))
    BY <1>4, <1>5, <1>8
  <2>. QED
    BY <2>1
<1>. QED
  BY <1>3, <1>5, <1>6, <1>7, <1>8

LEMMA JoinedNames ==
  ASSUME NEW a, NEW b, IsList(a), IsList(b)
  PROVE  IsList(a \o b) /\ NamesOf(a \o b) = NamesOf(a) \union NamesOf(b)
<1>1. NamesOf(a \o b) \subseteq NamesOf(a) \union NamesOf(b)
  BY Joined DEF NamesOf
<1>2. ASSUME NEW i \in DOMAIN a PROVE a[i].name \in NamesOf(a \o b)
  <2>1. i \in DOMAIN (a \o b) /\ (a \o b)[i] = a[i]
    BY <1>2, Joined, ListFacts
  <2>. QED
    BY <2>1 DEF NamesOf
<1>3. ASSUME NEW i \in DOMAIN b PROVE b[i].name \in NamesOf(a \o b)
  <2>1. Len(a) + i \in DOMAIN (a \o b) /\ (a \o b)[Len(a) + i] = b[i]
    BY <1>3, Joined, ListFacts
  <2>. QED
    BY <2>1 DEF NamesOf
<1>. QED
  BY <1>1, <1>2, <1>3, Joined DEF NamesOf

LEMMA JoinedAt ==
  ASSUME NEW a, NEW b, IsList(a), IsList(b), NEW k \in DOMAIN (a \o b)
  PROVE  \/ k \in DOMAIN a /\ (a \o b)[k] = a[k]
         \/ \E l \in DOMAIN b : k = Len(a) + l /\ (a \o b)[k] = b[l]
<1>1. ASSUME k \in DOMAIN a PROVE (a \o b)[k] = a[k]
  BY <1>1, Joined, ListFacts
<1>2. ASSUME NEW l \in DOMAIN b, k = Len(a) + l PROVE (a \o b)[k] = b[l]
  BY <1>2, Joined, ListFacts
<1>. QED
  BY <1>1, <1>2, Joined

LEMMA JoinedDiffer ==
  ASSUME NEW a, NEW b, IsList(a), IsList(b), AllDiffer(a), AllDiffer(b),
         NamesOf(a) \cap NamesOf(b) = {}
  PROVE  AllDiffer(a \o b)
<1>. SUFFICES ASSUME NEW i \in DOMAIN (a \o b), NEW j \in DOMAIN (a \o b),
                     (a \o b)[i].name = (a \o b)[j].name
              PROVE  i = j
  BY DEF AllDiffer
<1>1. \A k \in DOMAIN (a \o b) :
         \/ k \in DOMAIN a /\ (a \o b)[k] = a[k]
         \/ \E l \in DOMAIN b : k = Len(a) + l /\ (a \o b)[k] = b[l]
  BY JoinedAt
<1>2. ASSUME NEW k \in DOMAIN a, NEW l \in DOMAIN b, a[k].name = b[l].name
      PROVE  FALSE
  BY <1>2 DEF NamesOf
<1>3. CASE i \in DOMAIN a /\ (a \o b)[i] = a[i]
  <2>1. CASE j \in DOMAIN a /\ (a \o b)[j] = a[j]
    BY <1>3, <2>1 DEF AllDiffer
  <2>. QED
    BY <1>1, <1>2, <1>3, <2>1
<1>4. ASSUME NEW k \in DOMAIN b, i = Len(a) + k, (a \o b)[i] = b[k]
      PROVE  i = j
  <2>1. ~(j \in DOMAIN a /\ (a \o b)[j] = a[j])
    BY <1>2, <1>4
  <2>2. PICK l \in DOMAIN b : j = Len(a) + l /\ (a \o b)[j] = b[l]
    BY <1>1, <2>1
  <2>3. b[k].name = b[l].name
    BY <1>4, <2>2
  <2>. QED
    BY <1>4, <2>2, <2>3 DEF AllDiffer
<1>. QED
  BY <1>1, <1>3, <1>4

LEMMA JoinedLast ==
  ASSUME NEW a, NEW b, IsList(a), IsList(b), NEW n, NEW i, IsLast(a \o b, n, i)
  PROVE  IF n \in NamesOf(b)
         THEN \E k \in DOMAIN b : IsLast(b, n, k) /\ (a \o b)[i] = b[k]
         ELSE IsLast(a, n, i) /\ (a \o b)[i] = a[i]
<1>1. /\ Len(a) \in Nat /\ DOMAIN a = 1..Len(a)
      /\ Len(b) \in Nat /\ DOMAIN b = 1..Len(b)
  BY ListFacts
<1>2. ASSUME NEW l \in DOMAIN b, b[l].name = n
      PROVE  Len(a) + l <= i
  <2>1. Len(a) + l \in DOMAIN (a \o b) /\ (a \o b)[Len(a) + l] = b[l]
    BY <1>1, Joined
  <2>. QED
    BY <1>2, <2>1 DEF IsLast
<1>3. CASE n \in NamesOf(b)
  <2>1. PICK l \in DOMAIN b : b[l].name = n
    BY <1>3 DEF NamesOf
  <2>2. i \notin DOMAIN a
    BY <1>1, <1>2, <2>1
  <2>3. PICK k \in DOMAIN b : i = Len(a) + k
    BY <2>2, Joined DEF IsLast
  <2>4. (a \o b)[i] = b[k] /\ b[k].name = n
    BY <2>3, Joined DEF IsLast
  <2>5. \A j \in DOMAIN b : b[j].name = n => j <= k
    BY <1>1, <1>2, <2>3
  <2>. QED
    BY <1>3, <2>4, <2>5 DEF IsLast
<1>4. CASE n \notin NamesOf(b)
  <2>1. i \in DOMAIN a
    BY <1>4, Joined DEF IsLast, NamesOf
  <2>2. ASSUME NEW j \in DOMAIN a, a[j].name = n PROVE j <= i
    <3>1. j \in DOMAIN (a \o b) /\ (a \o b)[j] = a[j]
      BY <1>1, Joined
    <3>. QED
      BY <2>2, <3>1 DEF IsLast
  <2>. QED
    BY <1>4, <2>1, <2>2, Joined DEF IsLast
<1>. QED
  BY <1>3, <1>4

LEMMA LastIsLastIn ==
  ASSUME NEW a, IsList(a), NEW n, NEW i, IsLast(a, n, i)
  PROVE  n \in NamesOf(a) /\ Sets(a, n) # {} /\ LastIn(a, n) = a[i]
<1>1. i \in Sets(a, n) /\ \A j \in Sets(a, n) : j <= i
  BY DEF IsLast, Sets
<1>2. ASSUME NEW k \in Sets(a, n), \A j \in Sets(a, n) : j <= k
      PROVE  k = i
  <2>1. k \in Nat /\ i \in Nat
    BY <1>1, ListFacts DEF Sets
  <2>. QED
    BY <1>1, <1>2, <2>1
<1>3. (CHOOSE k \in Sets(a, n) : \A j \in Sets(a, n) : j <= k) = i
  BY <1>1, <1>2
<1>. QED
  BY <1>1, <1>3 DEF LastIn, Sets, NamesOf

LEMMA SetsNames ==
  ASSUME NEW a, NEW n
  PROVE  Sets(a, n) # {} <=> n \in NamesOf(a)
BY DEF Sets, NamesOf

-----------------------------------------------------------------------------
(* What the blocks that the operator contributes may set.                   *)
Block(env, names) == IsList(env) /\ NamesOf(env) \subseteq names

LEMMA NoEntry ==
  ASSUME NEW names
  PROVE  Block(<< >>, names) /\ AllDiffer(<< >>)
<1>1. << >> \in Seq({})
  OBVIOUS
<1>2. IsList(<< >>)
  BY <1>1, SeqIsList
<1>3. DOMAIN << >> = {}
  OBVIOUS
<1>. QED
  BY <1>2, <1>3 DEF Block, NamesOf, AllDiffer

LEMMA OneEntry ==
  ASSUME NEW n, NEW v
  PROVE  Block(<<Entry(n, v)>>, {n}) /\ AllDiffer(<<Entry(n, v)>>)
<1>1. <<Entry(n, v)>> \in Seq({Entry(n, v)})
  OBVIOUS
<1>2. IsList(<<Entry(n, v)>>)
  BY <1>1, SeqIsList
<1>. QED
  BY <1>2 DEF Block, NamesOf, AllDiffer, Entry

LEMMA TwoEntries ==
  ASSUME NEW m, NEW v, NEW n, NEW w
  PROVE  /\ Block(<<Entry(m, v), Entry(n, w)>>, {m, n})
         /\ m # n => AllDiffer(<<Entry(m, v), Entry(n, w)>>)
<1>1. <<Entry(m, v), Entry(n, w)>> \in Seq({Entry(m, v), Entry(n, w)})
  OBVIOUS
<1>2. IsList(<<Entry(m, v), Entry(n, w)>>)
  BY <1>1, SeqIsList
<1>. QED
  BY <1>2 DEF Block, NamesOf, AllDiffer, Entry

LEMMA ThreeEntries ==
  ASSUME NEW l, NEW u, NEW m, NEW v, NEW n, NEW w
  PROVE  /\ Block(<<Entry(l, u), Entry(m, v), Entry(n, w)>>, {l, m, n})
         /\ l # m /\ l # n /\ m # n => AllDiffer(<<Entry(l, u), Entry(m, v), Entry(n, w)>>)
<1>1. <<Entry(l, u), Entry(m, v), Entry(n, w)>> \in Seq({Entry(l, u), Entry(m, v), Entry(n, w)})
  OBVIOUS
<1>2. IsList(<<Entry(l, u), Entry(m, v), Entry(n, w)>>)
  BY <1>1, SeqIsList
<1>. QED
  BY <1>2 DEF Block, NamesOf, AllDiffer, Entry

LEMMA WhenBlock ==
  ASSUME NEW condition, NEW env, NEW names, Block(env, names), AllDiffer(env)
  PROVE  Block(When(condition, env), names) /\ AllDiffer(When(condition, env))
BY NoEntry DEF When

LEMMA GivenBlock ==
  ASSUME NEW n, NEW field
  PROVE  Block(Given(n, field), {n}) /\ AllDiffer(Given(n, field))
BY NoEntry, OneEntry DEF Given

LEMMA BlockJoin ==
  ASSUME NEW a, NEW A, NEW b, NEW B, Block(a, A), Block(b, B)
  PROVE  /\ Block(a \o b, A \union B)
         /\ A \cap B = {} /\ AllDiffer(a) /\ AllDiffer(b) => AllDiffer(a \o b)
<1>1. IsList(a \o b) /\ NamesOf(a \o b) = NamesOf(a) \union NamesOf(b)
  BY JoinedNames DEF Block
<1>2. A \cap B = {} => NamesOf(a) \cap NamesOf(b) = {}
  BY DEF Block
<1>. QED
  BY <1>1, <1>2, JoinedDiffer DEF Block

HostNames == {"N8N_HOST", "N8N_PROTOCOL", "N8N_EDITOR_BASE_URL"}
OtherNames == HostNames \union {"N8N_EMAIL_MODE", "N8N_SMTP_HOST", "N8N_LOG_LEVEL",
                                "N8N_COMMUNITY_PACKAGES",
                                "N8N_COMMUNITY_PACKAGES_MANAGED_BY_ENV"}
DefaultNames == OtherNames \union {"WEBHOOK_URL"}

LEMMA HostBlock ==
  ASSUME NEW host, NEW tls
  PROVE  Block(HostEnv(host, tls), HostNames)
<1>. DEFINE env == << Entry("N8N_HOST", host), Entry("N8N_PROTOCOL", Protocol(tls)),
                      Entry("N8N_EDITOR_BASE_URL", Url(tls, host)) >>
<1>1. Block(env, HostNames) /\ AllDiffer(env)
  BY ThreeEntries DEF HostNames
<1>2. HostEnv(host, tls) = When(host # None, env)
  BY DEF HostEnv
<1>. HIDE DEF env
<1>. QED
  BY <1>1, <1>2, WhenBlock

LEMMA SettingsBlock ==
  ASSUME NEW s
  PROVE  /\ Block(SmtpEnv(s), {"N8N_EMAIL_MODE", "N8N_SMTP_HOST"})
         /\ Block(LoggingEnv(s), {"N8N_LOG_LEVEL"})
         /\ Block(CommunityEnv(s), {"N8N_COMMUNITY_PACKAGES",
                                    "N8N_COMMUNITY_PACKAGES_MANAGED_BY_ENV"})
<1>1. Block(SmtpEnv(s), {"N8N_EMAIL_MODE", "N8N_SMTP_HOST"})
  BY TwoEntries, WhenBlock DEF SmtpEnv
<1>2. Block(LoggingEnv(s), {"N8N_LOG_LEVEL"})
  BY GivenBlock DEF LoggingEnv
<1>3. Block(CommunityEnv(s), {"N8N_COMMUNITY_PACKAGES", "N8N_COMMUNITY_PACKAGES_MANAGED_BY_ENV"})
  BY TwoEntries, WhenBlock DEF CommunityEnv, On
<1>. QED
  BY <1>1, <1>2, <1>3

LEMMA UrlBlock ==
  ASSUME NEW tls, NEW host
  PROVE  /\ Block(<<WebhookUrl(tls, host)>>, {"WEBHOOK_URL"})
         /\ Block(When(host # None, <<WebhookUrl(tls, host)>>), {"WEBHOOK_URL"})
<1>1. Block(<<WebhookUrl(tls, host)>>, {"WEBHOOK_URL"}) /\ AllDiffer(<<WebhookUrl(tls, host)>>)
  BY OneEntry DEF WebhookUrl
<1>. QED
  BY <1>1, WhenBlock

LEMMA ClusterUrlBlock ==
  ASSUME NEW s, NEW r
  PROVE  Block(ClusterWebhookUrl(s, r), {"WEBHOOK_URL"})
BY UrlBlock DEF ClusterWebhookUrl

(* The defaults of a Cluster's role without WEBHOOK_URL, which comes last.  *)
RoleDefaults(s, r) ==
    HostEnv(RoleHost(s, r), RoleTls(s, r))
    \o SmtpEnv(s) \o LoggingEnv(s) \o CommunityEnv(s)

LEMMA RoleDefaultsBlock ==
  ASSUME NEW s, NEW r
  PROVE  Block(RoleDefaults(s, r), OtherNames)
<1>. DEFINE h == HostEnv(RoleHost(s, r), RoleTls(s, r))
            two == {"N8N_EMAIL_MODE", "N8N_SMTP_HOST"}
            packages == {"N8N_COMMUNITY_PACKAGES", "N8N_COMMUNITY_PACKAGES_MANAGED_BY_ENV"}
<1>1. Block(h, HostNames) /\ Block(SmtpEnv(s), two) /\ Block(LoggingEnv(s), {"N8N_LOG_LEVEL"})
      /\ Block(CommunityEnv(s), packages)
  BY HostBlock, SettingsBlock
<1>2. RoleDefaults(s, r) = h \o SmtpEnv(s) \o LoggingEnv(s) \o CommunityEnv(s)
  BY DEF RoleDefaults
<1>3. OtherNames = HostNames \union two \union {"N8N_LOG_LEVEL"} \union packages
  BY DEF OtherNames
<1>. HIDE DEF h, two, packages
<1>4. Block(h \o SmtpEnv(s), HostNames \union two)
  BY <1>1, BlockJoin
<1>5. Block(h \o SmtpEnv(s) \o LoggingEnv(s), HostNames \union two \union {"N8N_LOG_LEVEL"})
  BY <1>1, <1>4, BlockJoin
<1>6. Block(h \o SmtpEnv(s) \o LoggingEnv(s) \o CommunityEnv(s),
            HostNames \union two \union {"N8N_LOG_LEVEL"} \union packages)
  BY <1>1, <1>5, BlockJoin
<1>. QED
  BY <1>2, <1>3, <1>6

LEMMA DefaultsBlock ==
  ASSUME NEW s, NEW r \in Roles
  PROVE  Block(Defaults(s, r), DefaultNames)
<1>1. CASE r = "single"
  <2>. DEFINE h == HostEnv(s.host, s.tls)
              url == When(s.host # None, <<WebhookUrl(s.tls, s.host)>>)
              two == {"N8N_EMAIL_MODE", "N8N_SMTP_HOST"}
  <2>1. Block(h, HostNames) /\ Block(url, {"WEBHOOK_URL"}) /\ Block(SmtpEnv(s), two)
        /\ Block(LoggingEnv(s), {"N8N_LOG_LEVEL"})
    BY HostBlock, UrlBlock, SettingsBlock
  <2>2. Defaults(s, r) = h \o url \o SmtpEnv(s) \o LoggingEnv(s)
    BY <1>1 DEF Defaults
  <2>3. HostNames \union {"WEBHOOK_URL"} \union two \union {"N8N_LOG_LEVEL"} \subseteq DefaultNames
    BY DEF DefaultNames, OtherNames
  <2>. HIDE DEF h, url, two
  <2>4. Block(h \o url, HostNames \union {"WEBHOOK_URL"})
    BY <2>1, BlockJoin
  <2>5. Block(h \o url \o SmtpEnv(s), HostNames \union {"WEBHOOK_URL"} \union two)
    BY <2>1, <2>4, BlockJoin
  <2>6. Block(h \o url \o SmtpEnv(s) \o LoggingEnv(s),
              HostNames \union {"WEBHOOK_URL"} \union two \union {"N8N_LOG_LEVEL"})
    BY <2>1, <2>5, BlockJoin
  <2>. QED
    BY <2>2, <2>3, <2>6 DEF Block
<1>2. CASE r # "single"
  <2>1. Defaults(s, r) = RoleDefaults(s, r) \o ClusterWebhookUrl(s, r)
    BY <1>2 DEF Defaults, RoleDefaults
  <2>2. Block(RoleDefaults(s, r), OtherNames) /\ Block(ClusterWebhookUrl(s, r), {"WEBHOOK_URL"})
    BY RoleDefaultsBlock, ClusterUrlBlock
  <2>. QED
    BY <2>1, <2>2, BlockJoin DEF DefaultNames
<1>. QED
  BY <1>1, <1>2

(* All that a container's user environment may set, and that it is a list.  *)
LEMMA LayersBlock ==
  ASSUME NEW s \in Inputs, NEW r \in Roles
  PROVE  /\ IsList(Defaults(s, r) \o Given("N8N_SECURE_COOKIE", s.secureCookie))
         /\ IsList(s.extraEnv) /\ IsList(s.roleExtra[r])
         /\ IsList(Defaults(s, r) \o Given("N8N_SECURE_COOKIE", s.secureCookie) \o s.extraEnv)
         /\ IsList(Layers(s, r))
         /\ NamesOf(Layers(s, r)) \subseteq DefaultNames \union {"N8N_SECURE_COOKIE"}
                                           \union NamesOf(s.extraEnv) \union NamesOf(s.roleExtra[r])
<1>. DEFINE own == Defaults(s, r) \o Given("N8N_SECURE_COOKIE", s.secureCookie)
<1>1. Block(own, DefaultNames \union {"N8N_SECURE_COOKIE"})
  BY DefaultsBlock, GivenBlock, BlockJoin
<1>2. s.extraEnv \in UserEnv /\ s.roleExtra[r] \in UserEnv
  BY InputsOK
<1>3. IsList(s.extraEnv) /\ IsList(s.roleExtra[r])
  BY <1>2, SeqIsList DEF UserEnv
<1>4. Layers(s, r) = own \o s.extraEnv \o s.roleExtra[r]
  BY DEF Layers
<1>. HIDE DEF own
<1>5. IsList(own) /\ NamesOf(own) \subseteq DefaultNames \union {"N8N_SECURE_COOKIE"}
  BY <1>1 DEF Block
<1>6. /\ IsList(own \o s.extraEnv)
      /\ NamesOf(own \o s.extraEnv) = NamesOf(own) \union NamesOf(s.extraEnv)
  BY <1>3, <1>5, JoinedNames
<1>7. /\ IsList(own \o s.extraEnv \o s.roleExtra[r])
      /\ NamesOf(own \o s.extraEnv \o s.roleExtra[r])
            = NamesOf(own \o s.extraEnv) \union NamesOf(s.roleExtra[r])
  BY <1>3, <1>6, JoinedNames
<1>8. /\ IsList(Layers(s, r))
      /\ NamesOf(Layers(s, r)) \subseteq DefaultNames \union {"N8N_SECURE_COOKIE"}
                                        \union NamesOf(s.extraEnv) \union NamesOf(s.roleExtra[r])
  BY <1>4, <1>5, <1>6, <1>7
<1>. QED
  BY <1>3, <1>5, <1>6, <1>8 DEF own

(* What the operator wires: names that validation reserves, and those that  *)
(* it forgets to (env/storage.rs, the key TTL of env/cluster.rs).           *)
Unreserved ==
    {"N8N_AVAILABLE_BINARY_DATA_MODES", "N8N_DEFAULT_BINARY_DATA_MODE",
     "N8N_EXTERNAL_STORAGE_S3_HOST", "N8N_STORAGE_PATH", "N8N_MULTI_MAIN_SETUP_KEY_TTL"}
WiredNames == ReservedEnv \union Unreserved

LEMMA StorageBlock ==
  ASSUME NEW s
  PROVE  /\ Block(BinaryDataEnv(s), Unreserved \ {"N8N_MULTI_MAIN_SETUP_KEY_TTL"})
         /\ AllDiffer(BinaryDataEnv(s))
<1>. DEFINE m == When(s.binaryData \in {"s3", "database"},
                      <<Entry("N8N_AVAILABLE_BINARY_DATA_MODES", "filesystem," \o s.binaryData)>>)
            d == When(s.binaryData # None,
                      <<Entry("N8N_DEFAULT_BINARY_DATA_MODE",
                              IF s.binaryData = "shared" THEN "filesystem" ELSE s.binaryData)>>)
            h == When(s.binaryData = "s3", <<Entry("N8N_EXTERNAL_STORAGE_S3_HOST", "s3")>>)
            p == When(s.binaryData = "shared",
                      <<Entry("N8N_STORAGE_PATH", "/home/node/binary-data")>>)
            M == {"N8N_AVAILABLE_BINARY_DATA_MODES"}
            D == {"N8N_DEFAULT_BINARY_DATA_MODE"}
            H == {"N8N_EXTERNAL_STORAGE_S3_HOST"}
            P == {"N8N_STORAGE_PATH"}
<1>1. /\ Block(m, M) /\ AllDiffer(m) /\ Block(d, D) /\ AllDiffer(d)
      /\ Block(h, H) /\ AllDiffer(h) /\ Block(p, P) /\ AllDiffer(p)
  BY OneEntry, WhenBlock
<1>2. BinaryDataEnv(s) = m \o d \o h \o p
  BY DEF BinaryDataEnv
<1>3. /\ M \cap D = {} /\ (M \union D) \cap H = {} /\ (M \union D \union H) \cap P = {}
      /\ M \union D \union H \union P = Unreserved \ {"N8N_MULTI_MAIN_SETUP_KEY_TTL"}
  BY DEF Unreserved
<1>. HIDE DEF m, d, h, p, M, D, H, P
<1>4. Block(m \o d, M \union D) /\ AllDiffer(m \o d)
  BY <1>1, <1>3, BlockJoin
<1>5. Block(m \o d \o h, M \union D \union H) /\ AllDiffer(m \o d \o h)
  BY <1>1, <1>3, <1>4, BlockJoin
<1>6. Block(m \o d \o h \o p, M \union D \union H \union P) /\ AllDiffer(m \o d \o h \o p)
  BY <1>1, <1>3, <1>5, BlockJoin
<1>. QED
  BY <1>2, <1>3, <1>6

CommonNames ==
    {"EXECUTIONS_MODE", "OFFLOAD_MANUAL_EXECUTIONS_TO_WORKERS", "N8N_ENCRYPTION_KEY",
     "DB_TYPE", "QUEUE_BULL_REDIS_HOST"} \union (Unreserved \ {"N8N_MULTI_MAIN_SETUP_KEY_TTL"})

LEMMA DatabaseBlock ==
  ASSUME NEW s
  PROVE  Block(DbEnv(s), {"DB_TYPE"}) /\ AllDiffer(DbEnv(s))
BY OneEntry, WhenBlock DEF DbEnv

LEMMA CommonBlock ==
  ASSUME NEW s
  PROVE  Block(CommonEnv(s), CommonNames) /\ AllDiffer(CommonEnv(s))
<1>. DEFINE q == << Entry("EXECUTIONS_MODE", "queue"), On("OFFLOAD_MANUAL_EXECUTIONS_TO_WORKERS"),
                    Entry("N8N_ENCRYPTION_KEY", "secret") >>
            v == <<Entry("QUEUE_BULL_REDIS_HOST", "redis")>>
            Q == {"EXECUTIONS_MODE", "OFFLOAD_MANUAL_EXECUTIONS_TO_WORKERS", "N8N_ENCRYPTION_KEY"}
            V == {"QUEUE_BULL_REDIS_HOST"}
            B == Unreserved \ {"N8N_MULTI_MAIN_SETUP_KEY_TTL"}
<1>1. Block(q, Q) /\ AllDiffer(q)
  BY ThreeEntries DEF On
<1>2. Block(v, V) /\ AllDiffer(v)
  BY OneEntry
<1>3. CommonEnv(s) = q \o DbEnv(s) \o v \o BinaryDataEnv(s)
  BY DEF CommonEnv
<1>4. /\ Q \cap {"DB_TYPE"} = {} /\ (Q \union {"DB_TYPE"}) \cap V = {}
      /\ (Q \union {"DB_TYPE"} \union V) \cap B = {}
      /\ Q \union {"DB_TYPE"} \union V \union B = CommonNames
  BY DEF CommonNames, Unreserved
<1>5. Block(BinaryDataEnv(s), B) /\ AllDiffer(BinaryDataEnv(s))
  BY StorageBlock
<1>. HIDE DEF q, v, Q, V, B
<1>6. Block(q \o DbEnv(s), Q \union {"DB_TYPE"}) /\ AllDiffer(q \o DbEnv(s))
  BY <1>1, <1>4, DatabaseBlock, BlockJoin
<1>7. Block(q \o DbEnv(s) \o v, Q \union {"DB_TYPE"} \union V) /\ AllDiffer(q \o DbEnv(s) \o v)
  BY <1>2, <1>4, <1>6, BlockJoin
<1>8. /\ Block(q \o DbEnv(s) \o v \o BinaryDataEnv(s), Q \union {"DB_TYPE"} \union V \union B)
      /\ AllDiffer(q \o DbEnv(s) \o v \o BinaryDataEnv(s))
  BY <1>4, <1>5, <1>7, BlockJoin
<1>. QED
  BY <1>3, <1>4, <1>8

(* What the operator wires for a role has no name twice, and no other names *)
(* than these.                                                              *)
LEMMA WiredBlock ==
  ASSUME NEW s, NEW r \in Roles
  PROVE  Block(Wired(s, r), WiredNames) /\ AllDiffer(Wired(s, r))
<1>1. CASE r = "single"
  <2>. DEFINE k == <<Entry("N8N_ENCRYPTION_KEY", "secret")>>
              K == {"N8N_ENCRYPTION_KEY"}
  <2>1. Block(k, K) /\ AllDiffer(k) /\ Wired(s, r) = k \o DbEnv(s)
    BY <1>1, OneEntry DEF Wired
  <2>2. K \cap {"DB_TYPE"} = {} /\ K \union {"DB_TYPE"} \subseteq WiredNames
    BY DEF WiredNames, ReservedEnv
  <2>. HIDE DEF k, K
  <2>3. Block(k \o DbEnv(s), K \union {"DB_TYPE"}) /\ AllDiffer(k \o DbEnv(s))
    BY <2>1, <2>2, DatabaseBlock, BlockJoin
  <2>. QED
    BY <2>1, <2>2, <2>3 DEF Block
<1>2. CASE r = "main"
  <2>. DEFINE on == <<On("N8N_MULTI_MAIN_SETUP_ENABLED")>>
              ttl == Given("N8N_MULTI_MAIN_SETUP_KEY_TTL", s.keyTtl)
              off == When(s.webhooks, <<On("N8N_DISABLE_PRODUCTION_MAIN_PROCESS")>>)
              O == {"N8N_MULTI_MAIN_SETUP_ENABLED"}
              T == {"N8N_MULTI_MAIN_SETUP_KEY_TTL"}
              F == {"N8N_DISABLE_PRODUCTION_MAIN_PROCESS"}
  <2>1. Block(on, O) /\ AllDiffer(on) /\ Block(off, F) /\ AllDiffer(off)
    BY OneEntry, WhenBlock DEF On
  <2>2. Block(ttl, T) /\ AllDiffer(ttl)
    BY GivenBlock
  <2>3. MultiMainEnv(s) = When(s.multiMain, on \o ttl)
    BY DEF MultiMainEnv
  <2>4. Wired(s, r) = CommonEnv(s) \o MultiMainEnv(s) \o off
    BY <1>2 DEF Wired
  <2>5. /\ O \cap T = {} /\ CommonNames \cap (O \union T) = {}
        /\ (CommonNames \union (O \union T)) \cap F = {}
        /\ CommonNames \union (O \union T) \union F \subseteq WiredNames
    BY DEF CommonNames, Unreserved, WiredNames, ReservedEnv
  <2>. HIDE DEF on, ttl, off, O, T, F
  <2>6. Block(on \o ttl, O \union T) /\ AllDiffer(on \o ttl)
    BY <2>1, <2>2, <2>5, BlockJoin
  <2>7. Block(MultiMainEnv(s), O \union T) /\ AllDiffer(MultiMainEnv(s))
    BY <2>3, <2>6, WhenBlock
  <2>8. /\ Block(CommonEnv(s) \o MultiMainEnv(s), CommonNames \union (O \union T))
        /\ AllDiffer(CommonEnv(s) \o MultiMainEnv(s))
    BY <2>5, <2>7, CommonBlock, BlockJoin
  <2>9. /\ Block(CommonEnv(s) \o MultiMainEnv(s) \o off, CommonNames \union (O \union T) \union F)
        /\ AllDiffer(CommonEnv(s) \o MultiMainEnv(s) \o off)
    BY <2>1, <2>5, <2>8, BlockJoin
  <2>. QED
    BY <2>4, <2>5, <2>9 DEF Block
<1>3. CASE r = "worker"
  <2>. DEFINE c == Given("N8N_CONCURRENCY_PRODUCTION_LIMIT", s.concurrency)
              a == <<On("QUEUE_HEALTH_CHECK_ACTIVE")>>
              C == {"N8N_CONCURRENCY_PRODUCTION_LIMIT"}
              A == {"QUEUE_HEALTH_CHECK_ACTIVE"}
  <2>1. Block(c, C) /\ AllDiffer(c) /\ Block(a, A) /\ AllDiffer(a)
    BY OneEntry, GivenBlock DEF On
  <2>2. Wired(s, r) = CommonEnv(s) \o c \o a
    BY <1>3 DEF Wired
  <2>3. CommonNames \cap C = {} /\ (CommonNames \union C) \cap A = {}
        /\ CommonNames \union C \union A \subseteq WiredNames
    BY DEF CommonNames, Unreserved, WiredNames, ReservedEnv
  <2>. HIDE DEF c, a, C, A
  <2>4. Block(CommonEnv(s) \o c, CommonNames \union C) /\ AllDiffer(CommonEnv(s) \o c)
    BY <2>1, <2>3, CommonBlock, BlockJoin
  <2>5. /\ Block(CommonEnv(s) \o c \o a, CommonNames \union C \union A)
        /\ AllDiffer(CommonEnv(s) \o c \o a)
    BY <2>1, <2>3, <2>4, BlockJoin
  <2>. QED
    BY <2>2, <2>3, <2>5 DEF Block
<1>4. CASE r = "webhook"
  <2>1. Wired(s, r) = CommonEnv(s)
    BY <1>4 DEF Wired
  <2>2. CommonNames \subseteq WiredNames
    BY DEF CommonNames, Unreserved, WiredNames, ReservedEnv
  <2>. QED
    BY <2>1, <2>2, CommonBlock DEF Block
<1>. QED
  BY <1>1, <1>2, <1>3, <1>4 DEF Roles

-----------------------------------------------------------------------------
(* The roles of a spec, and the order in which they are built.              *)
RolesIn(s) == {RolesOf(s)[i] : i \in DOMAIN RolesOf(s)}

LEMMA RoleList ==
  ASSUME NEW s \in Inputs
  PROVE  /\ RolesOf(s) \in Seq(Roles) /\ Len(RolesOf(s)) >= 1
         /\ RolesIn(s) \subseteq Roles /\ RolesOf(s)[1] \in RolesIn(s)
         /\ s.kind = "Single" => RolesIn(s) = {"single"}
         /\ s.kind = "Cluster" => "single" \notin RolesIn(s)
<1>1. s.kind \in {"Single", "Cluster"}
  BY InputsOK
<1>2. CASE s.kind = "Single"
  <2>1. RolesOf(s) = <<"single">>
    BY <1>2 DEF RolesOf
  <2>. QED
    BY <1>2, <2>1 DEF RolesIn, Roles
<1>3. CASE s.kind = "Cluster"
  <2>1. RolesOf(s) = <<"main", "worker">> \o When(s.webhooks, <<"webhook">>)
    BY <1>3 DEF RolesOf
  <2>. DEFINE l == <<"main", "worker">>
              t == When(s.webhooks, <<"webhook">>)
              S == {"main", "worker", "webhook"}
  <2>2. l \in Seq(S) /\ Len(l) = 2 /\ l[1] = "main"
    OBVIOUS
  <2>3. t \in Seq(S)
    <3>1. <<"webhook">> \in Seq(S)
      OBVIOUS
    <3>2. << >> \in Seq(S)
      BY EmptySeq
    <3>. HIDE DEF S
    <3>. QED
      BY <3>1, <3>2 DEF When
  <2>. HIDE DEF l, t, S
  <2>4. Len(t) \in Nat /\ RolesOf(s) \in Seq(S) /\ Len(RolesOf(s)) = 2 + Len(t)
    BY <2>1, <2>2, <2>3, ConcatProperties DEF l, t
  <2>5. RolesOf(s)[1] = "main"
    <3>1. 1 \in 1..(Len(l) + Len(t)) /\ 1 <= Len(l)
      BY <2>2, <2>4
    <3>2. (l \o t)[1] = l[1]
      BY <2>2, <2>3, <3>1, ConcatProperties
    <3>. QED
      BY <2>1, <2>2, <3>2 DEF l, t
  <2>6. DOMAIN RolesOf(s) = 1..Len(RolesOf(s)) /\ \A i \in DOMAIN RolesOf(s) : RolesOf(s)[i] \in S
    BY <2>4
  <2>7. RolesIn(s) \subseteq S /\ RolesOf(s)[1] \in RolesIn(s)
    BY <2>4, <2>6 DEF RolesIn
  <2>8. S \subseteq Roles /\ "single" \notin S
    BY DEF S, Roles
  <2>9. RolesOf(s) \in Seq(Roles)
    BY <2>4, <2>8
  <2>. QED
    BY <1>3, <2>4, <2>7, <2>8, <2>9
<1>. QED
  BY <1>1, <1>2, <1>3

LEMMA SuccessorIsRole ==
  ASSUME NEW s \in Inputs, NEW r \in RolesIn(s), Successor(s, r) # "done"
  PROVE  Successor(s, r) \in RolesIn(s)
<1>. DEFINE i == CHOOSE k \in DOMAIN RolesOf(s) : RolesOf(s)[k] = r
<1>1. i \in DOMAIN RolesOf(s)
  BY DEF RolesIn
<1>2. Successor(s, r) = IF i = Len(RolesOf(s)) THEN "done" ELSE RolesOf(s)[i + 1]
  BY DEF Successor
<1>. HIDE DEF i
<1>3. i # Len(RolesOf(s)) /\ Successor(s, r) = RolesOf(s)[i + 1]
  BY <1>2
<1>4. i + 1 \in DOMAIN RolesOf(s)
  BY <1>1, <1>3, RoleList
<1>. QED
  BY <1>3, <1>4 DEF RolesIn

(* Where the reconcile is: only legal specs get past validation, and only   *)
(* roles that the spec has are built.                                       *)
Stage ==
    /\ spec \in Inputs
    /\ role \in Roles => ValidateExtra(spec) /\ role \in RolesIn(spec)
    /\ DOMAIN container \subseteq RolesIn(spec)
    /\ DOMAIN container # {} => ValidateExtra(spec)

(* While a role is built, latest[n] is the last entry of name n that the    *)
(* loop has seen, and every name it has seen is a key of latest.            *)
Seen(n, k) ==
    /\ k \in 1..(next - 1) /\ layered[k].name = n
    /\ \A j \in 1..(next - 1) : layered[j].name = n => j <= k
LoopLast ==
    role \in Roles =>
        /\ layered = Layers(spec, role) /\ next \in 1..(Len(layered) + 1)
        /\ \A n \in DOMAIN latest : \E k \in 1..(next - 1) : Seen(n, k) /\ latest[n] = layered[k]
        /\ \A k \in 1..(next - 1) : layered[k].name \in DOMAIN latest

(* A finished environment holds what the operator wires, and of each name   *)
(* in the layers the last entry.                                            *)
LastOfLayers(r, e) ==
    \E k \in DOMAIN Layers(spec, r) :
        IsLast(Layers(spec, r), e.name, k) /\ e = Layers(spec, r)[k]
RenderedRole(r) ==
    LET u == container[r].user
    IN  /\ container[r].wired = Wired(spec, r)
        /\ IsList(u) /\ NamesOf(u) = NamesOf(Layers(spec, r))
        /\ \A i \in DOMAIN u : LastOfLayers(r, u[i])
Rendered == \A r \in DOMAIN container : RenderedRole(r)

BuildInv == Stage /\ LoopLast /\ Rendered

(* The loop begins anew.                                                    *)
LEMMA StartKeepsLast ==
  ASSUME Stage, NEW r \in RolesIn(spec), StartRole(r), spec' = spec
  PROVE  LoopLast'
<1>1. r \in Roles /\ spec \in Inputs
  BY RoleList DEF Stage
<1>2. IsList(Layers(spec, r))
  BY <1>1, LayersBlock
<1>3. /\ role' = r /\ layered' = Layers(spec', role') /\ next' = 1
      /\ DOMAIN latest' = {} /\ Len(layered') \in Nat
  BY <1>2, ListFacts DEF StartRole
<1>4. 1..(next' - 1) = {}
  BY <1>3
<1>. QED
  BY <1>3, <1>4 DEF LoopLast

(* One round of the loop.                                                   *)
LEMMA MergeKeepsLast ==
  ASSUME Stage, LoopLast, Merge
  PROVE  LoopLast'
<1>. DEFINE e == layered[next]
<1>1. /\ role \in Roles /\ layered = Layers(spec, role) /\ next \in 1..(Len(layered) + 1)
      /\ next <= Len(layered) /\ next' = next + 1 /\ spec' = spec /\ role' = role
      /\ layered' = layered
  BY DEF Merge, LoopLast
<1>2. Len(layered) \in Nat /\ next \in Nat
  BY <1>1, LayersBlock, ListFacts DEF Stage
<1>3. latest' = [z \in DOMAIN latest \union {e.name} |-> IF z = e.name THEN e ELSE latest[z]]
  BY DEF Merge, Extend
<1>. HIDE DEF e
<1>4. /\ DOMAIN latest' = DOMAIN latest \union {e.name} /\ latest'[e.name] = e
      /\ \A n \in DOMAIN latest : n # e.name => latest'[n] = latest[n]
  BY <1>3
<1>5. \A k : k \in 1..(next' - 1) <=> (k \in 1..(next - 1) \/ k = next)
  BY <1>1, <1>2
<1>6. next' \in 1..(Len(layered') + 1)
  BY <1>1, <1>2
<1>7. ASSUME NEW n \in DOMAIN latest'
      PROVE  \E k \in 1..(next' - 1) : Seen(n, k)' /\ latest'[n] = layered'[k]
  <2>1. CASE n = e.name
    <3>1. PICK k : k = next
      OBVIOUS
    <3>2. \A j \in 1..(next' - 1) : j <= k
      BY <1>1, <1>2, <3>1
    <3>3. Seen(n, k)'
      BY <1>1, <1>5, <2>1, <3>1, <3>2 DEF Seen, e
    <3>4. k \in 1..(next' - 1) /\ latest'[n] = layered'[k]
      BY <1>1, <1>4, <1>5, <2>1, <3>1 DEF e
    <3>. QED
      BY <3>3, <3>4
  <2>2. CASE n # e.name
    <3>1. n \in DOMAIN latest /\ latest'[n] = latest[n]
      BY <1>4, <2>2
    <3>2. PICK k \in 1..(next - 1) : Seen(n, k) /\ latest[n] = layered[k]
      BY <1>1, <3>1 DEF LoopLast
    <3>3. Seen(n, k)'
      BY <1>1, <1>5, <2>2, <3>2 DEF Seen, e
    <3>. QED
      BY <1>1, <1>5, <3>1, <3>2, <3>3
  <2>. QED
    BY <2>1, <2>2
<1>8. \A k \in 1..(next' - 1) : layered'[k].name \in DOMAIN latest'
  BY <1>1, <1>4, <1>5 DEF LoopLast, e
<1>. QED
  BY <1>1, <1>6, <1>7, <1>8 DEF LoopLast

(* What the loop ends with.                                                 *)
LEMMA LoopResult ==
  ASSUME Stage, LoopInv, LoopLast, role \in Roles, next > Len(layered)
  PROVE  LET u == [i \in DOMAIN order |-> latest[order[i]]]
         IN  /\ IsList(u) /\ NamesOf(u) = NamesOf(Layers(spec, role))
             /\ \A i \in DOMAIN u : LastOfLayers(role, u[i])
<1>. DEFINE u == [i \in DOMAIN order |-> latest[order[i]]]
            l == Layers(spec, role)
<1>1. layered = l /\ next \in 1..(Len(l) + 1)
  BY DEF LoopLast
<1>2. IsList(l) /\ Len(l) \in Nat /\ DOMAIN l = 1..Len(l)
  BY LayersBlock, ListFacts DEF Stage
<1>3. 1..(next - 1) = DOMAIN l
  <2>1. next = Len(l) + 1
    BY <1>1, <1>2
  <2>. QED
    BY <1>2, <2>1
<1>4. /\ Len(order) \in Nat /\ DOMAIN order = 1..Len(order)
      /\ \A i \in DOMAIN order : order[i] \in DOMAIN latest
      /\ \A n \in DOMAIN latest : latest[n].name = n
      /\ \A n \in DOMAIN latest : \E i \in DOMAIN order : order[i] = n
  BY DEF LoopInv
<1>. HIDE DEF l
<1>5. \A i \in DOMAIN u : u[i] = latest[order[i]] /\ u[i].name = order[i]
  BY <1>4
<1>6. DOMAIN u = 1..Len(order)
  BY <1>4
<1>. HIDE DEF u
<1>7. IsList(u)
  <2>1. \A i \in 1..Len(order) : u[i] \in Entries(u)
    BY <1>6 DEF Entries
  <2>2. u \in Seq(Entries(u))
    <3>1. u = [i \in 1..Len(order) |-> u[i]]
      BY <1>4 DEF u
    <3>. QED
      BY <1>4, <2>1, <3>1
  <2>. QED
    BY <2>2 DEF IsList
<1>8. ASSUME NEW i \in DOMAIN u
      PROVE  LastOfLayers(role, u[i]) /\ u[i].name \in NamesOf(l)
  <2>1. order[i] \in DOMAIN latest
    BY <1>4, <1>6
  <2>2. PICK k \in DOMAIN l : Seen(order[i], k) /\ latest[order[i]] = l[k]
    BY <1>1, <1>3, <2>1 DEF LoopLast
  <2>3. IsLast(l, u[i].name, k) /\ u[i] = l[k]
    BY <1>1, <1>3, <1>5, <2>2 DEF Seen, IsLast
  <2>. QED
    BY <2>3 DEF LastOfLayers, NamesOf, IsLast, l
<1>9. ASSUME NEW k \in DOMAIN l
      PROVE  l[k].name \in NamesOf(u)
  <2>1. l[k].name \in DOMAIN latest
    BY <1>1, <1>3 DEF LoopLast
  <2>2. PICK i \in DOMAIN order : order[i] = l[k].name
    BY <1>4, <2>1
  <2>3. i \in DOMAIN u /\ u[i].name = l[k].name
    BY <1>4, <1>5, <1>6, <2>2
  <2>. QED
    BY <2>3 DEF NamesOf
<1>10. NamesOf(u) = NamesOf(l)
  <2>1. NamesOf(u) \subseteq NamesOf(l)
    <3>. SUFFICES ASSUME NEW i \in DOMAIN u PROVE u[i].name \in NamesOf(l)
      BY DEF NamesOf
    <3>. QED
      BY <1>8
  <2>2. NamesOf(l) \subseteq NamesOf(u)
    <3>. SUFFICES ASSUME NEW k \in DOMAIN l PROVE l[k].name \in NamesOf(u)
      BY DEF NamesOf
    <3>. QED
      BY <1>9
  <2>. QED
    BY <2>1, <2>2
<1>. QED
  BY <1>7, <1>8, <1>10 DEF u, l

LEMMA BuildStep ==
  ASSUME EnvInv, BuildInv, [Next]_vars
  PROVE  BuildInv'
<1>1. CASE Validate
  <2>1. spec' = spec /\ container' = container
    BY <1>1 DEF Validate
  <2>2. CASE ValidateExtra(spec) /\ StartRole(RolesOf(spec)[1])
    <3>1. RolesOf(spec)[1] \in RolesIn(spec)
      BY RoleList DEF BuildInv, Stage
    <3>2. LoopLast'
      BY <2>1, <2>2, <3>1, StartKeepsLast DEF BuildInv
    <3>3. role' \in RolesIn(spec)
      BY <2>2, <3>1 DEF StartRole
    <3>4. Stage'
      BY <2>1, <2>2, <3>3 DEF BuildInv, Stage
    <3>. QED
      BY <2>1, <3>2, <3>4 DEF BuildInv, Rendered, RenderedRole, LastOfLayers
  <2>3. CASE role' = "rejected"
    <3>1. role' \notin Roles
      BY <2>3 DEF Roles
    <3>. QED
      BY <2>1, <3>1 DEF BuildInv, Stage, LoopLast, Rendered, RenderedRole, LastOfLayers
  <2>. QED
    BY <1>1, <2>2, <2>3 DEF Validate
<1>2. CASE Merge
  <2>1. LoopLast'
    BY <1>2, MergeKeepsLast DEF BuildInv
  <2>2. UNCHANGED <<spec, role, container>>
    BY <1>2 DEF Merge
  <2>3. Stage'
    BY <2>2 DEF BuildInv, Stage
  <2>4. Rendered'
    BY <2>2 DEF BuildInv, Rendered, RenderedRole, LastOfLayers
  <2>. QED
    BY <2>1, <2>3, <2>4 DEF BuildInv
<1>3. CASE Render
  <2>. DEFINE u == [i \in DOMAIN order |-> latest[order[i]]]
  <2>1. role \in Roles /\ next > Len(layered) /\ spec' = spec
    BY <1>3 DEF Render
  <2>2. /\ role \in RolesIn(spec) /\ ValidateExtra(spec) /\ spec \in Inputs
    BY <2>1 DEF BuildInv, Stage
  <2>3. container' = [z \in DOMAIN container \union {role} |->
                        IF z = role THEN [wired |-> Wired(spec, role), user |-> u]
                        ELSE container[z]]
    BY <1>3 DEF Render, Extend
  <2>4. /\ IsList(u) /\ NamesOf(u) = NamesOf(Layers(spec, role))
        /\ \A i \in DOMAIN u : LastOfLayers(role, u[i])
    BY <2>1, LoopResult DEF BuildInv, EnvInv
  <2>. HIDE DEF u
  <2>5. ASSUME NEW r \in DOMAIN container' PROVE RenderedRole(r)'
    <3>1. CASE r = role
      <4>1. container'[r].wired = Wired(spec, r) /\ container'[r].user = u
        BY <2>3, <3>1
      <4>. QED
        BY <2>1, <2>4, <3>1, <4>1 DEF RenderedRole, LastOfLayers
    <3>2. CASE r # role
      <4>1. r \in DOMAIN container /\ container'[r] = container[r]
        BY <2>3, <2>5, <3>2
      <4>2. RenderedRole(r)
        BY <4>1 DEF BuildInv, Rendered
      <4>. QED
        BY <2>1, <4>1, <4>2 DEF RenderedRole, LastOfLayers
    <3>. QED
      BY <3>1, <3>2
  <2>6. Rendered'
    BY <2>5 DEF Rendered
  <2>7. DOMAIN container' \subseteq RolesIn(spec')
    BY <2>1, <2>2, <2>3 DEF BuildInv, Stage
  <2>8. CASE Successor(spec, role) = "done"
    <3>1. role' = "done" /\ role' \notin Roles
      BY <1>3, <2>8 DEF Render, Roles
    <3>2. LoopLast'
      BY <3>1 DEF LoopLast
    <3>3. Stage'
      BY <2>1, <2>2, <2>7, <3>1 DEF Stage
    <3>. QED
      BY <2>6, <3>2, <3>3 DEF BuildInv
  <2>9. CASE Successor(spec, role) # "done"
    <3>1. StartRole(Successor(spec, role)) /\ Successor(spec, role) \in RolesIn(spec)
      BY <1>3, <2>2, <2>9, SuccessorIsRole DEF Render
    <3>2. LoopLast'
      BY <2>1, <3>1, StartKeepsLast DEF BuildInv
    <3>3. Stage'
      BY <2>1, <2>2, <2>7, <3>1 DEF Stage, StartRole
    <3>. QED
      BY <2>6, <3>2, <3>3 DEF BuildInv
  <2>. QED
    BY <2>8, <2>9
<1>4. CASE UNCHANGED vars
  <2>1. BuildInv
    OBVIOUS
  <2>. QED
    BY <1>4, <2>1 DEF vars, BuildInv, Stage, LoopLast, Seen, Rendered, RenderedRole, LastOfLayers
<1>. QED
  BY <1>1, <1>2, <1>3, <1>4 DEF Next

LEMMA BuildInductive == Spec => []BuildInv
<1>1. Init => BuildInv
  <2>. SUFFICES ASSUME Init PROVE BuildInv
    OBVIOUS
  <2>1. /\ spec \in Inputs /\ role \notin Roles /\ DOMAIN container = {}
    BY DEF Init, Roles
  <2>. QED
    BY <2>1 DEF BuildInv, Stage, LoopLast, Rendered
<1>2. BuildInv /\ EnvInv /\ [Next]_vars => BuildInv'
  BY BuildStep
<1>. QED
  BY <1>1, <1>2, EnvInductive, PTL DEF Spec

-----------------------------------------------------------------------------
(* Which entry of the layers is the last of its name.                       *)
Join(a, b) == a \o b

LEMMA LastOfJoin ==
  ASSUME NEW a, NEW b, IsList(a), IsList(b), NEW n, NEW k, IsLast(Join(a, b), n, k)
  PROVE  /\ n \in NamesOf(b) =>
               LastIn(b, n) = Join(a, b)[k] /\ \E j \in DOMAIN b : Join(a, b)[k] = b[j]
         /\ n \notin NamesOf(b) => IsLast(a, n, k) /\ Join(a, b)[k] = a[k]
<1>0. IF n \in NamesOf(b)
      THEN \E j \in DOMAIN b : IsLast(b, n, j) /\ (a \o b)[k] = b[j]
      ELSE IsLast(a, n, k) /\ (a \o b)[k] = a[k]
  <2>1. IsLast(a \o b, n, k)
    BY Zenon DEF Join
  <2>. QED
    BY <2>1, JoinedLast, Zenon
<1>1. CASE n \in NamesOf(b)
  <2>1. PICK j \in DOMAIN b : IsLast(b, n, j) /\ (a \o b)[k] = b[j]
    BY <1>0, <1>1, Zenon
  <2>2. LastIn(b, n) = b[j]
    BY <2>1, LastIsLastIn
  <2>. QED
    BY <1>1, <2>1, <2>2, Zenon DEF Join
<1>2. CASE n \notin NamesOf(b)
  <2>1. IsLast(a, n, k) /\ (a \o b)[k] = a[k]
    BY <1>0, <1>2, Zenon
  <2>. QED
    BY <1>2, <2>1, Zenon DEF Join
<1>. QED
  BY <1>1, <1>2

LEMMA LastOfFour ==
  ASSUME NEW d, NEW c, NEW x, NEW f, IsList(d), IsList(c), IsList(x), IsList(f),
         NEW n, NEW k, NEW l, l = Join(Join(Join(d, c), x), f), IsLast(l, n, k)
  PROVE  /\ n \in NamesOf(f) => l[k] = LastIn(f, n)
         /\ n \notin NamesOf(f) /\ n \in NamesOf(x) => l[k] = LastIn(x, n)
         /\ n \notin NamesOf(f) /\ n \notin NamesOf(x) /\ n \in NamesOf(c) =>
               \E j \in DOMAIN c : l[k] = c[j]
         /\ n \notin NamesOf(f) /\ n \notin NamesOf(x) /\ n \notin NamesOf(c) =>
               IsLast(d, n, k) /\ l[k] = d[k]
<1>. DEFINE dc == Join(d, c)
            dcx == Join(dc, x)
<1>1. l = Join(dcx, f)
  OBVIOUS
<1>2. IsList(dc) /\ IsList(dcx)
  <2>1. IsList(dc)
    BY Joined DEF Join
  <2>2. IsList(dcx)
    <3>. HIDE DEF dc
    <3>. QED
      BY <2>1, Joined DEF Join
  <2>. QED
    BY <2>1, <2>2
<1>3. /\ n \in NamesOf(f) => l[k] = LastIn(f, n)
      /\ n \notin NamesOf(f) => IsLast(dcx, n, k) /\ l[k] = dcx[k]
  <2>. HIDE DEF dcx
  <2>. QED
    BY <1>1, <1>2, LastOfJoin
<1>. HIDE DEF dcx
<1>4. IsLast(dcx, n, k) =>
        /\ n \in NamesOf(x) => dcx[k] = LastIn(x, n)
        /\ n \notin NamesOf(x) => IsLast(dc, n, k) /\ dcx[k] = dc[k]
  <2>. HIDE DEF dc
  <2>. QED
    BY <1>2, LastOfJoin DEF dcx
<1>. HIDE DEF dc
<1>5. IsLast(dc, n, k) =>
        /\ n \in NamesOf(c) => \E j \in DOMAIN c : dc[k] = c[j]
        /\ n \notin NamesOf(c) => IsLast(d, n, k) /\ dc[k] = d[k]
  BY LastOfJoin DEF dc
<1>. QED
  BY <1>3, <1>4, <1>5

LEMMA LastLayer ==
  ASSUME NEW s \in Inputs, NEW r \in Roles, NEW n, NEW k, IsLast(Layers(s, r), n, k)
  PROVE  /\ n \in NamesOf(s.roleExtra[r]) => Layers(s, r)[k] = LastIn(s.roleExtra[r], n)
         /\ n \notin NamesOf(s.roleExtra[r]) /\ n \in NamesOf(s.extraEnv) =>
               Layers(s, r)[k] = LastIn(s.extraEnv, n)
         /\ n \notin NamesOf(s.roleExtra[r]) /\ n \notin NamesOf(s.extraEnv) =>
               IF n = "N8N_SECURE_COOKIE" THEN Layers(s, r)[k].value = s.secureCookie
               ELSE \E j : IsLast(Defaults(s, r), n, j) /\ Layers(s, r)[k] = Defaults(s, r)[j]
<1>. DEFINE d == Defaults(s, r)
            cookie == Given("N8N_SECURE_COOKIE", s.secureCookie)
            l == Layers(s, r)
            f == s.roleExtra[r]
            x == s.extraEnv
<1>1. /\ IsList(d) /\ NamesOf(d) \subseteq DefaultNames
      /\ IsList(cookie) /\ NamesOf(cookie) \subseteq {"N8N_SECURE_COOKIE"}
  BY DefaultsBlock, GivenBlock DEF Block
<1>2. IsList(x) /\ IsList(f)
  BY LayersBlock
<1>3. l = d \o cookie \o x \o f
  BY DEF Layers
<1>4. "N8N_SECURE_COOKIE" \notin DefaultNames
  BY DEF DefaultNames, OtherNames, HostNames
<1>5. \A j \in DOMAIN cookie : cookie[j].value = s.secureCookie
  <2>1. CASE s.secureCookie = None
    <3>1. cookie = << >>
      BY <2>1 DEF Given
    <3>. QED
      BY <3>1
  <2>2. CASE s.secureCookie # None
    <3>1. cookie = <<Entry("N8N_SECURE_COOKIE", s.secureCookie)>>
      BY <2>2 DEF Given
    <3>. QED
      BY <3>1 DEF Entry
  <2>. QED
    BY <2>1, <2>2
<1>6. IsLast(l, n, k)
  OBVIOUS
<1>. HIDE DEF d, cookie, l, f, x
<1>8. /\ n \in NamesOf(f) => l[k] = LastIn(f, n)
      /\ n \notin NamesOf(f) /\ n \in NamesOf(x) => l[k] = LastIn(x, n)
      /\ n \notin NamesOf(f) /\ n \notin NamesOf(x) /\ n \in NamesOf(cookie) =>
            \E j \in DOMAIN cookie : l[k] = cookie[j]
      /\ n \notin NamesOf(f) /\ n \notin NamesOf(x) /\ n \notin NamesOf(cookie) =>
            IsLast(d, n, k) /\ l[k] = d[k]
  <2>1. l = Join(Join(Join(d, cookie), x), f)
    BY <1>3, Zenon DEF Join
  <2>. QED
    BY <1>1, <1>2, <1>6, <2>1, LastOfFour
<1>9. ASSUME n \notin NamesOf(f), n \notin NamesOf(x)
      PROVE  IF n = "N8N_SECURE_COOKIE" THEN l[k].value = s.secureCookie
             ELSE \E j : IsLast(d, n, j) /\ l[k] = d[j]
  <2>1. CASE n \in NamesOf(cookie)
    BY <1>1, <1>5, <1>8, <1>9, <2>1
  <2>2. CASE n \notin NamesOf(cookie)
    <3>1. IsLast(d, n, k) /\ l[k] = d[k]
      BY <1>8, <1>9, <2>2
    <3>2. n # "N8N_SECURE_COOKIE"
      BY <1>1, <1>4, <3>1 DEF IsLast, NamesOf
    <3>. QED
      BY <3>1, <3>2
  <2>. QED
    BY <2>1, <2>2
<1>. QED
  BY <1>8, <1>9 DEF d, l, f, x

-----------------------------------------------------------------------------
(* The last entry of a name is the one that is to win.                      *)
LEMMA WinnerIsLast ==
  ASSUME NEW s \in Inputs, NEW r \in Roles, NEW n, NEW k, IsLast(Layers(s, r), n, k)
  PROVE  Layers(s, r)[k].value = Winner(s, r, n)
<1>1. CASE n \in NamesOf(s.roleExtra[r])
  <2>1. Sets(s.roleExtra[r], n) # {}
    BY <1>1, SetsNames
  <2>2. Winner(s, r, n) = LastIn(s.roleExtra[r], n).value
    BY <2>1 DEF Winner
  <2>. QED
    BY <1>1, <2>2, LastLayer
<1>2. CASE n \notin NamesOf(s.roleExtra[r]) /\ n \in NamesOf(s.extraEnv)
  <2>1. Sets(s.roleExtra[r], n) = {} /\ Sets(s.extraEnv, n) # {}
    BY <1>2, SetsNames
  <2>2. Winner(s, r, n) = LastIn(s.extraEnv, n).value
    BY <2>1 DEF Winner
  <2>. QED
    BY <1>2, <2>2, LastLayer
<1>3. CASE n \notin NamesOf(s.roleExtra[r]) /\ n \notin NamesOf(s.extraEnv)
  <2>1. Sets(s.roleExtra[r], n) = {} /\ Sets(s.extraEnv, n) = {}
    BY <1>3, SetsNames
  <2>2. Winner(s, r, n) = IF n = "N8N_SECURE_COOKIE" THEN s.secureCookie
                          ELSE LastIn(Defaults(s, r), n).value
    BY <2>1 DEF Winner
  <2>3. CASE n = "N8N_SECURE_COOKIE"
    BY <1>3, <2>2, <2>3, LastLayer
  <2>4. CASE n # "N8N_SECURE_COOKIE"
    <3>1. PICK j : IsLast(Defaults(s, r), n, j) /\ Layers(s, r)[k] = Defaults(s, r)[j]
      BY <1>3, <2>4, LastLayer
    <3>2. IsList(Defaults(s, r))
      BY DefaultsBlock DEF Block
    <3>3. LastIn(Defaults(s, r), n) = Defaults(s, r)[j]
      BY <3>1, <3>2, LastIsLastIn
    <3>. QED
      BY <2>2, <2>4, <3>1, <3>3
  <2>. QED
    BY <2>3, <2>4
<1>. QED
  BY <1>1, <1>2, <1>3

(* Every entry comes from the highest layer that sets its name, the last    *)
(* one if that layer sets it twice, and no name gets lost                   *)
(* (build_user_env, env/mod.rs:27-31).                                      *)
THEOREM HighestLayerWins == Spec => []LayersWin
<1>1. BuildInv => LayersWin
  <2>. SUFFICES ASSUME BuildInv, NEW r \in DOMAIN container
                PROVE  LET u == container[r].user
                       IN  /\ \A i \in DOMAIN u : u[i].value = Winner(spec, r, u[i].name)
                           /\ {u[i].name : i \in DOMAIN u}
                                = {Layers(spec, r)[i].name : i \in DOMAIN Layers(spec, r)}
    BY DEF LayersWin
  <2>. DEFINE u == container[r].user
  <2>1. spec \in Inputs /\ r \in Roles
    BY RoleList DEF BuildInv, Stage
  <2>2. RenderedRole(r)
    BY DEF BuildInv, Rendered
  <2>3. ASSUME NEW i \in DOMAIN u PROVE u[i].value = Winner(spec, r, u[i].name)
    <3>1. PICK k \in DOMAIN Layers(spec, r) :
             IsLast(Layers(spec, r), u[i].name, k) /\ u[i] = Layers(spec, r)[k]
      BY <2>2, <2>3 DEF RenderedRole, LastOfLayers
    <3>. QED
      BY <2>1, <3>1, WinnerIsLast
  <2>4. {u[i].name : i \in DOMAIN u} = {Layers(spec, r)[i].name : i \in DOMAIN Layers(spec, r)}
    BY <2>2 DEF RenderedRole, NamesOf
  <2>. QED
    BY <2>3, <2>4
<1>. QED
  BY <1>1, BuildInductive, PTL

(* No user sets one of the names that the operator wires and validation     *)
(* forgets to reserve; env_reserved.cfg shows what happens otherwise.       *)
LeavesUnreserved ==
    \A s \in Inputs : /\ NamesOf(s.extraEnv) \cap Unreserved = {}
                      /\ \A r \in Roles : NamesOf(s.roleExtra[r]) \cap Unreserved = {}

LEMMA LegalNames ==
  ASSUME NEW env, LegalExtra(env)
  PROVE  NamesOf(env) \cap ReservedEnv = {}
BY DEF LegalExtra, NamesOf

LEMMA UserNames ==
  ASSUME LeavesUnreserved, NEW s \in Inputs, ValidateExtra(s), NEW r \in RolesIn(s)
  PROVE  NamesOf(Layers(s, r)) \cap WiredNames = {}
<1>1. r \in Roles
  BY RoleList
<1>2. LegalExtra(s.extraEnv) /\ LegalExtra(s.roleExtra[r])
  BY DEF ValidateExtra, RolesIn
<1>3. /\ NamesOf(s.extraEnv) \cap WiredNames = {}
      /\ NamesOf(s.roleExtra[r]) \cap WiredNames = {}
  BY <1>1, <1>2, LegalNames DEF LeavesUnreserved, WiredNames
<1>4. (DefaultNames \union {"N8N_SECURE_COOKIE"}) \cap WiredNames = {}
  BY DEF DefaultNames, OtherNames, HostNames, WiredNames, ReservedEnv, Unreserved
<1>5. NamesOf(Layers(s, r)) \subseteq DefaultNames \union {"N8N_SECURE_COOKIE"}
                                     \union NamesOf(s.extraEnv) \union NamesOf(s.roleExtra[r])
  BY <1>1, LayersBlock
<1>. QED
  BY <1>3, <1>4, <1>5

(* Then no container gets two entries for one variable (validate.rs:25-26,  *)
(* spec/common.rs:16-19), for any settings and any list that validation     *)
(* accepts.                                                                 *)
THEOREM OneEntryEach == LeavesUnreserved => (Spec => []NoDuplicateEnv)
<1>1. LeavesUnreserved /\ EnvInv /\ BuildInv => NoDuplicateEnv
  <2>. SUFFICES ASSUME LeavesUnreserved, EnvInv, BuildInv, NEW r \in DOMAIN container
                PROVE  AllDiffer(container[r].wired \o container[r].user)
    BY DEF NoDuplicateEnv, AllDiffer
  <2>1. spec \in Inputs /\ r \in RolesIn(spec) /\ r \in Roles /\ ValidateExtra(spec)
    BY RoleList DEF BuildInv, Stage
  <2>2. RenderedRole(r)
    BY DEF BuildInv, Rendered
  <2>3. AllDiffer(container[r].user)
    BY DEF EnvInv, UserEnvUnique, AllDiffer
  <2>4. /\ IsList(container[r].wired) /\ AllDiffer(container[r].wired)
        /\ NamesOf(container[r].wired) \subseteq WiredNames
    BY <2>1, <2>2, WiredBlock DEF RenderedRole, Block
  <2>5. IsList(container[r].user) /\ NamesOf(container[r].user) \cap WiredNames = {}
    BY <2>1, <2>2, UserNames DEF RenderedRole
  <2>. QED
    BY <2>3, <2>4, <2>5, JoinedDiffer
<1>2. LeavesUnreserved /\ Spec => []NoDuplicateEnv
  <2>. SUFFICES ASSUME LeavesUnreserved PROVE Spec => []NoDuplicateEnv
    OBVIOUS
  <2>1. EnvInv /\ BuildInv => NoDuplicateEnv
    BY <1>1
  <2>. QED
    BY <2>1, EnvInductive, BuildInductive, PTL
<1>. QED
  BY <1>2

-----------------------------------------------------------------------------
(* The entry for WEBHOOK_URL that the roles of a Cluster share: that of the *)
(* cluster-wide extraEnv, else the default, else none.                      *)
SharedUrls(s) ==
    IF "WEBHOOK_URL" \in NamesOf(s.extraEnv) THEN {LastIn(s.extraEnv, "WEBHOOK_URL")}
    ELSE IF "WEBHOOK_URL" \in NamesOf(ClusterWebhookUrl(s, "main"))
         THEN {LastIn(ClusterWebhookUrl(s, "main"), "WEBHOOK_URL")} ELSE {}

LEMMA DefaultUrl ==
  ASSUME NEW s, NEW r \in Roles \ {"single"}
  PROVE  /\ "WEBHOOK_URL" \in NamesOf(Defaults(s, r))
               <=> "WEBHOOK_URL" \in NamesOf(ClusterWebhookUrl(s, "main"))
         /\ \A j : IsLast(Defaults(s, r), "WEBHOOK_URL", j) =>
               Defaults(s, r)[j] = LastIn(ClusterWebhookUrl(s, "main"), "WEBHOOK_URL")
<1>. DEFINE a == RoleDefaults(s, r)
            b == ClusterWebhookUrl(s, "main")
<1>1. Defaults(s, r) = Join(a, b)
  BY Zenon DEF Defaults, RoleDefaults, ClusterWebhookUrl, Join
<1>2. IsList(a) /\ NamesOf(a) \subseteq OtherNames /\ IsList(b)
  BY RoleDefaultsBlock, ClusterUrlBlock DEF Block
<1>3. "WEBHOOK_URL" \notin OtherNames
  BY DEF OtherNames, HostNames
<1>. HIDE DEF a, b
<1>4. NamesOf(Join(a, b)) = NamesOf(a) \union NamesOf(b)
  BY <1>2, JoinedNames DEF Join
<1>5. ASSUME NEW j, IsLast(Join(a, b), "WEBHOOK_URL", j)
      PROVE  Join(a, b)[j] = LastIn(b, "WEBHOOK_URL")
  <2>1. ~IsLast(a, "WEBHOOK_URL", j)
    BY <1>2, <1>3 DEF IsLast, NamesOf
  <2>. QED
    BY <1>2, <1>5, <2>1, LastOfJoin
<1>. QED
  BY <1>1, <1>2, <1>3, <1>4, <1>5 DEF b

LEMMA UrlOfLayers ==
  ASSUME NEW s \in Inputs, NEW r \in Roles \ {"single"},
         "WEBHOOK_URL" \notin NamesOf(s.roleExtra[r])
  PROVE  /\ "WEBHOOK_URL" \in NamesOf(Layers(s, r)) => SharedUrls(s) # {}
         /\ SharedUrls(s) # {} => "WEBHOOK_URL" \in NamesOf(Layers(s, r))
         /\ \A k : IsLast(Layers(s, r), "WEBHOOK_URL", k) => Layers(s, r)[k] \in SharedUrls(s)
<1>. DEFINE W == "WEBHOOK_URL"
            cookie == Given("N8N_SECURE_COOKIE", s.secureCookie)
<1>1. IsList(Defaults(s, r)) /\ IsList(cookie) /\ W \notin NamesOf(cookie)
  BY DefaultsBlock, GivenBlock DEF Block
<1>2. IsList(s.extraEnv) /\ IsList(s.roleExtra[r])
  BY LayersBlock
<1>3. NamesOf(Layers(s, r)) = NamesOf(Defaults(s, r)) \union NamesOf(cookie)
                              \union NamesOf(s.extraEnv) \union NamesOf(s.roleExtra[r])
  <2>. DEFINE d == Defaults(s, r)
              x == s.extraEnv
              f == s.roleExtra[r]
  <2>1. Layers(s, r) = d \o cookie \o x \o f
    BY DEF Layers
  <2>2. IsList(d) /\ IsList(cookie) /\ IsList(x) /\ IsList(f)
    BY <1>1, <1>2
  <2>. HIDE DEF d, x, f, cookie
  <2>3. IsList(d \o cookie) /\ NamesOf(d \o cookie) = NamesOf(d) \union NamesOf(cookie)
    BY <2>2, JoinedNames
  <2>4. /\ IsList(d \o cookie \o x)
        /\ NamesOf(d \o cookie \o x) = NamesOf(d \o cookie) \union NamesOf(x)
    BY <2>2, <2>3, JoinedNames
  <2>5. NamesOf(d \o cookie \o x \o f) = NamesOf(d \o cookie \o x) \union NamesOf(f)
    BY <2>2, <2>4, JoinedNames
  <2>6. NamesOf(d \o cookie \o x \o f)
          = NamesOf(d) \union NamesOf(cookie) \union NamesOf(x) \union NamesOf(f)
    BY <2>3, <2>4, <2>5
  <2>. QED
    BY <2>1, <2>6, Zenon DEF d, x, f
<1>4. W \in NamesOf(Layers(s, r)) <=>
        W \in NamesOf(s.extraEnv) \/ W \in NamesOf(ClusterWebhookUrl(s, "main"))
  BY <1>1, <1>3, DefaultUrl
<1>5. ASSUME NEW k, IsLast(Layers(s, r), W, k)
      PROVE  Layers(s, r)[k] \in SharedUrls(s)
  <2>1. CASE W \in NamesOf(s.extraEnv)
    <3>1. Layers(s, r)[k] = LastIn(s.extraEnv, W)
      BY <1>5, <2>1, LastLayer
    <3>. QED
      BY <2>1, <3>1 DEF SharedUrls
  <2>2. CASE W \notin NamesOf(s.extraEnv)
    <3>1. PICK j : IsLast(Defaults(s, r), W, j) /\ Layers(s, r)[k] = Defaults(s, r)[j]
      BY <1>5, <2>2, LastLayer
    <3>2. Layers(s, r)[k] = LastIn(ClusterWebhookUrl(s, "main"), W)
      BY <3>1, DefaultUrl
    <3>3. W \in NamesOf(ClusterWebhookUrl(s, "main"))
      BY <1>1, <3>1, DefaultUrl DEF IsLast, NamesOf
    <3>. QED
      BY <2>2, <3>2, <3>3 DEF SharedUrls
  <2>. QED
    BY <2>1, <2>2
<1>. QED
  BY <1>4, <1>5 DEF SharedUrls

LEMMA UrlOfRole ==
  ASSUME BuildInv, NEW r \in DOMAIN container, r # "single",
         "WEBHOOK_URL" \notin NamesOf(spec.roleExtra[r])
  PROVE  EntryOf(r, "WEBHOOK_URL") = SharedUrls(spec)
<1>. DEFINE u == container[r].user
            W == "WEBHOOK_URL"
<1>1. spec \in Inputs /\ r \in Roles \ {"single"}
  BY RoleList DEF BuildInv, Stage
<1>2. RenderedRole(r)
  BY DEF BuildInv, Rendered
<1>3. ASSUME NEW i \in Sets(u, W) PROVE u[i] \in SharedUrls(spec)
  <2>1. i \in DOMAIN u /\ u[i].name = W
    BY DEF Sets
  <2>2. PICK k : IsLast(Layers(spec, r), W, k) /\ u[i] = Layers(spec, r)[k]
    BY <1>2, <2>1 DEF RenderedRole, LastOfLayers
  <2>. QED
    BY <1>1, <2>2, UrlOfLayers
<1>4. Sets(u, W) # {} <=> SharedUrls(spec) # {}
  <2>1. Sets(u, W) # {} <=> W \in NamesOf(Layers(spec, r))
    BY <1>2, SetsNames DEF RenderedRole
  <2>. QED
    BY <1>1, <2>1, UrlOfLayers
<1>5. \A a, b \in SharedUrls(spec) : a = b
  BY DEF SharedUrls
<1>6. EntryOf(r, W) = {u[i] : i \in Sets(u, W)}
  BY DEF EntryOf
<1>. QED
  BY <1>3, <1>4, <1>5, <1>6

(* WEBHOOK_URL "must be the same on every role" (env/mod.rs:98-100), unless *)
(* the extraEnv of a role sets it.                                          *)
THEOREM OneWebhookUrl == Spec => []WebhookUrlAgrees
<1>1. BuildInv => WebhookUrlAgrees
  <2>. SUFFICES ASSUME BuildInv, NEW q \in DOMAIN container, NEW r \in DOMAIN container,
                       Sets(spec.roleExtra[q] \o spec.roleExtra[r], "WEBHOOK_URL") = {}
                PROVE  EntryOf(q, "WEBHOOK_URL") = EntryOf(r, "WEBHOOK_URL")
    BY DEF WebhookUrlAgrees
  <2>1. spec \in Inputs /\ q \in RolesIn(spec) /\ r \in RolesIn(spec)
        /\ q \in Roles /\ r \in Roles
    BY RoleList DEF BuildInv, Stage
  <2>2. "WEBHOOK_URL" \notin NamesOf(spec.roleExtra[q]) \union NamesOf(spec.roleExtra[r])
    <3>1. IsList(spec.roleExtra[q]) /\ IsList(spec.roleExtra[r])
      BY <2>1, LayersBlock
    <3>2. "WEBHOOK_URL" \notin NamesOf(spec.roleExtra[q] \o spec.roleExtra[r])
      BY SetsNames
    <3>. QED
      BY <3>1, <3>2, JoinedNames
  <2>3. CASE spec.kind = "Single"
    <3>1. q = "single" /\ r = "single"
      BY <2>1, <2>3, RoleList
    <3>. QED
      BY <3>1
  <2>4. CASE spec.kind = "Cluster"
    <3>1. q # "single" /\ r # "single"
      BY <2>1, <2>4, RoleList
    <3>. QED
      BY <2>2, <3>1, UrlOfRole
  <2>. QED
    BY <2>1, <2>3, <2>4, InputsOK
<1>. QED
  BY <1>1, BuildInductive, PTL
=============================================================================
