---------------------------- MODULE EgressProofs -----------------------------
(***************************************************************************)
(* Theorems about Egress, for any pushes, hosts, addresses and manifests  *)
(* and any number of crashes.                                             *)
(***************************************************************************)
EXTENDS Egress, SequenceTheorems, TLAPS

(***************************************************************************)
(* Rules and the parts of the scripts.                                    *)
(***************************************************************************)
AcceptRules == {r \in Rules : r.target = "ACCEPT"}

LEMMA DropFacts == /\ Drop \in Rules /\ Drop \notin AcceptRules /\ Flush # Drop
                   /\ Flush \notin AcceptRules
                   /\ \A k : ~Accepts(Drop, k)
BY DEF Drop, Flush, Command, Rules, AcceptRules, Accepts

LEMMA AcceptFacts ==
  ASSUME NEW out \in {"lo", Unset}, NEW proto \in {"tcp", "udp", Unset},
         NEW to \in Addresses \cup {Unset}, NEW port \in Ports \cup {Unset}
  PROVE  Accept(out, proto, to, port) \in AcceptRules
BY DEF Accept, Command, Rules, AcceptRules

LEMMA AddressRulesFacts ==
  ASSUME NEW e \in Patterns
  PROVE  /\ AddressRules(e) \in Seq(AcceptRules)
         /\ Len(AddressRules(e)) = Len(Addrs[e.host])
         /\ \A i \in DOMAIN Addrs[e.host] :
               AddressRules(e)[i] = Accept(Unset, "tcp", Addrs[e.host][i], e.port)
<1> DEFINE a == Addrs[e.host]
<1>1. e.host \in Hosts /\ e.port \in Ports \cup {Unset}
  BY DEF Patterns
<1>2. a \in Seq(Addresses)
  BY <1>1, AddrsAssumption
<1> HIDE DEF a
<1>3. \A i \in 1..Len(a) : Accept(Unset, "tcp", a[i], e.port) \in AcceptRules
  <2>1. TAKE i \in 1..Len(a)
  <2>2. a[i] \in Addresses
    BY <1>2, <2>1
  <2>3. QED
    BY <1>1, <2>2, AcceptFacts
<1>4. AddressRules(e) = [i \in 1..Len(a) |-> Accept(Unset, "tcp", a[i], e.port)]
  BY <1>2 DEF AddressRules, a
<1>5. Len(a) \in Nat /\ DOMAIN a = 1..Len(a)
  BY <1>2
<1>6. AddressRules(e) \in Seq(AcceptRules) /\ Len(AddressRules(e)) = Len(a)
  <2> DEFINE f(i) == Accept(Unset, "tcp", a[i], e.port)
  <2>1. \A i \in 1..Len(a) : f(i) \in AcceptRules
    BY <1>3
  <2>2. AddressRules(e) = [i \in 1..Len(a) |-> f(i)]
    BY <1>4
  <2> HIDE DEF f
  <2>3. QED
    BY <1>5, <2>1, <2>2
<1>7. QED
  BY <1>4, <1>5, <1>6 DEF a

LEMMA BaseFacts ==
  /\ Len(Base) = 4 /\ DOMAIN Base = 1..4 /\ Base \in Seq(Seq(AcceptRules))
  /\ \A i \in 1..4 : Base[i] \in Seq(AcceptRules)
  /\ Len(Base[1]) = 1 /\ Len(Base[3]) = 1 /\ Len(Base[4]) = 1
<1> DEFINE b1 == <<Accept("lo", Unset, Unset, Unset)>>
           b2 == AddressRules(Tunnel)
           b3 == <<Accept(Unset, "udp", Unset, 53)>>
           b4 == <<Accept(Unset, "tcp", Unset, 53)>>
<1>1. b1 \in Seq(AcceptRules) /\ Len(b1) = 1
  BY AcceptFacts
<1>2. b3 \in Seq(AcceptRules) /\ Len(b3) = 1
  BY AcceptFacts, PortsAssumption
<1>3. b4 \in Seq(AcceptRules) /\ Len(b4) = 1
  BY AcceptFacts, PortsAssumption
<1>4. b2 \in Seq(AcceptRules)
  <2>1. Tunnel \in Patterns
    BY TunnelAssumption DEF Patterns
  <2>2. QED
    BY <2>1, AddressRulesFacts
<1>5. Base = <<b1, b2, b3, b4>>
  BY DEF Base
<1> HIDE DEF b1, b2, b3, b4
<1> DEFINE S == Seq(AcceptRules)
<1>6. b1 \in S /\ b2 \in S /\ b3 \in S /\ b4 \in S
  BY <1>1, <1>2, <1>3, <1>4
<1> HIDE DEF S
<1>7. Base \in Seq(S) /\ Len(Base) = 4 /\ DOMAIN Base = 1..4
      /\ Base[1] = b1 /\ Base[3] = b3 /\ Base[4] = b4
  BY <1>5, <1>6
<1>8. \A i \in 1..4 : Base[i] \in S
  <2>1. Base[1] \in S /\ Base[2] \in S /\ Base[3] \in S /\ Base[4] \in S
    BY <1>5, <1>6
  <2>2. \A i \in 1..4 : i = 1 \/ i = 2 \/ i = 3 \/ i = 4
    OBVIOUS
  <2>3. QED
    BY <2>1, <2>2
<1>9. QED
  BY <1>1, <1>2, <1>3, <1>7, <1>8 DEF S

\* A rule of a part.
RuleOf(part, r) == \E j \in DOMAIN part : part[j] = r

\* A rule of addBaseRules, a rule for an entry of a manifest.
BaseRule(r) == \E i \in 1..4 : RuleOf(Base[i], r)
EntryRule(m, r) == \E i \in DOMAIN m : RuleOf(AddressRules(m[i]), r)

\* Where the elements of two sequences are in their concatenation.
Joins(c, a, b) ==
  /\ Len(c) = Len(a) + Len(b)
  /\ \A i \in 1..Len(a) : c[i] = a[i]
  /\ \A i \in 1..Len(b) : c[Len(a) + i] = b[i]

LEMMA Concat ==
  ASSUME NEW S, NEW a \in Seq(S), NEW b \in Seq(S), NEW c, c = a \o b
  PROVE  c \in Seq(S) /\ Joins(c, a, b)
<1>1. /\ c \in Seq(S) /\ Len(c) = Len(a) + Len(b)
      /\ \A i \in 1..(Len(a) + Len(b)) :
            c[i] = IF i <= Len(a) THEN a[i] ELSE b[i - Len(a)]
  BY ConcatProperties
<1>2. Len(a) \in Nat /\ Len(b) \in Nat
  OBVIOUS
<1>3. \A i \in 1..Len(b) : /\ Len(a) + i \in 1..(Len(a) + Len(b))
                          /\ ~(Len(a) + i <= Len(a)) /\ Len(a) + i - Len(a) = i
  BY <1>2
<1>4. \A i \in 1..Len(a) : i \in 1..(Len(a) + Len(b)) /\ i <= Len(a)
  BY <1>2
<1>5. QED
  BY <1>1, <1>2, <1>3, <1>4 DEF Joins

\* What the parts of a script are.
LEMMA ScriptFacts ==
  ASSUME NEW m \in Seq(Patterns)
  PROVE  /\ Len(Script(m)) = Len(m) + 6 /\ Len(m) \in Nat /\ DOMAIN m = 1..Len(m)
         /\ Script(m)[1] = <<Flush>>
         /\ \A i \in 1..4 : Script(m)[1 + i] = Base[i]
         /\ \A i \in 1..Len(m) : Script(m)[5 + i] = AddressRules(m[i])
         /\ Script(m)[Len(m) + 6] = <<Drop>>
<1> DEFINE R == Rules \cup {Flush}
           S == Seq(R)
           e == EntryParts(m)
           s == <<<<Flush>>>> \o Base
           t == s \o e
<1>0. Len(m) \in Nat /\ DOMAIN m = 1..Len(m)
  OBVIOUS
<1>1. <<<<Flush>>>> \in Seq(S) /\ Len(<<<<Flush>>>>) = 1 /\ <<<<Flush>>>>[1] = <<Flush>>
  <2>1. Flush \in R
    OBVIOUS
  <2> HIDE DEF R
  <2>2. <<Flush>> \in S
    BY <2>1
  <2> HIDE DEF S
  <2>3. QED
    BY <2>2
<1>2. AcceptRules \subseteq R /\ Seq(AcceptRules) \subseteq S
  BY DEF AcceptRules
<1>3. Base \in Seq(S) /\ Len(Base) = 4
  <2> DEFINE A == Seq(AcceptRules)
  <2>1. A \subseteq S
    BY <1>2
  <2>2. Base \in Seq(A)
    BY BaseFacts
  <2> HIDE DEF A, S
  <2>3. QED
    BY <2>1, <2>2, BaseFacts
<1>4. e \in Seq(S) /\ Len(e) = Len(m) /\ \A i \in 1..Len(m) : e[i] = AddressRules(m[i])
  <2>1. \A i \in 1..Len(m) : AddressRules(m[i]) \in S
    BY <1>2, AddressRulesFacts
  <2>2. e = [i \in 1..Len(m) |-> AddressRules(m[i])]
    BY <1>0 DEF EntryParts
  <2> HIDE DEF S, e
  <2>3. QED
    BY <1>0, <2>1, <2>2
<1> HIDE DEF S, R, e
<1>5. /\ s \in Seq(S) /\ Len(s) = 5 /\ s[1] = <<Flush>>
      /\ \A i \in 1..4 : s[1 + i] = Base[i]
  <2> DEFINE h == <<<<Flush>>>>
  <2>1. h \in Seq(S) /\ Len(h) = 1 /\ h[1] = <<Flush>> /\ s = h \o Base
    BY <1>1
  <2> HIDE DEF h, s
  <2>2. s \in Seq(S) /\ Joins(s, h, Base)
    BY <1>3, <2>1, Concat
  <2>3. 1 \in 1..Len(h)
    BY <2>1
  <2>4. QED
    BY <1>3, <2>1, <2>2, <2>3 DEF Joins
<1> HIDE DEF s
<1>6. t = s \o e
  OBVIOUS
<1> HIDE DEF t
<1>7. /\ t \in Seq(S) /\ Len(t) = Len(m) + 5
      /\ \A i \in 1..5 : t[i] = s[i]
      /\ \A i \in 1..Len(m) : t[5 + i] = e[i]
  <2>1. Len(s) = 5 /\ Len(e) = Len(m) /\ Len(m) \in Nat
    BY <1>0, <1>4, <1>5
  <2>2. t \in Seq(S) /\ Joins(t, s, e)
    BY <1>4, <1>5, <1>6, Concat
  <2>3. QED
    BY <2>1, <2>2 DEF Joins
<1>8. Script(m) = t \o <<<<Drop>>>>
  BY DEF Script, s, e, t
<1>9. <<<<Drop>>>> \in Seq(S) /\ Len(<<<<Drop>>>>) = 1 /\ <<<<Drop>>>>[1] = <<Drop>>
  <2>1. <<Drop>> \in S
    <3>1. Drop \in R
      BY DropFacts DEF R
    <3>2. QED
      BY <3>1 DEF S
  <2>2. QED
    BY <2>1
<1> DEFINE d == <<<<Drop>>>>
<1> HIDE DEF d
<1>10. /\ Len(Script(m)) = Len(t) + 1
      /\ \A i \in 1..Len(t) : Script(m)[i] = t[i]
      /\ Script(m)[Len(t) + 1] = <<Drop>>
  <2>1. d \in Seq(S) /\ Len(d) = 1 /\ d[1] = <<Drop>> /\ Script(m) = t \o d
    BY <1>8, <1>9 DEF d
  <2>2. Joins(Script(m), t, d)
    BY <1>7, <2>1, Concat
  <2>3. 1 \in 1..Len(d)
    BY <2>1
  <2>4. QED
    BY <2>1, <2>2, <2>3 DEF Joins
<1>11. /\ Len(Script(m)) = Len(m) + 6 /\ Script(m)[Len(m) + 6] = <<Drop>>
       /\ \A i \in 1..(Len(m) + 5) : Script(m)[i] = t[i]
  <2>1. Len(m) + 5 + 1 = Len(m) + 6
    BY <1>0
  <2>2. QED
    BY <1>7, <1>10, <2>1
<1>12. \A i \in 1..4 : Script(m)[1 + i] = Base[i]
  <2>1. TAKE i \in 1..4
  <2>2. 1 + i \in 1..5 /\ 1 + i \in 1..(Len(m) + 5)
    BY <1>0
  <2>3. QED
    BY <1>5, <1>7, <1>11, <2>2
<1>13. \A i \in 1..Len(m) : Script(m)[5 + i] = AddressRules(m[i])
  <2>1. TAKE i \in 1..Len(m)
  <2>2. 5 + i \in 1..(Len(m) + 5)
    BY <1>0
  <2>3. QED
    BY <1>4, <1>7, <1>11, <2>2
<1>14. Script(m)[1] = <<Flush>>
  <2>1. 1 \in 1..(Len(m) + 5)
    BY <1>0
  <2>2. QED
    BY <1>5, <1>7, <1>11, <2>1
<1>15. QED
  BY <1>0, <1>11, <1>12, <1>13, <1>14

LEMMA InitScriptFacts ==
  /\ Len(InitScript) = 5
  /\ \A i \in 1..4 : InitScript[i] = Base[i]
  /\ InitScript[5] = <<Drop>>
<1> DEFINE S == Seq(Rules)
           d == <<<<Drop>>>>
<1>1. Base \in Seq(S) /\ Len(Base) = 4
  <2> DEFINE A == Seq(AcceptRules)
  <2>1. A \subseteq S
    BY DEF AcceptRules
  <2>2. Base \in Seq(A)
    BY BaseFacts
  <2> HIDE DEF A, S
  <2>3. QED
    BY <2>1, <2>2, BaseFacts
<1>2. d \in Seq(S) /\ Len(d) = 1 /\ d[1] = <<Drop>>
  <2>1. <<Drop>> \in S
    BY DropFacts
  <2> HIDE DEF S
  <2>2. QED
    BY <2>1
<1>3. InitScript = Base \o d
  BY DEF InitScript
<1> HIDE DEF S, d
<1>4. Joins(InitScript, Base, d)
  BY <1>1, <1>2, <1>3, Concat
<1>5. 1 \in 1..Len(d) /\ 4 + 1 = 5
  BY <1>2
<1>6. QED
  BY <1>1, <1>2, <1>4, <1>5 DEF Joins

\* The parts between the flush and the DROP hold ACCEPT rules, of the exemptions
\* or of an entry; only the loops over addresses can be empty.
LEMMA Parts ==
  ASSUME NEW m \in Seq(Patterns), NEW n \in 2..(Len(m) + 5)
  PROVE  /\ Script(m)[n] \in Seq(AcceptRules)
         /\ \A r : RuleOf(Script(m)[n], r) => BaseRule(r) \/ EntryRule(m, r)
         /\ Script(m)[n] = <<>> => n = 3 \/ n \in 6..(Len(m) + 5)
<1>0. Len(m) \in Nat /\ DOMAIN m = 1..Len(m)
  OBVIOUS
<1>1. CASE n \in 2..5
  <2>1. n - 1 \in 1..4 /\ 1 + (n - 1) = n
    BY <1>1
  <2>2. Script(m)[n] = Base[n - 1]
    BY <2>1, ScriptFacts
  <2>3. Base[n - 1] \in Seq(AcceptRules)
    BY <2>1, BaseFacts
  <2>4. n # 3 => Len(Base[n - 1]) = 1
    <3>1. n # 3 => n - 1 = 1 \/ n - 1 = 3 \/ n - 1 = 4
      BY <2>1
    <3>2. QED
      BY <3>1, BaseFacts
  <2>5. Len(<<>>) = 0
    OBVIOUS
  <2>6. QED
    BY <2>1, <2>2, <2>3, <2>4, <2>5 DEF BaseRule
<1>2. CASE n \in 6..(Len(m) + 5)
  <2>1. n - 5 \in 1..Len(m) /\ 5 + (n - 5) = n
    BY <1>0, <1>2
  <2>2. Script(m)[n] = AddressRules(m[n - 5]) /\ m[n - 5] \in Patterns
    BY <2>1, ScriptFacts
  <2>3. QED
    BY <1>0, <1>2, <2>1, <2>2, AddressRulesFacts DEF EntryRule
<1>3. QED
  BY <1>0, <1>1, <1>2
-----------------------------------------------------------------------------
(***************************************************************************)
(* The chain as a set of rules.                                           *)
(***************************************************************************)
Has(c, r) == \E i \in DOMAIN c : c[i] = r

\* The rules of the parts f to n - 1 of s and the first a of part n are in c.
DoneTo(c, s, f, n, a) ==
  /\ \A i \in f..(n - 1) : \A r : RuleOf(s[i], r) => Has(c, r)
  /\ \A j \in 1..a : Has(c, s[n][j])

\* A DROP can only be the last rule.
DropLast(c) == \A i \in DOMAIN c : c[i] = Drop => i = Len(c)

\* The chain of Apply(m).
Finished(c, m) ==
  /\ DropLast(c) /\ Has(c, Drop)
  /\ \A r : BaseRule(r) \/ EntryRule(m, r) => Has(c, r)

\* The chain of init.
Booted(c) == DropLast(c) /\ Has(c, Drop) /\ \A r : BaseRule(r) => Has(c, r)

LEMMA AppendHas ==
  ASSUME NEW c \in Seq(Rules), NEW x \in Rules
  PROVE  /\ Append(c, x) \in Seq(Rules)
         /\ \A r : Has(Append(c, x), r) <=> Has(c, r) \/ r = x
         /\ ~Has(c, Drop) => DropLast(Append(c, x))
<1> DEFINE d == Append(c, x)
<1>1. /\ d \in Seq(Rules) /\ Len(d) = Len(c) + 1 /\ Len(c) \in Nat
      /\ DOMAIN c = 1..Len(c) /\ DOMAIN d = 1..(Len(c) + 1)
      /\ (\A i \in 1..Len(c) : d[i] = c[i]) /\ d[Len(c) + 1] = x
  BY AppendProperties
<1>2. \A i \in DOMAIN d : i \in DOMAIN c \/ i = Len(c) + 1
  BY <1>1
<1>3. DOMAIN c \subseteq DOMAIN d /\ Len(c) + 1 \in DOMAIN d
  BY <1>1
<1> HIDE DEF d
<1>4. QED
  BY <1>1, <1>2, <1>3 DEF Has, DropLast, d

LEMMA ConcatHas ==
  ASSUME NEW c \in Seq(Rules), NEW x \in Seq(Rules)
  PROVE  /\ c \o x \in Seq(Rules)
         /\ \A r : Has(c \o x, r) <=> Has(c, r) \/ RuleOf(x, r)
<1> DEFINE d == c \o x
<1>1. /\ d \in Seq(Rules) /\ Len(d) = Len(c) + Len(x)
      /\ Len(c) \in Nat /\ Len(x) \in Nat
      /\ DOMAIN c = 1..Len(c) /\ DOMAIN x = 1..Len(x)
      /\ DOMAIN d = 1..(Len(c) + Len(x))
      /\ \A i \in 1..(Len(c) + Len(x)) :
            d[i] = IF i <= Len(c) THEN c[i] ELSE x[i - Len(c)]
  BY ConcatProperties
<1> HIDE DEF d
<1>2. \A i \in DOMAIN d : \/ i \in DOMAIN c /\ d[i] = c[i]
                          \/ i - Len(c) \in DOMAIN x /\ d[i] = x[i - Len(c)]
  BY <1>1
<1>3. \A i \in DOMAIN c : i \in DOMAIN d /\ d[i] = c[i]
  BY <1>1
<1>4. \A i \in DOMAIN x : Len(c) + i \in DOMAIN d /\ d[Len(c) + i] = x[i]
  <2>1. TAKE i \in DOMAIN x
  <2>2. /\ Len(c) + i \in DOMAIN d /\ ~(Len(c) + i <= Len(c))
        /\ Len(c) + i - Len(c) = i
    BY <1>1
  <2>3. QED
    BY <1>1, <2>2
<1>5. QED
  BY <1>1, <1>2, <1>3, <1>4 DEF Has, RuleOf, d

\* The next rule of a part.
LEMMA NextRule ==
  ASSUME NEW c, NEW d, NEW s, NEW f \in Nat, NEW n \in Nat, NEW a \in Nat,
         NEW P, s[n] \in Seq(P), a < Len(s[n]), DoneTo(c, s, f, n, a),
         \A r : Has(c, r) => Has(d, r), Has(d, s[n][a + 1])
  PROVE  /\ DoneTo(d, s, f, n, a + 1)
         /\ ~(a + 1 < Len(s[n])) => DoneTo(d, s, f, n + 1, 0)
<1>1. DoneTo(d, s, f, n, a + 1)
  <2>1. \A j \in 1..(a + 1) : j \in 1..a \/ j = a + 1
    OBVIOUS
  <2>2. QED
    BY <2>1 DEF DoneTo
<1>2. ASSUME a + 1 = Len(s[n]) PROVE DoneTo(d, s, f, n + 1, 0)
  <2>1. \A r : RuleOf(s[n], r) => Has(d, r)
    <3>1. DOMAIN s[n] = 1..(a + 1)
      BY <1>2
    <3>2. \A j \in 1..(a + 1) : Has(d, s[n][j])
      BY <1>1 DEF DoneTo
    <3>3. QED
      BY <3>1, <3>2 DEF RuleOf
  <2>2. \A i \in f..(n + 1 - 1) : i = n \/ i \in f..(n - 1)
    OBVIOUS
  <2>3. \A i \in f..(n - 1) : \A r : RuleOf(s[i], r) => Has(d, r)
    BY DEF DoneTo
  <2>4. QED
    BY <2>1, <2>2, <2>3 DEF DoneTo
<1>3. ~(a + 1 < Len(s[n])) => a + 1 = Len(s[n])
  BY LenProperties
<1>4. QED
  BY <1>1, <1>2, <1>3

\* All that is left of a part.
LEMMA WholePart ==
  ASSUME NEW c, NEW d, NEW s, NEW f \in Nat, NEW n \in Nat, NEW a \in Nat,
         DoneTo(c, s, f, n, a), \A r : Has(c, r) => Has(d, r),
         \A r : RuleOf(s[n], r) => Has(d, r)
  PROVE  DoneTo(d, s, f, n + 1, 0)
<1>1. \A i \in f..(n + 1 - 1) : i = n \/ i \in f..(n - 1)
  OBVIOUS
<1>2. \A i \in f..(n - 1) : \A r : RuleOf(s[i], r) => Has(d, r)
  BY DEF DoneTo
<1>3. QED
  BY <1>1, <1>2 DEF DoneTo

-----------------------------------------------------------------------------
(***************************************************************************)
(* The inductive invariant.                                               *)
(***************************************************************************)
\* Where Setup and the pushes are in their scripts.
Within(who, script) ==
  /\ step[who] \in 1..Len(script)
  /\ addr[who] = 0 \/ addr[who] < Len(script[step[who]])

Progress ==
  /\ phase \in {"create", "flush", "jump"} => step[Agent] = 1 /\ addr[Agent] = 0
  /\ phase = "rules" => Within(Agent, InitScript)
  /\ phase # "up" => fw = FALSE /\ Applying = {} /\ current = NoManifest
  /\ phase = "up" /\ ~fw => failed /\ Applying = {}
  /\ phase = "rules" \/ fw => jump
  /\ ~exists => chain = <<>> /\ phase \notin {"flush", "jump", "rules"} /\ ~fw

PushProgress ==
  \A p \in Pushes :
     /\ st[p] = "idle" => step[p] = 1 /\ addr[p] = 0
     /\ st[p] = "apply" => /\ man[p] \in Manifests /\ p \in recent
                           /\ Within(p, Script(man[p]))
     /\ p \in recent => man[p] \in Manifests /\ st[p] # "idle"

\* Every rule of the chain is the DROP, an exemption or a rule for an entry of a
\* push that is remembered in recent.
Listed(r) ==
  r = Drop \/ BaseRule(r) \/ \E p \in recent : EntryRule(man[p], r)

OnlyListed ==
  (phase \in {"jump", "rules"} \/ fw) => \A r : Has(chain, r) => Listed(r)

\* Setup has no push behind it.
Unpushed == phase \in {"create", "flush", "jump", "rules"} => recent = {}

\* The chain has a DROP, or an Apply that flushed it has not come to its own.
HasDrop ==
  (fw /\ ~failed) => Has(chain, Drop) \/ \E p \in Applying : step[p] > 1

\* Without overlap there is one Apply, of the manifest the store holds, and
\* without failure the chain is as far as its script.
Alone ==
  ~overlap => \A p \in Applying : /\ man[p] = current /\ Applying = {p}
                                  /\ step[p] > 1 => recent = {p}

InStep ==
  (~overlap /\ ~failed) =>
     \A p \in Applying : step[p] > 1 =>
        /\ ~Has(chain, Drop)
        /\ DoneTo(chain, Script(man[p]), 2, step[p], addr[p])

SetupInStep ==
  /\ phase = "jump" => chain = <<>>
  /\ phase = "rules" => ~Has(chain, Drop)
  /\ (phase = "rules" /\ ~failed) =>
        DoneTo(chain, InitScript, 1, step[Agent], addr[Agent])

Complete ==
  (AtRest /\ ~failed /\ ~overlap) =>
     /\ current = NoManifest => Booted(chain) /\ recent = {}
     /\ current # NoManifest =>
           Finished(chain, current) /\ \A p \in recent : man[p] = current

IInv == /\ TypeOK /\ Progress /\ PushProgress /\ OnlyListed /\ Unpushed
        /\ HasDrop /\ Alone /\ InStep /\ SetupInStep /\ Complete
-----------------------------------------------------------------------------
\* Manifests are sequences of patterns.
LEMMA ManifestSeq == \A m \in Manifests : m \in Seq(Patterns) /\ m # NoManifest
BY ManifestsAssumption

LEMMA EmptyHas == \A r : ~Has(<<>>, r)
BY DEF Has

LEMMA InitIInv == Init => IInv
<1> SUFFICES ASSUME Init PROVE IInv
  OBVIOUS
<1> USE DEF Init, Applying
<1>1. TypeOK
  <2>1. phase \in Phases /\ chain \in Seq(Rules) /\ crashes \in 0..MaxCrashes
    BY MaxCrashesAssumption DEF Phases
  <2>2. /\ man \in [Pushes -> Manifests \cup {NoManifest}]
        /\ st \in [Pushes -> {"idle", "apply", "done"}]
    OBVIOUS
  <2>3. /\ step \in [Pushes \cup {Agent} -> Nat \ {0}]
        /\ addr \in [Pushes \cup {Agent} -> Nat]
    OBVIOUS
  <2>4. QED
    BY <2>1, <2>2, <2>3 DEF TypeOK
<1>2. Progress /\ PushProgress
  BY DEF Progress, PushProgress
<1>3. OnlyListed /\ Unpushed /\ HasDrop /\ Alone /\ InStep
  BY DEF OnlyListed, Unpushed, HasDrop, Alone, InStep
<1>4. SetupInStep /\ Complete
  BY DEF SetupInStep, Complete, AtRest
<1>5. QED
  BY <1>1, <1>2, <1>3, <1>4 DEF IInv

\* The steps of Setup before its first rule, and its failures.
LEMMA SetupSteps ==
  ASSUME IInv, CreateChain \/ FlushExisting \/ AddJump \/ InitFails
  PROVE  IInv'
<1> USE DEF IInv, Applying, kernelVars, histVars
<1>1. CASE CreateChain
  <2>1. TypeOK' /\ Progress' /\ PushProgress'
    BY <1>1 DEF CreateChain, TypeOK, Phases, Progress, PushProgress, Within
  <2>2. OnlyListed' /\ Unpushed' /\ HasDrop' /\ Alone' /\ InStep'
    BY <1>1, EmptyHas DEF CreateChain, Progress, OnlyListed, Unpushed, HasDrop,
                          Alone, InStep
  <2>3. SetupInStep' /\ Complete'
    BY <1>1 DEF CreateChain, Progress, SetupInStep, Complete, AtRest
  <2>4. QED
    BY <2>1, <2>2, <2>3
<1>2. CASE FlushExisting
  <2>1. TypeOK' /\ Progress' /\ PushProgress'
    BY <1>2 DEF FlushExisting, TypeOK, Phases, Progress, PushProgress, Within
  <2>2. OnlyListed' /\ Unpushed' /\ HasDrop' /\ Alone' /\ InStep'
    BY <1>2, EmptyHas DEF FlushExisting, Progress, OnlyListed, Unpushed, HasDrop,
                          Alone, InStep
  <2>3. SetupInStep' /\ Complete'
    BY <1>2 DEF FlushExisting, Progress, SetupInStep, Complete, AtRest
  <2>4. QED
    BY <2>1, <2>2, <2>3
<1>3. CASE AddJump
  <2>0. chain = <<>> /\ chain' = chain /\ phase = "jump" /\ phase' = "rules"
        /\ step'[Agent] = 1 /\ addr'[Agent] = 0
    BY <1>3 DEF AddJump, SetupInStep, Progress
  <2>1. TypeOK' /\ Progress' /\ PushProgress'
    BY <1>3, <2>0, InitScriptFacts
       DEF AddJump, TypeOK, Phases, Progress, PushProgress, Within
  <2>2. OnlyListed' /\ Unpushed' /\ HasDrop' /\ Alone' /\ InStep'
    BY <1>3, <2>0, EmptyHas DEF AddJump, Progress, OnlyListed, Unpushed, HasDrop,
                                Alone, InStep
  <2>3. DoneTo(chain', InitScript, 1, 1, 0)
    BY DEF DoneTo
  <2>4. SetupInStep' /\ Complete'
    BY <1>3, <2>0, <2>3, EmptyHas DEF AddJump, SetupInStep, Complete, AtRest
  <2>5. QED
    BY <2>1, <2>2, <2>4
<1>4. CASE InitFails
  <2>0. phase # "up" /\ fw = FALSE /\ Applying = {}
    BY <1>4 DEF InitFails, Progress
  <2>1. TypeOK' /\ Progress' /\ PushProgress'
    BY <1>4, <2>0 DEF InitFails, SetupFails, TypeOK, Phases, Progress, PushProgress,
                Within
  <2>2. OnlyListed' /\ Unpushed' /\ HasDrop' /\ Alone' /\ InStep'
    BY <1>4, <2>0 DEF InitFails, SetupFails, OnlyListed, Unpushed, HasDrop,
                          Alone, InStep
  <2>3. SetupInStep' /\ Complete'
    BY <1>4, <2>0 DEF InitFails, SetupFails, SetupInStep, Complete, AtRest
  <2>4. QED
    BY <2>1, <2>2, <2>3
<1>5. QED
  BY <1>1, <1>2, <1>3, <1>4

\* The agent dies or is started again.
LEMMA Lives == ASSUME IInv, Crash \/ Restart PROVE IInv'
<1> USE DEF IInv, Applying, kernelVars, histVars
<1>1. CASE Crash
  <2> USE <1>1 DEF Crash
  <2>1. TypeOK'
    <3>1. st' \in [Pushes -> {"idle", "apply", "done"}]
      BY DEF TypeOK
    <3>2. crashes' \in 0..MaxCrashes /\ phase' \in Phases
      BY MaxCrashesAssumption DEF TypeOK, Phases
    <3>3. QED
      BY <3>1, <3>2 DEF TypeOK
  <2>2. (Applying = {})' /\ phase' = "down" /\ fw' = FALSE
    BY DEF TypeOK
  <2>3. Progress' /\ PushProgress'
    BY <2>2 DEF Progress, PushProgress, TypeOK
  <2>4. OnlyListed' /\ Unpushed' /\ HasDrop' /\ Alone' /\ InStep'
    BY <2>2 DEF OnlyListed, Unpushed, HasDrop, Alone, InStep
  <2>5. SetupInStep' /\ Complete'
    BY <2>2 DEF SetupInStep, Complete, AtRest
  <2>6. QED
    BY <2>1, <2>3, <2>4, <2>5
<1>2. CASE Restart
  <2> USE <1>2 DEF Restart
  <2>1. TypeOK'
    <3>1. /\ step' \in [Pushes \cup {Agent} -> Nat \ {0}]
          /\ addr' \in [Pushes \cup {Agent} -> Nat]
      BY DEF TypeOK
    <3>2. phase' \in Phases
      BY DEF Phases
    <3>3. QED
      BY <3>1, <3>2 DEF TypeOK
  <2>2. (Applying = {})' /\ phase' = "create" /\ fw' = FALSE
    BY DEF Progress
  <2>3. /\ step'[Agent] = 1 /\ \A p \in Pushes : step'[p] = step[p]
        /\ addr'[Agent] = 0 /\ \A p \in Pushes : addr'[p] = addr[p]
    BY AgentAssumption DEF TypeOK
  <2>4. Progress' /\ PushProgress'
    BY <2>2, <2>3 DEF Progress, PushProgress
  <2>5. OnlyListed' /\ Unpushed' /\ HasDrop' /\ Alone' /\ InStep'
    BY <2>2 DEF OnlyListed, Unpushed, HasDrop, Alone, InStep
  <2>6. SetupInStep' /\ Complete'
    BY <2>2 DEF SetupInStep, Complete, AtRest
  <2>7. QED
    BY <2>1, <2>4, <2>5, <2>6
<1>3. QED
  BY <1>1, <1>2
-----------------------------------------------------------------------------
\* Only who moves: to the next part, or to the next rule of its part.
Moved(who) ==
  /\ step' \in [Pushes \cup {Agent} -> Nat \ {0}]
  /\ addr' \in [Pushes \cup {Agent} -> Nat]
  /\ \A q \in (Pushes \cup {Agent}) \ {who} :
        step'[q] = step[q] /\ addr'[q] = addr[q]

LEMMA NextPartFacts ==
  ASSUME TypeOK, NEW who \in Pushes \cup {Agent}, NextPart(who)
  PROVE  Moved(who) /\ step'[who] = step[who] + 1 /\ addr'[who] = 0
BY DEF TypeOK, NextPart, Moved

LEMMA AdvanceFacts ==
  ASSUME TypeOK, NEW who \in Pushes \cup {Agent}, NEW part, Advance(who, part)
  PROVE  /\ Moved(who)
         /\ \/ /\ addr[who] + 1 < Len(part)
               /\ step'[who] = step[who] /\ addr'[who] = addr[who] + 1
            \/ /\ ~(addr[who] + 1 < Len(part))
               /\ step'[who] = step[who] + 1 /\ addr'[who] = 0
<1>1. CASE addr[who] + 1 < Len(part)
  <2>1. addr' = [addr EXCEPT ![who] = @ + 1] /\ step' = step
    BY <1>1 DEF Advance
  <2>2. Moved(who) /\ step'[who] = step[who] /\ addr'[who] = addr[who] + 1
    BY <2>1 DEF TypeOK, Moved
  <2>3. QED
    BY <1>1, <2>2
<1>2. CASE ~(addr[who] + 1 < Len(part))
  BY <1>2, NextPartFacts DEF Advance
<1>3. QED
  BY <1>1, <1>2

\* A step of init that adds the exemption x, or nothing.
LEMMA Boots ==
  ASSUME IInv, phase = "rules", NEW x,
         chain' \in Seq(Rules), \A r : Has(chain', r) <=> Has(chain, r) \/ r \in x,
         \A r \in x : BaseRule(r), Drop \notin x,
         Moved(Agent), Within(Agent, InitScript)',
         failed' \in BOOLEAN, failed => failed',
         ~failed' => DoneTo(chain', InitScript, 1, step'[Agent], addr'[Agent]),
         UNCHANGED <<phase, fw, exists, jump, current, man, st, crashes, recent,
                     overlap>>
  PROVE  IInv'
<1> USE DEF IInv, Applying
<1>0. fw = FALSE /\ recent = {} /\ jump /\ exists /\ Applying = {}
  BY DEF Progress, Unpushed
<1>1. TypeOK'
  BY DEF TypeOK, Moved
<1>2. Progress'
  BY <1>0 DEF Progress
<1>3. PushProgress'
  BY AgentAssumption DEF PushProgress, Within, Moved
<1>4. OnlyListed'
  BY <1>0 DEF OnlyListed, Listed
<1>5. Unpushed' /\ Alone' /\ InStep' /\ HasDrop'
  BY <1>0 DEF Unpushed, Alone, InStep, HasDrop
<1>6. SetupInStep'
  BY DEF SetupInStep
<1>7. Complete'
  BY DEF Complete, AtRest
<1>8. QED
  BY <1>1, <1>2, <1>3, <1>4, <1>5, <1>6, <1>7

\* The parts of init.
LEMMA InitParts ==
  ASSUME NEW n \in 1..4
  PROVE  /\ InitScript[n] \in Seq(AcceptRules)
         /\ \A r : RuleOf(InitScript[n], r) => BaseRule(r)
BY InitScriptFacts, BaseFacts DEF BaseRule

LEMMA InitRules == ASSUME IInv, InitRule PROVE IInv'
<1> DEFINE n == step[Agent]
           a == addr[Agent]
           x == InitPart[a + 1]
<1>0. /\ phase = "rules" /\ fw = FALSE /\ recent = {} /\ jump /\ exists
      /\ Applying = {} /\ current = NoManifest
      /\ n \in 1..5 /\ a \in Nat /\ a < Len(InitScript[n]) /\ chain \in Seq(Rules)
      /\ InitPart = InitScript[n] /\ ~Has(chain, Drop)
      /\ ~failed => DoneTo(chain, InitScript, 1, n, a)
  BY InitScriptFacts
     DEF IInv, InitRule, Progress, Unpushed, Within, TypeOK, InitPart, SetupInStep
<1>1. /\ Moved(Agent)
      /\ \/ /\ a + 1 < Len(InitScript[n])
            /\ step'[Agent] = n /\ addr'[Agent] = a + 1
         \/ /\ ~(a + 1 < Len(InitScript[n]))
            /\ step'[Agent] = n + 1 /\ addr'[Agent] = 0
  BY <1>0, AdvanceFacts DEF InitRule, IInv
<1>2. /\ fw' = (n = 5) /\ phase' = (IF fw' THEN "up" ELSE phase)
      /\ chain' = Execute(x)
      /\ UNCHANGED <<exists, jump, current, man, st, crashes, failed, recent,
                     overlap>>
  BY InitScriptFacts DEF InitRule, histVars
<1>3. CASE n \in 1..4
  <2>1. /\ InitScript[n] \in Seq(AcceptRules)
        /\ \A r : RuleOf(InitScript[n], r) => BaseRule(r)
    BY <1>3, InitParts
  <2>2. x = InitScript[n][a + 1] /\ a + 1 \in DOMAIN InitScript[n]
    BY <1>0, <2>1
  <2>3. x \in AcceptRules /\ BaseRule(x)
    BY <2>1, <2>2 DEF RuleOf
  <2>4. x \in Rules /\ x # Drop /\ x # Flush
    BY <2>3, DropFacts DEF AcceptRules
  <2>5. chain' = Append(chain, x)
    BY <1>2, <2>4 DEF Execute
  <2>6. chain' \in Seq(Rules) /\ \A r : Has(chain', r) <=> Has(chain, r) \/ r = x
    BY <1>0, <2>4, <2>5, AppendHas
  <2>7. ~failed => /\ DoneTo(chain', InitScript, 1, n, a + 1)
                   /\ ~(a + 1 < Len(InitScript[n])) =>
                         DoneTo(chain', InitScript, 1, n + 1, 0)
    <3>1. n \in Nat /\ 1 \in Nat /\ Has(chain', InitScript[n][a + 1])
          /\ \A r : Has(chain, r) => Has(chain', r)
      BY <1>0, <2>2, <2>6
    <3> HIDE DEF n, a, x
    <3>2. QED
      BY <1>0, <2>1, <3>1, NextRule
  <2>8. Within(Agent, InitScript)'
    BY <1>1, <1>3, InitScriptFacts DEF Within
  <2>9. UNCHANGED <<phase, fw>>
    <3>1. n # 5
      BY <1>3
    <3> HIDE DEF n
    <3>2. QED
      BY <1>0, <1>2, <3>1
  <2>10. ~failed' => DoneTo(chain', InitScript, 1, step'[Agent], addr'[Agent])
    BY <1>1, <1>2, <2>7
  <2> DEFINE X == {x}
  <2>11. /\ \A r : Has(chain', r) <=> Has(chain, r) \/ r \in X
         /\ \A r \in X : BaseRule(r)
         /\ Drop \notin X
    BY <2>3, <2>4, <2>6
  <2>12. failed' \in BOOLEAN /\ (failed => failed')
    BY <1>2 DEF IInv, TypeOK
  <2> HIDE DEF X, x, a, n
  <2>13. QED
    BY <1>0, <1>1, <1>2, <2>6, <2>8, <2>9, <2>10, <2>11, <2>12, Boots
<1>4. CASE n = 5
  <2>1. InitScript[5] = <<Drop>>
    BY InitScriptFacts
  <2>2. Len(InitScript[5]) = 1 /\ a = 0 /\ x = Drop
    BY <1>0, <1>4, <2>1
  <2>3. chain' = Append(chain, Drop)
    BY <1>2, <2>2, DropFacts DEF Execute
  <2>4. /\ chain' \in Seq(Rules)
        /\ \A r : Has(chain', r) <=> Has(chain, r) \/ r = Drop
        /\ DropLast(chain')
    BY <1>0, <2>3, DropFacts, AppendHas
  <2>5. fw' = TRUE /\ phase' = "up"
    BY <1>2, <1>4
  <2>6. ~failed => Booted(chain')
    <3>1. ASSUME ~failed, NEW r, BaseRule(r) PROVE Has(chain, r)
      <4>1. PICK i \in 1..4 : RuleOf(Base[i], r)
        BY <3>1 DEF BaseRule
      <4>2. i \in 1..(n - 1) /\ RuleOf(InitScript[i], r)
        BY <1>4, <4>1, InitScriptFacts
      <4>3. QED
        BY <1>0, <3>1, <4>2 DEF DoneTo
    <3>2. QED
      BY <2>4, <3>1 DEF Booted
  <2>7. TypeOK'
    BY <1>1, <1>2, <2>4, <2>5 DEF IInv, TypeOK, Moved, Phases
  <2>8. Progress'
    BY <1>0, <1>2, <2>5 DEF IInv, Progress, Applying
  <2>9. PushProgress'
    BY <1>1, <1>2, AgentAssumption DEF IInv, PushProgress, Within, Moved
  <2>10. OnlyListed'
    BY <1>0, <1>2, <2>4 DEF IInv, OnlyListed, Listed
  <2>11. Unpushed' /\ Alone' /\ InStep'
    BY <1>0, <1>2, <2>5 DEF Unpushed, Alone, InStep, Applying
  <2>12. HasDrop'
    BY <2>4 DEF HasDrop
  <2>13. SetupInStep' /\ Complete'
    BY <1>0, <1>2, <2>5, <2>6 DEF SetupInStep, Complete
  <2>14. QED
    BY <2>7, <2>8, <2>9, <2>10, <2>11, <2>12, <2>13 DEF IInv
<1>5. QED
  BY <1>0, <1>3, <1>4

\* A tunnel rule of init that fails, or a lookup.
LEMMA InitTunnel == ASSUME IInv, InitTunnelFails PROVE IInv'
<1>0. /\ phase = "rules" /\ step[Agent] = 2 /\ addr[Agent] \in Nat
      /\ InitPart = InitScript[2] /\ InitScript[2] \in Seq(AcceptRules)
      /\ ~failed => DoneTo(chain, InitScript, 1, 2, addr[Agent])
  BY InitParts DEF IInv, InitTunnelFails, TypeOK, InitPart, SetupInStep
<1>1. Moved(Agent) /\ Within(Agent, InitScript)'
      /\ (InitPart = <<>> => step'[Agent] = 3 /\ addr'[Agent] = 0)
  <2>1. CASE Advance(Agent, InitPart)
    <3>1. InitPart = <<>> => ~(addr[Agent] + 1 < Len(InitPart))
      BY <1>0
    <3>2. QED
      BY <1>0, <2>1, <3>1, AdvanceFacts, InitScriptFacts DEF IInv, Within
  <2>2. CASE NextPart(Agent)
    BY <1>0, <2>2, NextPartFacts, InitScriptFacts DEF IInv, Within
  <2>3. QED
    BY <2>1, <2>2 DEF InitTunnelFails
<1>2. ~failed' => DoneTo(chain, InitScript, 1, step'[Agent], addr'[Agent])
  <2>1. SUFFICES ASSUME ~failed' PROVE DoneTo(chain, InitScript, 1, 3, 0)
    BY <1>1 DEF InitTunnelFails
  <2>2. ~failed /\ InitScript[2] = <<>>
    BY <1>0, <2>1 DEF InitTunnelFails
  <2>3. \A r : ~RuleOf(InitScript[2], r)
    BY <2>2 DEF RuleOf
  <2>4. DoneTo(chain, InitScript, 1, 2 + 1, 0)
    BY <1>0, <2>2, <2>3, WholePart
  <2>5. QED
    BY <2>4
<1>3. QED
  <2> DEFINE X == {}
  <2>1. /\ \A r : Has(chain, r) <=> Has(chain, r) \/ r \in X
        /\ \A r \in X : BaseRule(r)
        /\ Drop \notin X
    OBVIOUS
  <2>2. failed' \in BOOLEAN /\ (failed => failed')
    BY DEF InitTunnelFails, IInv, TypeOK
  <2>3. /\ chain' = chain /\ chain \in Seq(Rules)
        /\ UNCHANGED <<phase, fw, exists, jump, current, man, st, crashes, recent,
                       overlap>>
    BY DEF InitTunnelFails, IInv, TypeOK, kernelVars
  <2> HIDE DEF X
  <2>4. QED
    BY <1>0, <1>1, <1>2, <2>1, <2>2, <2>3, Boots
-----------------------------------------------------------------------------
\* Store.Update.
LEMMA Updates ==
  ASSUME IInv, NEW p \in Pushes, NEW m \in Manifests, Update(p, m)
  PROVE  IInv'
<1> USE DEF IInv, Applying, kernelVars
<1>0. m \in Seq(Patterns) /\ m # NoManifest /\ Len(Script(m)) \in Nat
      /\ Len(Script(m)) >= 1
  BY ManifestSeq, ScriptFacts
<1>1. TypeOK'
  BY DEF Update, TypeOK
<1>2. /\ \A q \in Pushes \ {p} : st'[q] = st[q] /\ man'[q] = man[q]
      /\ man'[p] = m /\ st'[p] = (IF fw THEN "apply" ELSE "done")
      /\ st[p] = "idle" /\ step[p] = 1 /\ addr[p] = 0 /\ phase = "up"
      /\ recent' = recent \cup {p} /\ (~overlap' => Applying = {}) /\ current' = m
      /\ p \notin recent
      /\ UNCHANGED <<phase, fw, exists, jump, chain, step, addr, failed>>
  BY DEF Update, TypeOK, PushProgress
<1>3. Progress'
  BY <1>0, <1>2 DEF Progress, TypeOK
<1>4. PushProgress'
  BY <1>0, <1>2 DEF PushProgress, TypeOK, Within
<1>5. \A r : Listed(r) => Listed(r)'
  <2>1. \A q \in recent : q \in recent' /\ man'[q] = man[q]
    BY <1>2 DEF TypeOK
  <2>2. QED
    BY <2>1 DEF Listed
<1>6. OnlyListed' /\ Unpushed'
  BY <1>2, <1>5 DEF OnlyListed, Unpushed
<1>7. HasDrop'
  BY <1>2 DEF HasDrop
<1>8. Alone' /\ InStep' /\ SetupInStep'
  BY <1>2 DEF Alone, InStep, SetupInStep
<1>9. Complete'
  BY <1>2 DEF Complete, AtRest, Progress
<1>10. QED
  BY <1>1, <1>3, <1>4, <1>6, <1>7, <1>8, <1>9

\* What is known of a push whose Apply is under way.
LEMMA UnderWay ==
  ASSUME IInv, NEW p \in Pushes, st[p] = "apply"
  PROVE  /\ phase = "up" /\ fw /\ exists /\ jump /\ p \in recent
         /\ man[p] \in Seq(Patterns) /\ man[p] \in Manifests
         /\ man[p] # NoManifest
         /\ step[p] \in 1..(Len(man[p]) + 6) /\ addr[p] \in Nat
         /\ addr[p] = 0 \/ addr[p] < Len(Script(man[p])[step[p]])
         /\ Len(Script(man[p])) = Len(man[p]) + 6
         /\ Len(man[p]) \in Nat
<1>1. man[p] \in Manifests /\ p \in recent /\ Within(p, Script(man[p]))
  BY DEF IInv, PushProgress
<1>2. phase = "up" /\ fw
  BY DEF IInv, Progress, Applying
<1>3. QED
  BY <1>1, <1>2, ManifestSeq, ScriptFacts DEF IInv, Progress, Within, TypeOK

\* A step of an Apply that has flushed, or fails: it adds rules x of its part, or
\* none, and goes on or ends.
LEMMA Moves ==
  ASSUME IInv, NEW p \in Pushes, st[p] = "apply", NEW x,
         step[p] > 1 \/ (failed' /\ st'[p] = "done"),
         chain' \in Seq(Rules), \A r : Has(chain', r) <=> Has(chain, r) \/ r \in x,
         \A r \in x : r = Drop \/ BaseRule(r) \/ EntryRule(man[p], r),
         Moved(p), step'[p] >= step[p],
         st' \in [Pushes -> {"idle", "apply", "done"}],
         \A q \in Pushes \ {p} : st'[q] = st[q],
         \/ st'[p] = "apply" /\ Within(p, Script(man[p]))'
         \/ st'[p] = "done",
         failed' \in BOOLEAN, failed => failed',
         (~failed' /\ st'[p] = "apply") =>
             /\ Drop \notin x
             /\ DoneTo(chain, Script(man[p]), 2, step[p], addr[p])
                   => DoneTo(chain', Script(man[p]), 2, step'[p], addr'[p]),
         (~failed' /\ st'[p] = "done") =>
             /\ Drop \in x
             /\ ~Has(chain, Drop)
                   /\ DoneTo(chain, Script(man[p]), 2, step[p], addr[p])
                   => Finished(chain', man[p]),
         UNCHANGED <<phase, fw, exists, jump, current, man, crashes, recent,
                     overlap>>
  PROVE  IInv'
<1>0. /\ phase = "up" /\ fw /\ exists /\ jump /\ p \in recent
      /\ man[p] \in Manifests /\ man[p] # NoManifest
  BY UnderWay
<1>1. TypeOK'
  BY DEF IInv, TypeOK, Moved
<1>2. Progress'
  BY <1>0 DEF IInv, Progress
<1>3. PushProgress'
  <2>1. \A q \in Pushes \ {p} :
           /\ st'[q] = st[q] /\ step'[q] = step[q] /\ addr'[q] = addr[q]
           /\ Within(q, Script(man[q])) => Within(q, Script(man[q]))'
    BY DEF Moved, Within
  <2>2. QED
    BY <1>0, <2>1 DEF IInv, PushProgress
<1>4. OnlyListed'
  BY <1>0 DEF IInv, OnlyListed, Listed
<1>5. Unpushed' /\ SetupInStep'
  BY <1>0 DEF Unpushed, SetupInStep
<1>6. HasDrop'
  <2>1. CASE st'[p] = "apply"
    <3>1. step'[p] > 1
      BY <2>1 DEF Moved, IInv, TypeOK
    <3>2. QED
      BY <2>1, <3>1 DEF HasDrop, Applying
  <2>2. CASE st'[p] = "done"
    BY <2>2 DEF HasDrop
  <2>3. QED
    BY <2>1, <2>2
<1>7. ~overlap => /\ man[p] = current /\ Applying = {p}
                  /\ step[p] > 1 => recent = {p}
                  /\ \A q \in Pushes : st[q] = "apply" => q = p
  BY DEF IInv, Alone, Applying
<1>8. Alone'
  BY <1>7 DEF Alone, Applying
<1>9. ~overlap /\ ~failed' => /\ ~Has(chain, Drop)
                              /\ DoneTo(chain, Script(man[p]), 2, step[p], addr[p])
  BY DEF IInv, InStep, Applying
<1>10. InStep'
  <2>1. SUFFICES ASSUME ~overlap', ~failed', NEW q \in Applying', step'[q] > 1
                 PROVE  /\ ~Has(chain', Drop)
                        /\ DoneTo(chain', Script(man'[q]), 2, step'[q], addr'[q])
    BY DEF InStep
  <2>2. q = p /\ st'[p] = "apply"
    BY <1>7, <2>1 DEF Applying
  <2>3. QED
    BY <1>9, <2>1, <2>2
<1>11. Complete'
  <2>1. SUFFICES ASSUME AtRest', ~failed', ~overlap'
                 PROVE  /\ current' = man[p] /\ Finished(chain', man[p])
                        /\ recent' = {p}
    BY <1>0 DEF Complete
  <2>2. st'[p] = "done"
    BY <2>1 DEF AtRest, Applying
  <2>3. QED
    BY <1>7, <1>9, <2>1, <2>2
<1>12. QED
  BY <1>1, <1>2, <1>3, <1>4, <1>5, <1>6, <1>8, <1>10, <1>11 DEF IInv

\* The flush of an Apply.
LEMMA Flushes ==
  ASSUME IInv, NEW p \in Pushes, Succeed(p), step[p] = 1
  PROVE  IInv'
<1>0. st[p] = "apply" /\ addr[p] < Len(Part(p))
  BY DEF Succeed
<1>1. /\ phase = "up" /\ fw /\ exists /\ jump /\ p \in recent
      /\ man[p] \in Seq(Patterns) /\ man[p] \in Manifests /\ man[p] # NoManifest
      /\ Len(Script(man[p])) = Len(man[p]) + 6 /\ Len(man[p]) \in Nat
      /\ addr[p] \in Nat
  BY <1>0, UnderWay
<1>2. Part(p) = <<Flush>>
  BY <1>1, ScriptFacts DEF Part
<1>3. Len(Part(p)) = 1 /\ addr[p] = 0 /\ Part(p)[addr[p] + 1] = Flush
  BY <1>0, <1>1, <1>2
<1>4. chain' = <<>>
  BY <1>3 DEF Succeed, Execute
<1>5. Moved(p) /\ step'[p] = 2 /\ addr'[p] = 0
  <2>1. TypeOK /\ Advance(p, Part(p)) /\ ~(addr[p] + 1 < Len(Part(p)))
    BY <1>3 DEF Succeed, IInv
  <2>2. Moved(p) /\ step'[p] = step[p] + 1 /\ addr'[p] = 0
    BY <2>1, AdvanceFacts
  <2>3. QED
    BY <2>2
<1>6. /\ st' = st
      /\ \/ UNCHANGED <<failed, recent>> /\ Applying # {p}
         \/ failed' = FALSE /\ recent' = {p} /\ Applying = {p}
      /\ UNCHANGED <<phase, fw, exists, jump, current, man, crashes, overlap>>
  <2>1. 1 # Len(Script(man[p]))
    BY <1>1
  <2>2. st' = [st EXCEPT ![p] = @]
    BY <2>1 DEF Succeed
  <2>3. st' = st
    BY <2>2 DEF IInv, TypeOK
  <2>4. QED
    BY <2>3 DEF Succeed
<1>7. p \in recent'
  BY <1>1, <1>6
<1>8. TypeOK'
  <2>1. chain' \in Seq(Rules)
    BY <1>4
  <2>2. failed' \in BOOLEAN /\ recent' \subseteq Pushes
    BY <1>6 DEF IInv, TypeOK
  <2>3. QED
    BY <1>5, <1>6, <2>1, <2>2 DEF IInv, TypeOK, Moved
<1>9. Progress'
  BY <1>1, <1>6 DEF IInv, Progress
<1>10. PushProgress'
  <2>1. \A q \in Pushes \ {p} :
           /\ step'[q] = step[q] /\ addr'[q] = addr[q]
           /\ Within(q, Script(man[q])) => Within(q, Script(man[q]))'
    BY <1>5, <1>6 DEF Moved, Within
  <2>2. Within(p, Script(man[p]))'
    BY <1>1, <1>5, <1>6 DEF Within
  <2>3. \A q \in Pushes : st[q] = "apply" => q \in recent'
    BY <1>0, <1>6 DEF IInv, PushProgress, Applying
  <2>4. \A q \in recent' : q \in recent
    BY <1>1, <1>6
  <2>5. QED
    BY <1>0, <1>1, <1>6, <1>7, <2>1, <2>2, <2>3, <2>4 DEF IInv, PushProgress
<1>11. OnlyListed' /\ Unpushed' /\ SetupInStep'
  BY <1>1, <1>4, <1>6, EmptyHas DEF OnlyListed, Unpushed, SetupInStep
<1>12. HasDrop'
  BY <1>0, <1>5, <1>6 DEF HasDrop, Applying
<1>13. ~overlap => /\ man[p] = current /\ Applying = {p}
                   /\ \A q \in Pushes : st[q] = "apply" => q = p
  BY <1>0 DEF IInv, Alone, Applying
<1>14. Alone'
  BY <1>6, <1>13 DEF Alone, Applying
<1>15. DoneTo(chain', Script(man[p]), 2, 2, 0) /\ ~Has(chain', Drop)
  BY <1>4, EmptyHas DEF DoneTo
<1>16. InStep'
  BY <1>5, <1>6, <1>13, <1>15 DEF InStep, Applying
<1>17. Complete'
  BY <1>0, <1>6 DEF Complete, AtRest, Applying
<1>18. QED
  BY <1>8, <1>9, <1>10, <1>11, <1>12, <1>14, <1>16, <1>17 DEF IInv

\* A rule that an Apply adds.
LEMMA Adds ==
  ASSUME IInv, NEW p \in Pushes, Succeed(p), step[p] > 1
  PROVE  IInv'
<1> DEFINE s == Script(man[p])
           n == step[p]
           a == addr[p]
           x == s[n][a + 1]
           X == {x}
<1>0. st[p] = "apply" /\ a < Len(s[n]) /\ Part(p) = s[n]
  BY DEF Succeed, Part
<1>1. /\ man[p] \in Seq(Patterns) /\ n \in 2..(Len(man[p]) + 6) /\ a \in Nat
      /\ Len(s) = Len(man[p]) + 6 /\ Len(man[p]) \in Nat /\ n \in Nat
  BY <1>0, UnderWay
<1>2. chain \in Seq(Rules)
  BY DEF IInv, TypeOK
<1>3. /\ Moved(p)
      /\ \/ a + 1 < Len(s[n]) /\ step'[p] = n /\ addr'[p] = a + 1
         \/ ~(a + 1 < Len(s[n])) /\ step'[p] = n + 1 /\ addr'[p] = 0
  BY <1>0, AdvanceFacts DEF Succeed, IInv
<1>4. /\ st' \in [Pushes -> {"idle", "apply", "done"}]
      /\ \A q \in Pushes \ {p} : st'[q] = st[q]
      /\ st'[p] = IF n = Len(s) THEN "done" ELSE "apply"
  BY <1>0 DEF Succeed, IInv, TypeOK
<1>5. UNCHANGED <<phase, fw, exists, jump, current, man, crashes, failed, recent,
                  overlap>>
  <2>1. n # 1
    BY <1>1
  <2>2. QED
    BY <2>1 DEF Succeed
<1>6. failed' \in BOOLEAN /\ (failed => failed') /\ step'[p] >= step[p]
  BY <1>1, <1>3, <1>5 DEF IInv, TypeOK
<1>7. chain' = Execute(x)
  BY <1>0 DEF Succeed
<1>8. CASE n # Len(s)
  <2>1. n \in 2..(Len(man[p]) + 5)
    BY <1>1, <1>8
  <2>2. /\ s[n] \in Seq(AcceptRules)
        /\ \A r : RuleOf(s[n], r) => BaseRule(r) \/ EntryRule(man[p], r)
    BY <1>1, <2>1, Parts
  <2>3. a + 1 \in DOMAIN s[n] /\ x \in AcceptRules
    BY <1>0, <1>1, <2>2
  <2>4. RuleOf(s[n], x)
    BY <2>3 DEF RuleOf
  <2>5. x \in Rules /\ x # Drop /\ x # Flush
    BY <2>3, DropFacts DEF AcceptRules
  <2>6. chain' = Append(chain, x)
    BY <1>7, <2>5 DEF Execute
  <2>7. chain' \in Seq(Rules) /\ \A r : Has(chain', r) <=> Has(chain, r) \/ r = x
    BY <1>2, <2>5, <2>6, AppendHas
  <2>8. /\ \A r : Has(chain', r) <=> Has(chain, r) \/ r \in X
        /\ \A r \in X : r = Drop \/ BaseRule(r) \/ EntryRule(man[p], r)
        /\ Drop \notin X
    BY <2>2, <2>4, <2>5, <2>7
  <2>9. Within(p, Script(man[p]))'
    BY <1>1, <1>3, <1>5, <2>1 DEF Within
  <2>10. DoneTo(chain, s, 2, n, a) => DoneTo(chain', s, 2, step'[p], addr'[p])
    <3>1. SUFFICES ASSUME DoneTo(chain, s, 2, n, a)
                   PROVE  DoneTo(chain', s, 2, step'[p], addr'[p])
      OBVIOUS
    <3>2. Has(chain', s[n][a + 1]) /\ (\A r : Has(chain, r) => Has(chain', r))
          /\ 2 \in Nat
      BY <2>7
    <3> HIDE DEF s, n, a, x
    <3>3. /\ DoneTo(chain', s, 2, n, a + 1)
          /\ ~(a + 1 < Len(s[n])) => DoneTo(chain', s, 2, n + 1, 0)
      BY <1>0, <1>1, <2>2, <3>1, <3>2, NextRule
    <3>4. QED
      BY <1>3, <3>3
  <2>11. st'[p] = "apply"
    BY <1>4, <1>8
  <2>12. QED
    <3>1. (~failed' /\ st'[p] = "apply") =>
             /\ Drop \notin X
             /\ DoneTo(chain, Script(man[p]), 2, step[p], addr[p])
                   => DoneTo(chain', Script(man[p]), 2, step'[p], addr'[p])
      BY <2>8, <2>10
    <3>2. st'[p] # "done"
      BY <2>11
    <3> HIDE DEF s, n, a, x, X
    <3>3. step[p] > 1
      OBVIOUS
    <3>4. QED
      BY <1>0, <1>3, <1>4, <1>5, <1>6, <2>7, <2>8, <2>9, <2>11, <3>1, <3>2, <3>3,
         Moves
<1>9. CASE n = Len(s)
  <2>1. s[n] = <<Drop>>
    BY <1>1, <1>9, ScriptFacts
  <2>2. a = 0 /\ x = Drop
    BY <1>0, <1>1, <2>1
  <2>3. chain' = Append(chain, Drop)
    BY <1>7, <2>2, DropFacts DEF Execute
  <2>4. /\ chain' \in Seq(Rules)
        /\ \A r : Has(chain', r) <=> Has(chain, r) \/ r = Drop
        /\ ~Has(chain, Drop) => DropLast(chain')
    BY <1>2, <2>3, DropFacts, AppendHas
  <2>5. /\ \A r : Has(chain', r) <=> Has(chain, r) \/ r \in X
        /\ \A r \in X : r = Drop \/ BaseRule(r) \/ EntryRule(man[p], r)
        /\ Drop \in X
    BY <2>2, <2>4
  <2>6. st'[p] = "done"
    BY <1>4, <1>9
  <2>7. ~Has(chain, Drop) /\ DoneTo(chain, s, 2, n, a) => Finished(chain', man[p])
    <3>1. SUFFICES ASSUME ~Has(chain, Drop), DoneTo(chain, s, 2, n, a)
                   PROVE  Finished(chain', man[p])
      OBVIOUS
    <3>2. \A i \in 2..(n - 1) : \A r : RuleOf(s[i], r) => Has(chain, r)
      BY <3>1 DEF DoneTo
    <3>3. ASSUME NEW r, BaseRule(r) PROVE Has(chain, r)
      <4>1. PICK i \in 1..4 : RuleOf(Base[i], r)
        BY <3>3 DEF BaseRule
      <4>2. 1 + i \in 2..(n - 1) /\ s[1 + i] = Base[i]
        BY <1>1, <1>9, <4>1, ScriptFacts
      <4>3. QED
        BY <3>2, <4>1, <4>2
    <3>4. ASSUME NEW r, EntryRule(man[p], r) PROVE Has(chain, r)
      <4>1. PICK i \in DOMAIN man[p] : RuleOf(AddressRules(man[p][i]), r)
        BY <3>4 DEF EntryRule
      <4>2. i \in 1..Len(man[p]) /\ s[5 + i] = AddressRules(man[p][i])
        BY <1>1, <4>1, ScriptFacts
      <4>3. 5 + i \in 2..(n - 1)
        BY <1>1, <1>9, <4>2
      <4>4. QED
        BY <3>2, <4>1, <4>2, <4>3
    <3>5. QED
      BY <2>4, <3>1, <3>3, <3>4 DEF Finished
  <2>8. QED
    <3>1. (~failed' /\ st'[p] = "done") =>
             /\ Drop \in X
             /\ ~Has(chain, Drop)
                   /\ DoneTo(chain, Script(man[p]), 2, step[p], addr[p])
                   => Finished(chain', man[p])
      BY <2>5, <2>7
    <3>2. st'[p] # "apply"
      BY <2>6
    <3> HIDE DEF s, n, a, x, X
    <3>3. step[p] > 1
      OBVIOUS
    <3>4. QED
      BY <1>0, <1>3, <1>4, <1>5, <1>6, <2>4, <2>5, <2>6, <3>1, <3>2, <3>3, Moves
<1>10. QED
  BY <1>8, <1>9

\* A command of an Apply that fails, or an entry without an address.
LEMMA Failures ==
  ASSUME IInv, NEW p \in Pushes, Fail(p)
  PROVE  IInv'
<1> DEFINE s == Script(man[p])
           n == step[p]
           a == addr[p]
           X == {}
<1>0. st[p] = "apply" /\ Part(p) = s[n]
  BY DEF Fail, Part
<1>1. /\ man[p] \in Seq(Patterns) /\ n \in 1..(Len(man[p]) + 6) /\ a \in Nat
      /\ a = 0 \/ a < Len(s[n])
      /\ Len(s) = Len(man[p]) + 6 /\ Len(man[p]) \in Nat /\ n \in Nat
  BY <1>0, UnderWay
<1>2. /\ chain' = chain /\ chain' \in Seq(Rules)
      /\ failed' \in BOOLEAN /\ (failed => failed')
      /\ ~failed' => ~failed /\ s[n] = <<>>
      /\ UNCHANGED <<phase, fw, exists, jump, current, man, crashes, recent,
                     overlap>>
  BY <1>0 DEF Fail, kernelVars, IInv, TypeOK
<1>3. /\ \A r : Has(chain', r) <=> Has(chain, r) \/ r \in X
      /\ \A r \in X : r = Drop \/ BaseRule(r) \/ EntryRule(man[p], r)
      /\ Drop \notin X
  BY <1>2
<1>4. CASE TunnelPart(p) \/ EntryPart(p)
  <2>1. n \in 2..(Len(man[p]) + 5)
    BY <1>1, <1>4 DEF TunnelPart, EntryPart
  <2>2. s[n] \in Seq(AcceptRules)
    BY <1>1, <2>1, Parts
  <2>3. /\ Moved(p) /\ st' = st
        /\ \/ a + 1 < Len(s[n]) /\ step'[p] = n /\ addr'[p] = a + 1
           \/ step'[p] = n + 1 /\ addr'[p] = 0
    <3>1. CASE TunnelPart(p)
      <4>1. Advance(p, s[n]) /\ st' = st
        BY <1>0, <1>4, <3>1 DEF Fail
      <4>2. QED
        BY <4>1, AdvanceFacts DEF IInv
    <3>2. CASE ~TunnelPart(p)
      <4>1. NextPart(p) /\ st' = st
        BY <1>4, <3>2 DEF Fail
      <4>2. QED
        BY <4>1, NextPartFacts DEF IInv
    <3>3. QED
      BY <3>1, <3>2
  <2>4. Within(p, Script(man[p]))'
    BY <1>1, <1>2, <2>1, <2>3 DEF Within
  <2>5. step'[p] >= step[p] /\ step[p] > 1
    BY <1>1, <2>1, <2>3
  <2>6. ~failed' => (DoneTo(chain, s, 2, n, a)
                       => DoneTo(chain', s, 2, step'[p], addr'[p]))
    <3>1. SUFFICES ASSUME ~failed', DoneTo(chain, s, 2, n, a)
                   PROVE  DoneTo(chain', s, 2, step'[p], addr'[p])
      OBVIOUS
    <3>2. s[n] = <<>> /\ Len(s[n]) = 0
      BY <1>2, <3>1
    <3>3. step'[p] = n + 1 /\ addr'[p] = 0
      BY <1>1, <2>3, <3>2
    <3>4. (\A r : RuleOf(s[n], r) => Has(chain', r)) /\ 2 \in Nat
          /\ (\A r : Has(chain, r) => Has(chain', r))
      BY <1>2, <3>2 DEF RuleOf
    <3> HIDE DEF s, n, a
    <3>5. DoneTo(chain', s, 2, n + 1, 0)
      BY <1>1, <3>1, <3>4, WholePart
    <3>6. QED
      BY <3>3, <3>5
  <2>7. /\ st' \in [Pushes -> {"idle", "apply", "done"}]
        /\ \A q \in Pushes \ {p} : st'[q] = st[q]
        /\ st'[p] = "apply" /\ st'[p] # "done"
    BY <1>0, <2>3 DEF IInv, TypeOK
  <2>8. QED
    <3>1. (~failed' /\ st'[p] = "apply") =>
             /\ Drop \notin X
             /\ DoneTo(chain, Script(man[p]), 2, step[p], addr[p])
                   => DoneTo(chain', Script(man[p]), 2, step'[p], addr'[p])
      BY <1>3, <2>6
    <3> HIDE DEF s, n, a, X
    <3>2. QED
      BY <1>0, <1>2, <1>3, <2>3, <2>4, <2>5, <2>7, <3>1, Moves
<1>5. CASE ~(TunnelPart(p) \/ EntryPart(p))
  <2>1. UNCHANGED <<step, addr>> /\ st' = [st EXCEPT ![p] = "done"]
    BY <1>5 DEF Fail
  <2>2. /\ st' \in [Pushes -> {"idle", "apply", "done"}]
        /\ \A q \in Pushes \ {p} : st'[q] = st[q]
        /\ st'[p] = "done" /\ st'[p] # "apply"
    BY <2>1 DEF IInv, TypeOK
  <2>3. Moved(p) /\ step'[p] >= step[p]
    BY <1>1, <2>1 DEF Moved, IInv, TypeOK
  <2>4. s[n] # <<>>
    <3>1. n # 3 /\ n \notin 6..(Len(man[p]) + 5)
      BY <1>5 DEF TunnelPart, EntryPart
    <3>2. CASE n = 1
      <4>1. s[n] = <<Flush>>
        BY <1>1, <3>2, ScriptFacts
      <4>2. QED
        BY <4>1
    <3>3. CASE n = Len(man[p]) + 6
      <4>1. s[n] = <<Drop>>
        BY <1>1, <3>3, ScriptFacts
      <4>2. QED
        BY <4>1
    <3>4. CASE n \in 2..(Len(man[p]) + 5)
      BY <1>1, <3>1, <3>4, Parts
    <3>5. QED
      BY <1>1, <3>2, <3>3, <3>4
  <2>5. failed'
    BY <1>2, <2>4
  <2> HIDE DEF s, n, a, X
  <2>6. QED
    BY <1>0, <1>2, <1>3, <2>2, <2>3, <2>5, Moves
<1>6. QED
  BY <1>4, <1>5

\* A lookup that fails: an entry's rules are added at once, by name.
LEMMA Lookups ==
  ASSUME IInv, NEW p \in Pushes, LookupFails(p)
  PROVE  IInv'
<1> DEFINE s == Script(man[p])
           n == step[p]
           a == addr[p]
           X == IF TunnelPart(p) THEN {} ELSE {r \in Rules : RuleOf(s[n], r)}
<1>0. /\ st[p] = "apply" /\ Part(p) = s[n] /\ NextPart(p)
      /\ TunnelPart(p) \/ EntryPart(p)
      /\ chain' = (IF TunnelPart(p) THEN chain ELSE chain \o s[n])
      /\ failed' = (failed \/ TunnelPart(p)) /\ st' = st
      /\ UNCHANGED <<phase, fw, exists, jump, current, man, crashes, recent,
                     overlap>>
  BY DEF LookupFails, Part
<1>1. /\ man[p] \in Seq(Patterns) /\ n \in 1..(Len(man[p]) + 6) /\ a \in Nat
      /\ Len(s) = Len(man[p]) + 6 /\ Len(man[p]) \in Nat /\ n \in Nat
  BY <1>0, UnderWay
<1>2. n \in 2..(Len(man[p]) + 5) /\ chain \in Seq(Rules)
  BY <1>0, <1>1 DEF TunnelPart, EntryPart, IInv, TypeOK
<1>3. /\ s[n] \in Seq(AcceptRules)
      /\ \A r : RuleOf(s[n], r) => BaseRule(r) \/ EntryRule(man[p], r)
  BY <1>1, <1>2, Parts
<1>4. \A r : RuleOf(s[n], r) => r \in AcceptRules
  BY <1>3 DEF RuleOf
<1>5. s[n] \in Seq(Rules) /\ \A r : RuleOf(s[n], r) => r \in Rules /\ r # Drop
  BY <1>3, <1>4, DropFacts DEF AcceptRules
<1>6. /\ chain' \in Seq(Rules)
      /\ \A r : Has(chain', r) <=> Has(chain, r) \/ r \in X
      /\ \A r \in X : r = Drop \/ BaseRule(r) \/ EntryRule(man[p], r)
      /\ Drop \notin X
  <2>1. CASE TunnelPart(p)
    BY <1>0, <1>2, <2>1
  <2>2. CASE ~TunnelPart(p)
    <3>1. chain' = chain \o s[n] /\ \A r : r \in X <=> RuleOf(s[n], r)
      BY <1>0, <1>5, <2>2
    <3> HIDE DEF X
    <3>2. /\ chain' \in Seq(Rules)
          /\ \A r : Has(chain', r) <=> Has(chain, r) \/ RuleOf(s[n], r)
      BY <1>2, <1>5, <3>1, ConcatHas
    <3>3. QED
      BY <1>3, <1>5, <3>1, <3>2
  <2>3. QED
    BY <2>1, <2>2
<1>7. Moved(p) /\ step'[p] = n + 1 /\ addr'[p] = 0
  BY <1>0, NextPartFacts DEF IInv
<1>8. Within(p, Script(man[p]))' /\ step'[p] >= step[p] /\ step[p] > 1
  BY <1>0, <1>1, <1>2, <1>7 DEF Within
<1>9. failed' \in BOOLEAN /\ (failed => failed') /\ (~failed' => ~TunnelPart(p))
  BY <1>0 DEF IInv, TypeOK, TunnelPart
<1>10. ~failed' => (DoneTo(chain, s, 2, n, a) => DoneTo(chain', s, 2, n + 1, 0))
  <2>1. SUFFICES ASSUME ~failed', DoneTo(chain, s, 2, n, a)
                 PROVE  DoneTo(chain', s, 2, n + 1, 0)
    OBVIOUS
  <2>2. \A r : RuleOf(s[n], r) => r \in X
    BY <1>5, <1>9, <2>1
  <2> HIDE DEF s, n, a, X
  <2>3. (\A r : RuleOf(s[n], r) => Has(chain', r)) /\ 2 \in Nat
        /\ (\A r : Has(chain, r) => Has(chain', r))
    BY <1>6, <2>2
  <2>4. QED
    BY <1>1, <2>1, <2>3, WholePart
<1>11. /\ st' \in [Pushes -> {"idle", "apply", "done"}]
       /\ \A q \in Pushes \ {p} : st'[q] = st[q]
       /\ st'[p] = "apply" /\ st'[p] # "done"
  BY <1>0 DEF IInv, TypeOK
<1>12. (~failed' /\ st'[p] = "apply") =>
           /\ Drop \notin X
           /\ DoneTo(chain, Script(man[p]), 2, step[p], addr[p])
                 => DoneTo(chain', Script(man[p]), 2, step'[p], addr'[p])
  BY <1>6, <1>7, <1>10
<1> HIDE DEF s, n, a, X
<1>13. QED
  BY <1>0, <1>6, <1>7, <1>8, <1>9, <1>11, <1>12, Moves

\* Every step keeps the invariant.
LEMMA StepIInv == IInv /\ [Next]_vars => IInv'
<1> SUFFICES ASSUME IInv, [Next]_vars PROVE IInv'
  OBVIOUS
<1>1. CASE Setup
  BY <1>1, SetupSteps, InitRules, InitTunnel DEF Setup
<1>2. ASSUME NEW p \in Pushes, Push(p) PROVE IInv'
  <2>1. CASE Succeed(p)
    <3>1. step[p] = 1 \/ step[p] > 1
      BY DEF IInv, TypeOK
    <3>2. QED
      BY <2>1, <3>1, Flushes, Adds
  <2>2. QED
    BY <1>2, <2>1, Updates, Failures, Lookups DEF Push
<1>3. CASE Crash \/ Restart
  BY <1>3, Lives
<1>4. CASE UNCHANGED vars
  BY <1>4 DEF vars, kernelVars, histVars, IInv, TypeOK, Progress, PushProgress,
              Within, OnlyListed, Listed, Unpushed, HasDrop, Alone, InStep,
              SetupInStep, Complete, AtRest, Applying
<1>5. QED
  BY <1>1, <1>2, <1>3, <1>4 DEF Next

\* IInv holds in every reachable state.
THEOREM Invariance == Spec => []IInv
<1>1. QED
  BY InitIInv, StepIInv, PTL DEF Spec

\* The state of the firewall, the store and the pushes is well formed however
\* commands fail, pushes overlap and the agent dies (manifest.go, firewall.go).
THEOREM TypeCorrect == Spec => []TypeOK
<1>1. IInv => TypeOK
  BY DEF IInv
<1>2. QED
  BY <1>1, Invariance, PTL
-----------------------------------------------------------------------------
(***************************************************************************)
(* What the chain does with a packet.                                     *)
(***************************************************************************)
\* The rules for a manifest accept what its entries name.
LEMMA NamesRule ==
  ASSUME NEW m \in Seq(Patterns), NEW k \in Packets
  PROVE  Names(m, k) <=> \E r : EntryRule(m, r) /\ Accepts(r, k)
<1>0. k.out \in {"lo", "eth"} /\ k.proto \in {"tcp", "udp"} /\ k.to \in Addresses
  BY DEF Packets
<1>1. ASSUME NEW to \in Addresses, NEW port
      PROVE  Accepts(Accept(Unset, "tcp", to, port), k)
               <=> k.proto = "tcp" /\ to = k.to /\ port \in {Unset, k.port}
  BY <1>0, UnsetAssumption DEF Accepts, Accept, Command
<1>2. ASSUME NEW i \in DOMAIN m
      PROVE  (\E r : RuleOf(AddressRules(m[i]), r) /\ Accepts(r, k))
               <=> /\ k.proto = "tcp" /\ m[i].port \in {Unset, k.port}
                   /\ \E j \in DOMAIN Addrs[m[i].host] : Addrs[m[i].host][j] = k.to
  <2> DEFINE e == m[i]
             a == Addrs[m[i].host]
  <2>1. e \in Patterns
    BY <1>2
  <2>2. e.host \in Hosts
    BY <2>1 DEF Patterns
  <2>3. a \in Seq(Addresses)
    BY <2>2, AddrsAssumption
  <2>4. /\ DOMAIN AddressRules(e) = DOMAIN a
        /\ \A j \in DOMAIN a :
              AddressRules(e)[j] = Accept(Unset, "tcp", a[j], e.port)
    BY DEF AddressRules
  <2>5. \A j \in DOMAIN a : a[j] \in Addresses
    BY <2>3
  <2> HIDE DEF e, a
  <2>6. \A j \in DOMAIN a : Accepts(AddressRules(e)[j], k)
           <=> k.proto = "tcp" /\ a[j] = k.to /\ e.port \in {Unset, k.port}
    BY <1>1, <2>4, <2>5
  <2>7. QED
    BY <2>4, <2>6 DEF RuleOf, e, a
<1>3. QED
  BY <1>2 DEF Names, EntryRule

LEMMA ExemptRule ==
  ASSUME NEW k PROVE Exempt(k) <=> \E r : BaseRule(r) /\ Accepts(r, k)
BY BaseFacts DEF Exempt, Opens, BaseRule, RuleOf

\* A chain with a DROP in which nothing accepts the packet drops it.
LEMMA Drops ==
  ASSUME NEW k, chain \in Seq(Rules), jump, Has(chain, Drop),
         \A r : Has(chain, r) => ~Accepts(r, k)
  PROVE  Dropped(k)
<1>1. \A i \in DOMAIN chain : \A j \in 1..(i - 1) : j \in DOMAIN chain
  OBVIOUS
<1>2. \A j \in DOMAIN chain : ~Accepts(chain[j], k)
  BY DEF Has
<1>3. QED
  BY <1>1, <1>2 DEF Dropped, Has

\* A chain with its DROP at the end lets out what a rule of it accepts.
LEMMA Passes ==
  ASSUME NEW k, chain \in Seq(Rules), DropLast(chain), NEW r, Has(chain, r),
         Accepts(r, k)
  PROVE  ~Dropped(k)
<1>1. PICK i \in DOMAIN chain : chain[i] = r
  BY DEF Has
<1>2. i # Len(chain) => \A j \in DOMAIN chain : chain[j] = Drop => i \in 1..(j - 1)
  BY <1>1 DEF DropLast
<1>3. chain[i] # Drop
  BY <1>1, DropFacts
<1>4. QED
  BY <1>1, <1>2, <1>3 DEF Dropped, DropLast

\* For any number of overlapping pushes: while no command fails, a packet that
\* no push names and nothing exempts gets out only between a running Apply's
\* flush and its DROP (firewall.go:45-62).
THEOREM Closed == Spec => []ClosedOutsideApply
<1>1. IInv => ClosedOutsideApply
  <2>1. SUFFICES ASSUME IInv, NEW k \in Packets, phase = "up", ~failed, ~Dropped(k),
                        ~Exempt(k), \A p \in recent : ~Names(man[p], k)
                 PROVE  \E p \in Applying : step[p] > 1
    BY DEF ClosedOutsideApply
  <2>2. fw /\ jump
    BY <2>1 DEF IInv, Progress
  <2>3. chain \in Seq(Rules) /\ recent \subseteq Pushes
    BY <2>1 DEF IInv, TypeOK
  <2>4. \A p \in recent : man[p] \in Seq(Patterns)
    BY <2>1, <2>3, ManifestSeq DEF IInv, PushProgress
  <2>5. ASSUME NEW r, Has(chain, r) PROVE ~Accepts(r, k)
    <3>1. Listed(r)
      BY <2>1, <2>2, <2>5 DEF IInv, OnlyListed
    <3>2. CASE r = Drop
      BY <3>2, DropFacts
    <3>3. CASE BaseRule(r)
      BY <2>1, <3>3, ExemptRule
    <3>4. CASE \E p \in recent : EntryRule(man[p], r)
      BY <2>1, <2>4, <3>4, NamesRule
    <3>5. QED
      BY <3>1, <3>2, <3>3, <3>4 DEF Listed
  <2>6. ~Has(chain, Drop)
    BY <2>1, <2>2, <2>3, <2>5, Drops
  <2>7. QED
    BY <2>1, <2>2, <2>6 DEF IInv, HasDrop
<1>2. QED
  BY <1>1, Invariance, PTL

\* After a push that met no failure and no other push the kernel lets out exactly
\* the exemptions and what the manifest's entries name, hence all that
\* IsNetworkAllowed allows, whatever DNS answers and whatever patterns, with and
\* without ports, the manifest has (firewall.go:43-68, 141-195,
\* manifest.go:104-114).
THEOREM Exact == Spec => []ExactAtRest
<1>1. IInv => ExactAtRest
  <2>1. SUFFICES ASSUME IInv, AtRest, ~failed, ~overlap
                 PROVE  /\ \A k \in Packets : Dropped(k) <=>
                              ~Exempt(k) /\ ~(HasManifest /\ Names(current, k))
                        /\ \A h \in Hosts, n \in Ports : Allowed(h, n) =>
                              \A i \in DOMAIN Addrs[h] :
                                 ~Dropped(Packet(Addrs[h][i], n))
    BY DEF ExactAtRest
  <2>2. chain \in Seq(Rules) /\ jump /\ fw /\ recent \subseteq Pushes
    BY <2>1 DEF IInv, TypeOK, Progress, AtRest
  <2>3. /\ DropLast(chain) /\ Has(chain, Drop)
        /\ \A r : BaseRule(r) => Has(chain, r)
        /\ HasManifest => \A r : EntryRule(current, r) => Has(chain, r)
        /\ \A p \in recent : HasManifest /\ man[p] = current
    BY <2>1 DEF IInv, Complete, HasManifest, Finished, Booted
  <2>4. HasManifest => current \in Seq(Patterns)
    BY <2>1, ManifestSeq DEF IInv, TypeOK, HasManifest
  <2>5. ASSUME NEW k \in Packets
        PROVE  Dropped(k) <=>
                  ~Exempt(k) /\ ~(HasManifest /\ Names(current, k))
    <3>1. ASSUME ~Exempt(k), ~(HasManifest /\ Names(current, k))
          PROVE  Dropped(k)
      <4>1. ASSUME NEW r, Has(chain, r) PROVE ~Accepts(r, k)
        <5>1. Listed(r)
          BY <2>1, <2>2, <4>1 DEF IInv, OnlyListed
        <5>2. CASE r = Drop
          BY <5>2, DropFacts
        <5>3. CASE BaseRule(r)
          BY <3>1, <5>3, ExemptRule
        <5>4. CASE \E p \in recent : EntryRule(man[p], r)
          <6>1. HasManifest /\ EntryRule(current, r)
            BY <2>3, <5>4
          <6>2. QED
            BY <2>4, <3>1, <6>1, NamesRule
        <5>5. QED
          BY <5>1, <5>2, <5>3, <5>4 DEF Listed
      <4>2. QED
        BY <2>2, <2>3, <4>1, Drops
    <3>2. ASSUME Exempt(k) PROVE ~Dropped(k)
      <4>1. PICK r : BaseRule(r) /\ Accepts(r, k)
        BY <3>2, ExemptRule
      <4>2. Has(chain, r)
        BY <2>3, <4>1
      <4>3. QED
        BY <2>2, <2>3, <4>1, <4>2, Passes
    <3>3. ASSUME HasManifest, Names(current, k) PROVE ~Dropped(k)
      <4>1. PICK r : EntryRule(current, r) /\ Accepts(r, k)
        BY <2>4, <3>3, NamesRule
      <4>2. Has(chain, r)
        BY <2>3, <3>3, <4>1
      <4>3. QED
        BY <2>2, <2>3, <4>1, <4>2, Passes
    <3>4. QED
      BY <3>1, <3>2, <3>3
  <2>6. ASSUME NEW h \in Hosts, NEW n \in Ports, Allowed(h, n),
               NEW i \in DOMAIN Addrs[h]
        PROVE  ~Dropped(Packet(Addrs[h][i], n))
    <3> DEFINE k == Packet(Addrs[h][i], n)
    <3>1. Addrs[h] \in Seq(Addresses)
      BY AddrsAssumption
    <3>2. Addrs[h][i] \in Addresses
      BY <2>6, <3>1
    <3>3. k \in Packets /\ k.proto = "tcp" /\ k.port = n /\ k.to = Addrs[h][i]
      BY <3>2 DEF Packet, Packets
    <3>4. HasManifest
      BY <2>6 DEF Allowed
    <3>5. PICK j \in DOMAIN current : current[j] = [host |-> h, port |-> n]
      BY <2>6 DEF Allowed
    <3>6. current[j].host = h /\ current[j].port = n
      BY <3>5
    <3> HIDE DEF k
    <3>7. Names(current, k)
      BY <2>6, <3>3, <3>5, <3>6 DEF Names
    <3>8. ~Dropped(k)
      BY <2>5, <3>3, <3>4, <3>7
    <3>9. QED
      BY <3>8 DEF k
  <2>7. QED
    BY <2>5, <2>6
<1>2. QED
  BY <1>1, Invariance, PTL

\* A boot that ends with a firewall drops everything but the exemptions,
\* whatever the agent's last life left in the kernel (firewall.go:79-110).
THEOREM BootClosed == Spec => BootsClosed
<1>1. ASSUME IInv, IInv', [Next]_vars, phase # "up", phase' = "up", fw',
             NEW k \in Packets, ~Exempt(k)
      PROVE  Dropped(k)'
  <2>1. InitRule
    BY <1>1 DEF Next, Setup, Push, CreateChain, FlushExisting, AddJump, InitFails,
                InitTunnelFails, SetupFails, Update, Succeed, Fail, LookupFails,
                Crash, Restart, vars, IInv, Progress
  <2>2. /\ phase = "rules" /\ step[Agent] = 5 /\ recent = {} /\ recent' = {}
        /\ addr[Agent] \in Nat /\ InitPart = <<Drop>> /\ addr[Agent] < Len(InitPart)
        /\ chain' = Execute(InitPart[addr[Agent] + 1])
    BY <1>1, <2>1, InitScriptFacts
       DEF InitRule, IInv, TypeOK, Progress, Unpushed, InitPart, histVars
  <2>3. InitPart[addr[Agent] + 1] = Drop
    BY <2>2
  <2>4. chain' = Append(chain, Drop)
    BY <2>2, <2>3, DropFacts DEF Execute
  <2>5. chain' \in Seq(Rules) /\ chain \in Seq(Rules) /\ jump'
    BY <1>1 DEF IInv, TypeOK, Progress
  <2>6. Has(chain', Drop)
    BY <2>4, <2>5, DropFacts, AppendHas
  <2>7. ASSUME NEW r, Has(chain', r) PROVE ~Accepts(r, k)
    <3>1. r = Drop \/ BaseRule(r)
      BY <1>1, <2>2, <2>7 DEF IInv, OnlyListed, Listed
    <3>2. QED
      BY <1>1, <3>1, DropFacts, ExemptRule
  <2>8. \A i \in DOMAIN chain' : \A j \in 1..(i - 1) : j \in DOMAIN chain'
    BY <2>5
  <2>9. \A j \in DOMAIN chain' : ~Accepts(chain'[j], k)
    BY <2>7 DEF Has
  <2>10. QED
    BY <2>5, <2>6, <2>8, <2>9 DEF Dropped, Has
<1>2. IInv /\ IInv' /\ [Next]_vars =>
         [(phase # "up" /\ phase' = "up" /\ fw')
             => \A k \in Packets : Dropped(k)' \/ Exempt(k)]_vars
  BY <1>1
<1>3. QED
  BY <1>2, Invariance, PTL DEF Spec, BootsClosed
=============================================================================
