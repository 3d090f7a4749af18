------------------------- MODULE ToolScripts_proofs -------------------------
(***************************************************************************)
(* The scripts of the tool's commands, and what they print.                *)
(***************************************************************************)
EXTENDS ToolOperations, SequenceTheorems, TLAPS

(* A sequence of whatever; the scripts' variables and calls are names that *)
(* no set lists.                                                            *)
IsSeq(s) == \E S : s \in Seq(S)

Formed(step) ==
  /\ step = [call |-> step.call, fills |-> step.fills, shows |-> step.shows,
             fail |-> step.fail, chips |-> step.chips, families |-> step.families]
  /\ step.chips \subseteq Chips /\ step.families \subseteq Chips

(* A step that fills what it fills or ends the command, where it applies.   *)
Firm(step) == step.call = "none" \/ (step.fail = "stop" /\ step.call # ValidityCheck)
Honest(step) == step.call # "read_sbrmi_thread_cs"

(* Step j gives v a value that still stands at step i, if step i applies.   *)
Gives(s, j, i, v) ==
  /\ v \in s[j].fills
  /\ \A k \in j..i - 1 : v \in s[k].fills => Firm(s[k])
  /\ s[i].chips \subseteq s[j].chips
  /\ \/ s[j].families = Chips
     \/ /\ s[i].families \subseteq s[j].families
        /\ \A k \in j..i - 1 : s[k].call # "get_platform_info"

(* A script of steps each of which shows what it reads or what an earlier   *)
(* one gave.                                                                *)
Careful(s) ==
  /\ IsSeq(s)
  /\ \A i \in 1..Len(s) :
       /\ Honest(s[i])
       /\ \A v \in s[i].shows : v \in s[i].fills \/ \E j \in 1..i - 1 : Gives(s, j, i, v)

(***************************************************************************)
(* First kind: each step shows what it reads itself.                       *)
(***************************************************************************)
Plain(s) ==
  /\ IsSeq(s)
  /\ \A i \in 1..Len(s) : /\ Honest(s[i]) /\ Formed(s[i])
                          /\ s[i].shows \subseteq s[i].fills

LEMMA PlainIsCareful == ASSUME NEW s, Plain(s) PROVE Careful(s)
BY DEF Plain, Careful

LEMMA Concat ==
  ASSUME NEW s, NEW t, IsSeq(s), IsSeq(t)
  PROVE  /\ IsSeq(s \o t) /\ Len(s \o t) = Len(s) + Len(t)
         /\ Len(s) \in Nat /\ Len(t) \in Nat
         /\ \A i \in 1..Len(s) : (s \o t)[i] = s[i]
         /\ \A i \in 1..Len(t) : (s \o t)[i + Len(s)] = t[i]
         /\ \A i \in 1..Len(s \o t) :
              i \in 1..Len(s) \/ \E k \in 1..Len(t) : i = k + Len(s)
<1>1. PICK S, T : s \in Seq(S) /\ t \in Seq(T)
  BY DEF IsSeq
<1>2. s \in Seq(S \cup T) /\ t \in Seq(S \cup T)
  BY <1>1, SeqMonotonic
<1>3. /\ s \o t \in Seq(S \cup T) /\ Len(s \o t) = Len(s) + Len(t)
      /\ \A i \in 1..Len(s) + Len(t) :
           (s \o t)[i] = IF i <= Len(s) THEN s[i] ELSE t[i - Len(s)]
      /\ Len(s) \in Nat /\ Len(t) \in Nat
  BY <1>2, ConcatProperties, LenProperties
<1>4. \A i \in 1..Len(t) : i + Len(s) \in 1..Len(s) + Len(t) /\ ~(i + Len(s) <= Len(s))
                           /\ (i + Len(s)) - Len(s) = i
  BY <1>3
<1>5. ASSUME NEW i \in 1..Len(s \o t), i \notin 1..Len(s)
      PROVE  \E k \in 1..Len(t) : i = k + Len(s)
  <2>1. i - Len(s) \in 1..Len(t) /\ i = (i - Len(s)) + Len(s)
    BY <1>3, <1>5
  <2> QED BY <2>1
<1>6. IsSeq(s \o t)
  BY <1>3 DEF IsSeq
<1> QED BY <1>3, <1>4, <1>5, <1>6

LEMMA PlainConcat == ASSUME NEW s, NEW t, Plain(s), Plain(t) PROVE Plain(s \o t)
<1> DEFINE u == s \o t
<1>1. IsSeq(s) /\ IsSeq(t)
  BY DEF Plain
<1>2. /\ IsSeq(u)
      /\ \A i \in 1..Len(s) : u[i] = s[i]
      /\ \A i \in 1..Len(t) : u[i + Len(s)] = t[i]
      /\ \A i \in 1..Len(u) : i \in 1..Len(s) \/ \E k \in 1..Len(t) : i = k + Len(s)
  BY <1>1, Concat
<1> HIDE DEF u
<1>3. Plain(u)
  BY <1>2 DEF Plain
<1> QED BY <1>3 DEF u

(***************************************************************************)
(* Second kind: a step may show what an earlier one gave, and no step that *)
(* fills a variable goes on without it.  before is what is there already.  *)
(***************************************************************************)
KeepsFrom(before, s) ==
  /\ IsSeq(s)
  /\ \A i \in 1..Len(s) :
       /\ Honest(s[i]) /\ Formed(s[i])
       /\ s[i].fills # {} => Firm(s[i])
       /\ \A v \in s[i].shows :
            \/ v \in before \cup s[i].fills
            \/ \E j \in 1..i - 1 : Gives(s, j, i, v)

Sure(s) == UNION {s[j].fills : j \in {k \in 1..Len(s) :
                                        s[k].chips = Chips /\ s[k].families = Chips}}

LEMMA KeepsIsCareful == ASSUME NEW s, KeepsFrom({}, s) PROVE Careful(s)
BY DEF KeepsFrom, Careful

LEMMA KeepsConcat ==
  ASSUME NEW before, NEW s, NEW t, KeepsFrom(before, s), KeepsFrom(before \cup Sure(s), t)
  PROVE  KeepsFrom(before, s \o t)
<1> DEFINE u == s \o t
<1>0. IsSeq(s) /\ IsSeq(t)
  BY DEF KeepsFrom
<1>1. /\ IsSeq(u) /\ Len(u) = Len(s) + Len(t) /\ Len(s) \in Nat /\ Len(t) \in Nat
  BY <1>0, Concat
<1>2. \A i \in 1..Len(s) : u[i] = s[i]
  BY <1>0, Concat
<1>3. \A i \in 1..Len(t) : u[i + Len(s)] = t[i]
  BY <1>0, Concat
<1>4. \A i \in 1..Len(u) : i \in 1..Len(s) \/ \E k \in 1..Len(t) : i = k + Len(s)
  BY <1>0, Concat
<1> HIDE DEF u
<1>7. \A i \in 1..Len(u) : Honest(u[i]) /\ Formed(u[i]) /\ (u[i].fills # {} => Firm(u[i]))
  BY <1>2, <1>3, <1>4 DEF KeepsFrom
<1>8. ASSUME NEW i \in 1..Len(s), NEW v \in u[i].shows
      PROVE  \/ v \in before \cup u[i].fills
             \/ \E j \in 1..i - 1 : Gives(u, j, i, v)
  <2>1. CASE v \in before \cup s[i].fills
    BY <1>2, <2>1
  <2>2. CASE \E j \in 1..i - 1 : Gives(s, j, i, v)
    <3>1. PICK j \in 1..i - 1 : Gives(s, j, i, v)
      BY <2>2
    <3>2. \A k \in j..i : k \in 1..Len(s) /\ u[k] = s[k]
      BY <1>1, <1>2
    <3>3. j \in j..i /\ i \in j..i /\ \A k \in j..i - 1 : k \in j..i
      BY <1>1
    <3>4. Gives(u, j, i, v)
      BY <3>1, <3>2, <3>3 DEF Gives
    <3> QED BY <3>4
  <2> QED BY <1>2, <2>1, <2>2 DEF KeepsFrom
<1>9. ASSUME NEW n \in 1..Len(t), NEW v \in u[n + Len(s)].shows
      PROVE  \/ v \in before \cup u[n + Len(s)].fills
             \/ \E j \in 1..n + Len(s) - 1 : Gives(u, j, n + Len(s), v)
  <2> DEFINE i == n + Len(s)
  <2>0. i \in 1..Len(u) /\ n \in Nat /\ i \in Nat
    BY <1>1
  <2>1. CASE v \in before \cup t[n].fills
    BY <1>3, <2>1
  <2>2. CASE v \in Sure(s)
    <3>1. PICK j \in 1..Len(s) :
             v \in s[j].fills /\ s[j].chips = Chips /\ s[j].families = Chips
      BY <2>2 DEF Sure
    <3>2. u[i].chips \subseteq Chips
      BY <1>7, <2>0 DEF Formed
    <3>3. \A k \in j..i - 1 : k \in 1..Len(u)
      BY <1>1, <2>0
    <3> HIDE DEF i
    <3>4. Gives(u, j, i, v)
      BY <1>2, <1>7, <3>1, <3>2, <3>3 DEF Gives
    <3>5. j \in 1..i - 1
      BY <1>1 DEF i
    <3> QED BY <3>4, <3>5 DEF i
  <2>3. CASE \E j \in 1..n - 1 : Gives(t, j, n, v)
    <3>1. PICK j \in 1..n - 1 : Gives(t, j, n, v)
      BY <2>3
    <3>2. j + Len(s) \in 1..i - 1 /\ j \in Nat
      BY <1>1, <2>0
    <3>3. \A k \in j + Len(s)..i - 1 :
            k - Len(s) \in j..n - 1 /\ k - Len(s) \in 1..Len(t) /\ u[k] = t[k - Len(s)]
      <4> TAKE k \in j + Len(s)..i - 1
      <4>1. k - Len(s) \in j..n - 1 /\ k - Len(s) \in 1..Len(t)
        BY <1>1, <2>0, <3>2
      <4>2. (k - Len(s)) + Len(s) = k
        BY <1>1, <3>2
      <4> QED BY <1>3, <4>1, <4>2
    <3>4. u[i] = t[n] /\ u[j + Len(s)] = t[j]
      <4>1. j \in 1..Len(t)
        BY <1>1
      <4> QED BY <1>3, <4>1
    <3> HIDE DEF i
    <3>5. Gives(u, j + Len(s), i, v)
      BY <3>1, <3>3, <3>4 DEF Gives
    <3> QED BY <3>2, <3>5 DEF i
  <2> QED BY <1>3, <2>1, <2>2, <2>3 DEF KeepsFrom
<1>10. ASSUME NEW i \in 1..Len(u), NEW v \in u[i].shows
       PROVE  \/ v \in before \cup u[i].fills
              \/ \E j \in 1..i - 1 : Gives(u, j, i, v)
  <2>1. CASE i \in 1..Len(s)
    BY <1>8, <1>10, <2>1
  <2>2. CASE \E k \in 1..Len(t) : i = k + Len(s)
    BY <1>9, <1>10, <2>2
  <2> QED BY <1>4, <2>1, <2>2
<1>11. KeepsFrom(before, u)
  BY <1>1, <1>7, <1>10 DEF KeepsFrom
<1> QED BY <1>11 DEF u

LEMMA SureConcat ==
  ASSUME NEW s, NEW t, IsSeq(s), IsSeq(t)
  PROVE  Sure(s \o t) = Sure(s) \cup Sure(t)
<1> DEFINE u == s \o t
<1>1. /\ Len(u) = Len(s) + Len(t) /\ Len(s) \in Nat /\ Len(t) \in Nat
      /\ \A i \in 1..Len(s) : u[i] = s[i]
      /\ \A i \in 1..Len(t) : u[i + Len(s)] = t[i]
      /\ \A i \in 1..Len(u) : i \in 1..Len(s) \/ \E k \in 1..Len(t) : i = k + Len(s)
  BY Concat
<1> HIDE DEF u
<1>2. ASSUME NEW v \in Sure(s) PROVE v \in Sure(u)
  BY <1>1 DEF Sure
<1>3. ASSUME NEW v \in Sure(t) PROVE v \in Sure(u)
  <2>1. PICK j \in 1..Len(t) : v \in t[j].fills /\ t[j].chips = Chips /\ t[j].families = Chips
    BY DEF Sure
  <2>2. j + Len(s) \in 1..Len(u) /\ u[j + Len(s)] = t[j]
    BY <1>1
  <2> QED BY <2>1, <2>2 DEF Sure
<1>4. ASSUME NEW v \in Sure(u) PROVE v \in Sure(s) \cup Sure(t)
  <2>1. PICK j \in 1..Len(u) : v \in u[j].fills /\ u[j].chips = Chips /\ u[j].families = Chips
    BY DEF Sure
  <2>2. CASE j \in 1..Len(s)
    BY <1>1, <2>1, <2>2 DEF Sure
  <2>3. CASE \E k \in 1..Len(t) : j = k + Len(s)
    BY <1>1, <2>1, <2>3 DEF Sure
  <2> QED BY <1>1, <2>2, <2>3
<1>5. Sure(u) = Sure(s) \cup Sure(t)
  BY <1>2, <1>3, <1>4
<1> QED BY <1>5 DEF u

(***************************************************************************)
(* The steps scripts are made of.                                          *)
(***************************************************************************)
LEMMA OneStep ==
  ASSUME NEW step, Honest(step), Formed(step)
  PROVE  /\ IsSeq(<<step>>)
         /\ step.shows \subseteq step.fills => Plain(<<step>>)
         /\ \A before : /\ step.fills # {} => Firm(step)
                        /\ step.shows \subseteq before \cup step.fills
                        => KeepsFrom(before, <<step>>)
         /\ step.chips = Chips /\ step.families = Chips => Sure(<<step>>) = step.fills
<1> DEFINE one == <<step>>
<1>1. one \in Seq({step}) /\ Len(one) = 1 /\ one[1] = step
  OBVIOUS
<1> HIDE DEF one
<1>2. IsSeq(one) /\ \A i \in 1..Len(one) : i = 1
  BY <1>1 DEF IsSeq
<1>3. step.shows \subseteq step.fills => Plain(one)
  BY <1>1, <1>2 DEF Plain
<1>4. ASSUME NEW before, step.fills # {} => Firm(step), step.shows \subseteq before \cup step.fills
      PROVE  KeepsFrom(before, one)
  BY <1>1, <1>2, <1>4 DEF KeepsFrom
<1>5. step.chips = Chips /\ step.families = Chips => Sure(one) = step.fills
  BY <1>1, <1>2 DEF Sure
<1> QED BY <1>2, <1>3, <1>4, <1>5 DEF one

LEMMA StepIs ==
  ASSUME NEW call, NEW fills, NEW shows, NEW fail, call # "read_sbrmi_thread_cs"
  PROVE  LET step == Step(call, fills, shows, fail)
         IN /\ Honest(step) /\ Formed(step)
            /\ step.fills = fills /\ step.shows = shows
            /\ (fail = "stop" /\ call # ValidityCheck) \/ call = "none" => Firm(step)
            /\ step.chips = Chips /\ step.families = Chips
BY DEF Step, Honest, Firm, Formed

LEMMA Calls ==
  ASSUME NEW call, call # "read_sbrmi_thread_cs", NEW vs
  PROVE  /\ Plain(Ask(call, vs)) /\ Plain(Try(call, vs)) /\ Plain(Learn(call, vs))
         /\ Plain(Do(call))
         /\ call # "read_ras_df_err_validity_check" =>
              \A before : /\ KeepsFrom(before, Ask(call, vs))
                          /\ KeepsFrom(before, Learn(call, vs))
         /\ Sure(Ask(call, vs)) = vs /\ Sure(Learn(call, vs)) = vs
<1>1. /\ Plain(Ask(call, vs)) /\ Sure(Ask(call, vs)) = vs
      /\ call # "read_ras_df_err_validity_check" => \A before : KeepsFrom(before, Ask(call, vs))
  BY StepIs, OneStep DEF Ask, ValidityCheck
<1>2. Plain(Try(call, vs)) /\ Plain(Do(call))
  BY StepIs, OneStep DEF Try, Do
<1>3. /\ Plain(Learn(call, vs)) /\ Sure(Learn(call, vs)) = vs
      /\ call # "read_ras_df_err_validity_check" => \A before : KeepsFrom(before, Learn(call, vs))
  BY StepIs, OneStep DEF Learn, ValidityCheck
<1> QED BY <1>1, <1>2, <1>3

LEMMA Moves ==
  ASSUME NEW vs
  PROVE  /\ Plain(Assign(vs)) /\ Sure(Assign(vs)) = vs
         /\ \A before : /\ KeepsFrom(before, Assign(vs))
                        /\ vs \subseteq before => KeepsFrom(before, Show(vs))
<1>1. /\ Plain(Assign(vs)) /\ Sure(Assign(vs)) = vs
      /\ \A before : KeepsFrom(before, Assign(vs))
  BY StepIs, OneStep DEF Assign
<1>2. \A before : vs \subseteq before => KeepsFrom(before, Show(vs))
  BY StepIs, OneStep DEF Show
<1> QED BY <1>1, <1>2

(* Steps for some sockets, or for some findings, only.                      *)
OnChip(step, chips) == [step EXCEPT !.chips = chips]
OfFamilies(step, families) == [step EXCEPT !.families = families]

LEMMA NarrowedStep ==
  ASSUME NEW step, Formed(step), NEW chips \in SUBSET Chips
  PROVE  /\ LET c == OnChip(step, chips)
            IN /\ Formed(c) /\ c.call = step.call /\ c.fills = step.fills
               /\ c.shows = step.shows /\ c.fail = step.fail /\ c.chips = chips
               /\ c.families = step.families
         /\ LET f == OfFamilies(step, chips)
            IN /\ Formed(f) /\ f.call = step.call /\ f.fills = step.fills
               /\ f.shows = step.shows /\ f.fail = step.fail /\ f.chips = step.chips
               /\ f.families = chips
BY DEF Formed, OnChip, OfFamilies

LEMMA NarrowedSeq ==
  ASSUME NEW s, IsSeq(s), NEW chips
  PROVE  /\ IsSeq(OnChips(chips, s)) /\ Len(OnChips(chips, s)) = Len(s) /\ Len(s) \in Nat
         /\ \A i \in 1..Len(s) : OnChips(chips, s)[i] = OnChip(s[i], chips)
         /\ IsSeq(ForFamilies(chips, s)) /\ Len(ForFamilies(chips, s)) = Len(s)
         /\ \A i \in 1..Len(s) : ForFamilies(chips, s)[i] = OfFamilies(s[i], chips)
<1>1. DOMAIN s = 1..Len(s) /\ Len(s) \in Nat
  BY LenProperties DEF IsSeq
<1>2. ASSUME NEW u, NEW n \in Nat, DOMAIN u = 1..n, u = [i \in 1..n |-> u[i]]
      PROVE  u \in Seq({u[i] : i \in 1..n}) /\ Len(u) = n
  <2>1. u \in [1..n -> {u[i] : i \in 1..n}]
    BY <1>2
  <2>2. u \in Seq({u[i] : i \in 1..n})
    BY <2>1, SeqDef
  <2> QED BY <1>2, <2>2, LenProperties
<1>3. /\ OnChips(chips, s) \in Seq({OnChips(chips, s)[i] : i \in 1..Len(s)})
      /\ Len(OnChips(chips, s)) = Len(s)
  BY <1>1, <1>2 DEF OnChips
<1>4. /\ ForFamilies(chips, s) \in Seq({ForFamilies(chips, s)[i] : i \in 1..Len(s)})
      /\ Len(ForFamilies(chips, s)) = Len(s)
  BY <1>1, <1>2 DEF ForFamilies
<1> QED BY <1>1, <1>3, <1>4 DEF OnChips, ForFamilies, IsSeq, OnChip, OfFamilies

LEMMA PlainNarrowed ==
  ASSUME NEW s, Plain(s), NEW chips \in SUBSET Chips
  PROVE  Plain(OnChips(chips, s)) /\ Plain(ForFamilies(chips, s))
<1> DEFINE c == OnChips(chips, s)
           f == ForFamilies(chips, s)
<1>1. /\ IsSeq(c) /\ Len(c) = Len(s) /\ IsSeq(f) /\ Len(f) = Len(s)
      /\ \A i \in 1..Len(s) : c[i] = OnChip(s[i], chips)
      /\ \A i \in 1..Len(s) : f[i] = OfFamilies(s[i], chips)
  BY NarrowedSeq DEF Plain
<1> HIDE DEF c, f
<1>2. ASSUME NEW i \in 1..Len(s)
      PROVE  /\ Honest(c[i]) /\ Formed(c[i]) /\ c[i].shows \subseteq c[i].fills
             /\ Honest(f[i]) /\ Formed(f[i]) /\ f[i].shows \subseteq f[i].fills
  <2>1. Formed(s[i]) /\ Honest(s[i]) /\ s[i].shows \subseteq s[i].fills
    BY DEF Plain
  <2> QED BY <1>1, <2>1, NarrowedStep DEF Honest
<1>3. Plain(c) /\ Plain(f)
  BY <1>1, <1>2 DEF Plain
<1> QED BY <1>3 DEF c, f

LEMMA KeepsNarrowed ==
  ASSUME NEW before, NEW s, KeepsFrom(before, s), NEW chips \in SUBSET Chips
  PROVE  /\ KeepsFrom(before, OnChips(chips, s))
         /\ (\A i \in 1..Len(s) : s[i].call # "get_platform_info")
              => KeepsFrom(before, ForFamilies(chips, s))
<1> DEFINE c == OnChips(chips, s)
           f == ForFamilies(chips, s)
<1>1. /\ IsSeq(c) /\ Len(c) = Len(s) /\ IsSeq(f) /\ Len(f) = Len(s) /\ Len(s) \in Nat
      /\ \A i \in 1..Len(s) : c[i] = OnChip(s[i], chips)
      /\ \A i \in 1..Len(s) : f[i] = OfFamilies(s[i], chips)
  BY NarrowedSeq DEF KeepsFrom
<1> HIDE DEF c, f
<1>2. \A i \in 1..Len(s) :
        /\ Formed(c[i]) /\ c[i].call = s[i].call /\ c[i].fills = s[i].fills
        /\ c[i].shows = s[i].shows /\ c[i].fail = s[i].fail /\ c[i].chips = chips
        /\ c[i].families = s[i].families
        /\ Formed(f[i]) /\ f[i].call = s[i].call /\ f[i].fills = s[i].fills
        /\ f[i].shows = s[i].shows /\ f[i].fail = s[i].fail /\ f[i].chips = s[i].chips
        /\ f[i].families = chips
  <2> TAKE i \in 1..Len(s)
  <2>1. Formed(s[i])
    BY DEF KeepsFrom
  <2> QED BY <1>1, <2>1, NarrowedStep
<1>3. ASSUME NEW i \in 1..Len(s), NEW j \in 1..i - 1, NEW v, Gives(s, j, i, v)
      PROVE  /\ Gives(c, j, i, v)
             /\ (\A k \in 1..Len(s) : s[k].call # "get_platform_info") => Gives(f, j, i, v)
  <2>1. j \in 1..Len(s) /\ i \in 1..Len(s) /\ \A k \in j..i - 1 : k \in 1..Len(s)
    BY <1>1
  <2>2. \A k \in j..i - 1 : /\ v \in c[k].fills => Firm(c[k])
                            /\ v \in f[k].fills => Firm(f[k])
    BY <1>2, <1>3, <2>1 DEF Gives, Firm
  <2> QED BY <1>2, <1>3, <2>1, <2>2 DEF Gives
<1>4. KeepsFrom(before, c)
  <2>1. \A i \in 1..Len(s) : Honest(c[i]) /\ (c[i].fills # {} => Firm(c[i]))
    BY <1>2 DEF KeepsFrom, Honest, Firm
  <2>2. ASSUME NEW i \in 1..Len(s), NEW v \in c[i].shows
        PROVE  v \in before \cup c[i].fills \/ \E j \in 1..i - 1 : Gives(c, j, i, v)
    <3>1. v \in before \cup s[i].fills \/ \E j \in 1..i - 1 : Gives(s, j, i, v)
      BY <1>2, <2>2 DEF KeepsFrom
    <3> QED BY <1>2, <1>3, <3>1
  <2> QED BY <1>1, <1>2, <2>1, <2>2 DEF KeepsFrom
<1>5. ASSUME \A i \in 1..Len(s) : s[i].call # "get_platform_info"
      PROVE  KeepsFrom(before, f)
  <2>1. \A i \in 1..Len(s) : Honest(f[i]) /\ (f[i].fills # {} => Firm(f[i]))
    BY <1>2 DEF KeepsFrom, Honest, Firm
  <2>2. ASSUME NEW i \in 1..Len(s), NEW v \in f[i].shows
        PROVE  v \in before \cup f[i].fills \/ \E j \in 1..i - 1 : Gives(f, j, i, v)
    <3>1. v \in before \cup s[i].fills \/ \E j \in 1..i - 1 : Gives(s, j, i, v)
      BY <1>2, <2>2 DEF KeepsFrom
    <3> QED BY <1>2, <1>3, <1>5, <3>1
  <2> QED BY <1>1, <1>2, <2>1, <2>2 DEF KeepsFrom
<1> QED BY <1>4, <1>5 DEF c, f

(***************************************************************************)
(* The tables.                                                             *)
(***************************************************************************)
Good(sc) == IsSeq(sc) /\ \A i \in 1..Len(sc) : Careful(sc[i])

LEMMA GoodOne == ASSUME NEW steps, Careful(steps) PROVE Good(Script(steps))
<1> DEFINE sc == Script(steps)
<1>1. sc \in Seq({steps}) /\ Len(sc) = 1 /\ sc[1] = steps
  BY DEF Script
<1>2. \A i \in 1..Len(sc) : i = 1
  BY <1>1
<1> HIDE DEF sc
<1>3. Good(sc)
  BY <1>1, <1>2 DEF Good, IsSeq
<1> QED BY <1>3 DEF sc

LEMMA GoodConcat == ASSUME NEW a, NEW b, Good(a), Good(b) PROVE Good(a \o b)
<1> DEFINE u == a \o b
<1>1. /\ IsSeq(u)
      /\ \A i \in 1..Len(a) : u[i] = a[i]
      /\ \A i \in 1..Len(b) : u[i + Len(a)] = b[i]
      /\ \A i \in 1..Len(u) : i \in 1..Len(a) \/ \E k \in 1..Len(b) : i = k + Len(a)
  BY Concat DEF Good
<1> HIDE DEF u
<1>2. Good(u)
  BY <1>1 DEF Good
<1> QED BY <1>2 DEF u

LEMMA EmptyKeeps == Plain(<< >>) /\ IsSeq(<< >>) /\ Len(<< >>) = 0
BY DEF Plain, IsSeq

LEMMA GoodPlain == ASSUME NEW steps, Plain(steps) PROVE Good(Script(steps))
BY PlainIsCareful, GoodOne

LEMMA GoodKeeps == ASSUME NEW steps, KeepsFrom({}, steps)
                   PROVE  Good(Script(steps))
BY KeepsIsCareful, GoodOne

LEMMA GoodCalls ==
  ASSUME NEW call, call # "read_sbrmi_thread_cs", NEW v
  PROVE  Good(Get(call, v)) /\ Good(Set(call))
<1>1. Plain(Ask(call, {v})) /\ Plain(Do(call))
  BY Calls
<1> QED BY <1>1, GoodPlain DEF Get, Set

LEMMA GoodRefuse == Good(Refuse)
BY GoodPlain, EmptyKeeps DEF Refuse

LEMMA ProcTypeKeeps ==
  Plain(ProcType) /\ \A before : KeepsFrom(before, ProcType)
<1> DEFINE ask == << Step("get_platform_info", {}, {}, "next") >>
<1>1. Plain(ask) /\ \A before : KeepsFrom(before, ask)
  BY StepIs, OneStep
<1> HIDE DEF ask
<1>2. Chips \ {"v10"} \in SUBSET Chips
  OBVIOUS
<1>3. /\ Plain(OnChips(Chips \ {"v10"}, ask))
      /\ \A before : KeepsFrom(before, OnChips(Chips \ {"v10"}, ask))
  BY <1>1, <1>2, PlainNarrowed, KeepsNarrowed
<1>4. /\ Plain(Learn("read_sbrmi_revision", {"rev"}))
      /\ \A before : KeepsFrom(before, Learn("read_sbrmi_revision", {"rev"}))
  BY Calls
<1>5. ProcType = Learn("read_sbrmi_revision", {"rev"}) \o OnChips(Chips \ {"v10"}, ask)
  BY DEF ProcType, ask
<1> QED BY <1>3, <1>4, <1>5, PlainConcat, KeepsConcat

LEMMA PowerGood ==
  \A o \in DOMAIN PowerScripts : Good(PowerScripts[o])
<1>1. DOMAIN PowerScripts = {"showpower", "showtdp", "setpowerlimit", "showddrbandwidth", "showboostlimit"}
  BY DEF PowerScripts
<1>2. Good(PowerScripts.showpower)
  BY Calls, Moves, PlainConcat, GoodPlain, GoodCalls, GoodConcat, GoodRefuse, ProcTypeKeeps
     DEF PowerScripts
<1>3. Good(PowerScripts.showtdp)
  BY Calls, Moves, PlainConcat, GoodPlain, GoodCalls, GoodConcat, GoodRefuse, ProcTypeKeeps
     DEF PowerScripts
<1>4. Good(PowerScripts.setpowerlimit)
  BY Calls, Moves, PlainConcat, GoodPlain, GoodCalls, GoodConcat, GoodRefuse, ProcTypeKeeps
     DEF PowerScripts
<1>5. Good(PowerScripts.showboostlimit)
  BY Calls, Moves, PlainConcat, GoodPlain, GoodCalls, GoodConcat, GoodRefuse, ProcTypeKeeps
     DEF PowerScripts
<1>6. /\ Good(PowerScripts.showddrbandwidth)
  BY GoodCalls DEF PowerScripts
<1> QED BY <1>1, <1>2, <1>3, <1>4, <1>5, <1>6

LEMMA BoostGood ==
  \A o \in DOMAIN BoostScripts : o \notin Careless => Good(BoostScripts[o])
<1>1. DOMAIN BoostScripts = {"setapmlboostlimit", "setapmlsocketboostlimit", "set_and_verify_dramthrottle",
              "set_verify_updaterate"}
  BY DEF BoostScripts
<1>2. Good(BoostScripts.setapmlboostlimit)
  BY Calls, Moves, PlainConcat, GoodPlain, GoodCalls, GoodConcat, GoodRefuse, ProcTypeKeeps
     DEF BoostScripts
<1>3. Good(BoostScripts.setapmlsocketboostlimit)
  BY Calls, Moves, PlainConcat, GoodPlain, GoodCalls, GoodConcat, GoodRefuse, ProcTypeKeeps
     DEF BoostScripts
<1>4. Good(BoostScripts.set_verify_updaterate)
  BY Calls, Moves, PlainConcat, GoodPlain, GoodCalls, GoodConcat, GoodRefuse, ProcTypeKeeps
     DEF BoostScripts
<1> QED BY <1>1, <1>2, <1>3, <1>4 DEF Careless

LEMMA TsiSetGood ==
  \A o \in DOMAIN TsiSetScripts : Good(TsiSetScripts[o])
<1>1. DOMAIN TsiSetScripts = {"sethightempthreshold", "setlowtempthreshold", "settempoffset", "settimeoutconfig",
              "setalertthreshold", "setalertconfig"}
  BY DEF TsiSetScripts
<1>2. Good(TsiSetScripts.setlowtempthreshold)
  BY Calls, Moves, PlainConcat, GoodPlain, GoodCalls, GoodConcat, GoodRefuse, ProcTypeKeeps
     DEF TsiSetScripts
<1>3. /\ Good(TsiSetScripts.sethightempthreshold) /\ Good(TsiSetScripts.settempoffset)
       /\ Good(TsiSetScripts.settimeoutconfig) /\ Good(TsiSetScripts.setalertthreshold)
       /\ Good(TsiSetScripts.setalertconfig)
  BY GoodCalls DEF TsiSetScripts
<1> QED BY <1>1, <1>2, <1>3

LEMMA TsiConfigGood == \A o \in DOMAIN TsiConfigScripts : Good(TsiConfigScripts[o])
BY GoodCalls DEF TsiConfigScripts

LEMMA DimmGood ==
  \A o \in DOMAIN DimmScripts : Good(DimmScripts[o])
<1>1. DOMAIN DimmScripts = {"setdimmpower", "setdimmthermalsensor", "showPCIeconfigspacedata", "setpcieconfig"}
  BY DEF DimmScripts
<1>2. Good(DimmScripts.setdimmthermalsensor)
  BY Calls, Moves, PlainConcat, GoodPlain, GoodCalls, GoodConcat, GoodRefuse, ProcTypeKeeps
     DEF DimmScripts
<1>3. /\ Good(DimmScripts.setdimmpower) /\ Good(DimmScripts.showPCIeconfigspacedata)
       /\ Good(DimmScripts.setpcieconfig)
  BY GoodCalls DEF DimmScripts
<1> QED BY <1>1, <1>2, <1>3

LEMMA FrequencyGood ==
  \A o \in DOMAIN FrequencyScripts : Good(FrequencyScripts[o])
<1>1. DOMAIN FrequencyScripts = {"showsktfreqlimit", "showcclklimit", "showsvitelemetryallrails", "showsktfreqrange"}
  BY DEF FrequencyScripts
<1>2. Good(FrequencyScripts.showsktfreqlimit)
  BY Calls, Moves, PlainConcat, GoodPlain, GoodCalls, GoodConcat, GoodRefuse, ProcTypeKeeps
     DEF FrequencyScripts
<1>3. Good(FrequencyScripts.showsktfreqrange)
  BY Calls, Moves, PlainConcat, GoodPlain, GoodCalls, GoodConcat, GoodRefuse, ProcTypeKeeps
     DEF FrequencyScripts
<1>4. /\ Good(FrequencyScripts.showcclklimit) /\ Good(FrequencyScripts.showsvitelemetryallrails)
  BY GoodCalls DEF FrequencyScripts
<1> QED BY <1>1, <1>2, <1>3, <1>4

LEMMA LinkGood ==
  \A o \in DOMAIN LinkScripts : Good(LinkScripts[o])
<1>1. DOMAIN LinkScripts = {"showiobandwidth", "showxGMIbandwidth", "setGMI3linkwidthrange",
              "setxGMIlinkwidthrange"}
  BY DEF LinkScripts
<1>2. Good(LinkScripts.showiobandwidth)
  BY Calls, Moves, PlainConcat, GoodPlain, GoodCalls, GoodConcat, GoodRefuse, ProcTypeKeeps
     DEF LinkScripts, LinkId
<1>3. Good(LinkScripts.showxGMIbandwidth)
  BY Calls, Moves, PlainConcat, GoodPlain, GoodCalls, GoodConcat, GoodRefuse, ProcTypeKeeps
     DEF LinkScripts, LinkId
<1>4. /\ Good(LinkScripts.setGMI3linkwidthrange) /\ Good(LinkScripts.setxGMIlinkwidthrange)
  BY GoodCalls DEF LinkScripts
<1> QED BY <1>1, <1>2, <1>3, <1>4

LEMMA FabricGood == \A o \in DOMAIN FabricScripts : Good(FabricScripts[o])
<1>1. DOMAIN FabricScripts = {"APBDisable", "showfclkmclkuclk", "enabledfpstatedynamic",
              "setlclkdpmlevel", "showprocbasefreq", "setPCIegenratectrl",
              "setpwrefficiencymode", "showraplcore", "showraplpkg",
              "setdfpstaterange"}
  BY DEF FabricScripts
<1>2. /\ Good(FabricScripts.APBDisable)
      /\ Good(FabricScripts.showfclkmclkuclk)
      /\ Good(FabricScripts.enabledfpstatedynamic)
      /\ Good(FabricScripts.setlclkdpmlevel)
      /\ Good(FabricScripts.showprocbasefreq)
  BY GoodCalls DEF FabricScripts
<1>3. /\ Good(FabricScripts.setPCIegenratectrl)
      /\ Good(FabricScripts.setpwrefficiencymode)
      /\ Good(FabricScripts.showraplcore)
      /\ Good(FabricScripts.showraplpkg)
      /\ Good(FabricScripts.setdfpstaterange)
  BY GoodCalls DEF FabricScripts
<1> QED BY <1>1, <1>2, <1>3

LEMMA RegisterGood ==
  \A o \in DOMAIN RegisterScripts : Good(RegisterScripts[o])
<1>1. DOMAIN RegisterScripts = {"readregister", "writeregister", "readrmiregister", "readtsiregister",
              "writermiregister", "writetsiregister", "readmsrregister",
              "readcpuidregister"}
  BY DEF RegisterScripts
<1>2. Good(RegisterScripts.readcpuidregister)
  BY Calls, Moves, PlainConcat, GoodPlain, GoodCalls, GoodConcat, GoodRefuse, ProcTypeKeeps
     DEF RegisterScripts
<1>3. /\ Good(RegisterScripts.readregister) /\ Good(RegisterScripts.writeregister)
       /\ Good(RegisterScripts.readrmiregister) /\ Good(RegisterScripts.readtsiregister)
       /\ Good(RegisterScripts.writermiregister) /\ Good(RegisterScripts.writetsiregister)
       /\ Good(RegisterScripts.readmsrregister)
  BY GoodCalls DEF RegisterScripts
<1> QED BY <1>1, <1>2, <1>3

LEMMA StatusGood == \A o \in DOMAIN StatusScripts : Good(StatusScripts[o])
<1>1. DOMAIN StatusScripts = {"showdramthrottle", "showprochotstatus",
              "showprochotresidency", "showlclkdpmlevelrange",
              "apml_recovery", "showpowerconsumed"}
  BY DEF StatusScripts
<1>2. /\ Good(StatusScripts.showdramthrottle)
      /\ Good(StatusScripts.showprochotstatus)
      /\ Good(StatusScripts.showprochotresidency)
  BY GoodCalls DEF StatusScripts
<1>3. /\ Good(StatusScripts.showlclkdpmlevelrange)
      /\ Good(StatusScripts.apml_recovery)
      /\ Good(StatusScripts.showpowerconsumed)
  BY GoodCalls DEF StatusScripts
<1> QED BY <1>1, <1>2, <1>3

LEMMA RasGood == \A o \in DOMAIN RasScripts : Good(RasScripts[o])
<1>1. DOMAIN RasScripts = {"showrasdferrvaliditycheck", "showrasdferrdump", "rasresetonsyncflood",
                             "rasoverridedelay"}
  BY DEF RasScripts
<1>2. Good(RasScripts.showrasdferrvaliditycheck)
  BY Calls, GoodPlain DEF RasScripts, ValidityCheck
<1>3. /\ Good(RasScripts.showrasdferrdump) /\ Good(RasScripts.rasresetonsyncflood)
      /\ Good(RasScripts.rasoverridedelay)
  BY GoodCalls DEF RasScripts
<1> QED BY <1>1, <1>2, <1>3

LEMMA PostCodeGood ==
  \A o \in DOMAIN PostCodeScripts : Good(PostCodeScripts[o])
<1>1. DOMAIN PostCodeScripts = {"getpostcode", "clearrasstatusregister"}
  BY DEF PostCodeScripts
<1>2. Good(PostCodeScripts.getpostcode)
  BY Calls, Moves, PlainConcat, GoodPlain, GoodCalls, GoodConcat, GoodRefuse, ProcTypeKeeps
     DEF PostCodeScripts
<1>3. /\ Good(PostCodeScripts.clearrasstatusregister)
  BY GoodCalls DEF PostCodeScripts
<1> QED BY <1>1, <1>2, <1>3

LEMMA RuntimeErrorGood == \A o \in DOMAIN RuntimeErrorScripts : Good(RuntimeErrorScripts[o])
BY GoodCalls DEF RuntimeErrorScripts

LEMMA LateReadGood == \A o \in DOMAIN LateReadScripts : Good(LateReadScripts[o])
BY GoodCalls DEF LateReadScripts

LEMMA LateGood == \A o \in DOMAIN LateScripts : Good(LateScripts[o])
BY GoodCalls DEF LateScripts

LEMMA MiMemoryGood == \A o \in DOMAIN MiMemoryScripts : Good(MiMemoryScripts[o])
BY GoodCalls DEF MiMemoryScripts

LEMMA MiInfoGood ==
  \A o \in DOMAIN MiInfoScripts : Good(MiInfoScripts[o])
<1>1. DOMAIN MiInfoScripts = {"showpmstatus", "showpsn", "showlinkinfo", "showdiehotspotinfo", "showmemhotspotinfo",
              "showhoststatus"}
  BY DEF MiInfoScripts
<1>2. Good(MiInfoScripts.showlinkinfo)
  BY Calls, Moves, PlainConcat, GoodPlain, GoodCalls, GoodConcat, GoodRefuse, ProcTypeKeeps
     DEF MiInfoScripts
<1>3. Good(MiInfoScripts.showdiehotspotinfo)
  BY Calls, Moves, PlainConcat, GoodPlain, GoodCalls, GoodConcat, GoodRefuse, ProcTypeKeeps
     DEF MiInfoScripts
<1>4. Good(MiInfoScripts.showmemhotspotinfo)
  BY Calls, Moves, PlainConcat, GoodPlain, GoodCalls, GoodConcat, GoodRefuse, ProcTypeKeeps
     DEF MiInfoScripts
<1>5. /\ Good(MiInfoScripts.showpmstatus) /\ Good(MiInfoScripts.showpsn)
       /\ Good(MiInfoScripts.showhoststatus)
  BY GoodCalls DEF MiInfoScripts
<1> QED BY <1>1, <1>2, <1>3, <1>4, <1>5

LEMMA MiPstateGood ==
  \A o \in DOMAIN MiPstateScripts : Good(MiPstateScripts[o])
<1>1. DOMAIN MiPstateScripts = {"showpstates", "setmaxpstate", "showbistresult", "showsvibasedtelemetryforindvrails",
              "showenergyacctimestamp", "showxccidleres", "shownumberofsockets"}
  BY DEF MiPstateScripts
<1>2. Good(MiPstateScripts.showenergyacctimestamp)
  BY Calls, Moves, PlainConcat, GoodPlain, GoodCalls, GoodConcat, GoodRefuse, ProcTypeKeeps
     DEF MiPstateScripts
<1>3. /\ Good(MiPstateScripts.showpstates) /\ Good(MiPstateScripts.setmaxpstate)
       /\ Good(MiPstateScripts.showbistresult)
       /\ Good(MiPstateScripts.showsvibasedtelemetryforindvrails)
       /\ Good(MiPstateScripts.showxccidleres) /\ Good(MiPstateScripts.shownumberofsockets)
  BY GoodCalls DEF MiPstateScripts
<1> QED BY <1>1, <1>2, <1>3

(* Scripts that print what an earlier step has read.                        *)
Alone(s) == KeepsFrom({}, s)

LEMMA AloneCalls ==
  ASSUME NEW vs, NEW call, call # "read_sbrmi_thread_cs", call # "read_ras_df_err_validity_check"
  PROVE  /\ Alone(Ask(call, vs)) /\ Alone(Learn(call, vs)) /\ Alone(Assign(vs))
         /\ Sure(Ask(call, vs)) = vs /\ Sure(Learn(call, vs)) = vs /\ Sure(Assign(vs)) = vs
BY Calls, Moves DEF Alone

LEMMA AloneConcat ==
  ASSUME NEW s, NEW t, Alone(s), Alone(t)
  PROVE  Alone(s \o t) /\ Sure(s \o t) = Sure(s) \cup Sure(t)
<1>1. \A before : KeepsFrom(before, t)
  BY DEF Alone, KeepsFrom
<1>2. IsSeq(s) /\ IsSeq(t)
  BY DEF Alone, KeepsFrom
<1> QED BY <1>1, <1>2, KeepsConcat, SureConcat DEF Alone

LEMMA AloneShow ==
  ASSUME NEW s, NEW vs, Alone(s), vs \subseteq Sure(s)
  PROVE  Alone(s \o Show(vs)) /\ Sure(s) \subseteq Sure(s \o Show(vs))
<1>1. KeepsFrom({} \cup Sure(s), Show(vs)) /\ IsSeq(s)
  BY Moves DEF Alone, KeepsFrom
<1>2. IsSeq(Show(vs))
  BY <1>1 DEF KeepsFrom
<1> QED BY <1>1, <1>2, KeepsConcat, SureConcat DEF Alone

LEMMA GoodAlone == ASSUME NEW steps, Alone(steps) PROVE Good(Script(steps))
BY KeepsIsCareful, GoodOne DEF Alone

LEMMA CcxInfoAlone ==
  Alone(CcxInfo) /\ {"max_cores_per_ccx", "ccx_instances"} \subseteq Sure(CcxInfo)
BY AloneCalls, AloneConcat DEF CcxInfo

LEMMA RasMcaGood == \A o \in DOMAIN RasMcaScripts : Good(RasMcaScripts[o])
<1>1. DOMAIN RasMcaScripts = {"showvalidmcabanks", "showrasmcamsr", "showfchresetreason",
              "showdimmtemprangeandrefreshrate", "showdimmpower", "showdimmthermalsensor"}
  BY DEF RasMcaScripts
<1>2. Good(RasMcaScripts.showvalidmcabanks)
  BY Calls, GoodPlain DEF RasMcaScripts
<1>3. Good(RasMcaScripts.showdimmthermalsensor)
  BY AloneCalls, AloneConcat, AloneShow, GoodAlone DEF RasMcaScripts
<1>4. /\ Good(RasMcaScripts.showrasmcamsr) /\ Good(RasMcaScripts.showfchresetreason)
      /\ Good(RasMcaScripts.showdimmtemprangeandrefreshrate)
      /\ Good(RasMcaScripts.showdimmpower)
  BY GoodCalls DEF RasMcaScripts
<1> QED BY <1>1, <1>2, <1>3, <1>4

LEMMA ThreadGood == \A o \in DOMAIN ThreadScripts : Good(ThreadScripts[o])
<1>1. DOMAIN ThreadScripts = {"showSMTstatus", "showthreadspercoreandsocket",
                              "showccxinfo", "showucoderevision"}
  BY DEF ThreadScripts
<1>2. Good(ThreadScripts.showthreadspercoreandsocket)
  BY AloneCalls, AloneConcat, AloneShow, GoodAlone DEF ThreadScripts
<1>3. Good(ThreadScripts.showccxinfo)
  BY CcxInfoAlone, AloneShow, GoodAlone DEF ThreadScripts
<1>4. Good(ThreadScripts.showSMTstatus) /\ Good(ThreadScripts.showucoderevision)
  BY GoodCalls DEF ThreadScripts
<1> QED BY <1>1, <1>2, <1>3, <1>4

(* Steps that do not ask what the socket is.                                *)
Unasking(s) == IsSeq(s) /\ \A i \in 1..Len(s) : s[i].call # "get_platform_info"

LEMMA UnaskingSteps ==
  ASSUME NEW vs, NEW call, call # "get_platform_info"
  PROVE  Unasking(Learn(call, vs)) /\ Unasking(Assign(vs)) /\ Unasking(Show(vs))
<1>1. ASSUME NEW step, step.call # "get_platform_info" PROVE Unasking(<<step>>)
  <2> DEFINE one == <<step>>
  <2>1. one \in Seq({step}) /\ Len(one) = 1 /\ one[1] = step
    OBVIOUS
  <2> HIDE DEF one
  <2>2. \A i \in 1..Len(one) : i = 1
    BY <2>1
  <2>3. Unasking(one)
    BY <1>1, <2>1, <2>2 DEF Unasking, IsSeq
  <2> QED BY <2>3 DEF one
<1>2. \A c, fills, shows, fail : Step(c, fills, shows, fail).call = c
  BY DEF Step
<1> QED BY <1>1, <1>2 DEF Learn, Assign, Show

LEMMA UnaskingConcat ==
  ASSUME NEW s, NEW t, Unasking(s), Unasking(t) PROVE Unasking(s \o t)
<1> DEFINE u == s \o t
<1>1. /\ IsSeq(u)
      /\ \A i \in 1..Len(s) : u[i] = s[i]
      /\ \A i \in 1..Len(t) : u[i + Len(s)] = t[i]
      /\ \A i \in 1..Len(u) : i \in 1..Len(s) \/ \E k \in 1..Len(t) : i = k + Len(s)
  BY Concat DEF Unasking
<1> HIDE DEF u
<1>2. Unasking(u)
  BY <1>1 DEF Unasking
<1> QED BY <1>2 DEF u

(* The cores of a complex are printed where they have been worked out: when *)
(* the processor is not the one taken to be of the first revision.          *)
LEMMA BistGood == \A o \in DOMAIN BistScripts : Good(BistScripts[o])
<1>1. DOMAIN BistScripts = {"showiodbist", "showccdbist", "showccxbist",
                            "shownbioerrorloggingregister"}
  BY DEF BistScripts
<1>2. Good(BistScripts.showccxbist)
  <2> DEFINE start == Learn("read_ccx_bist_result", {"bist_res"}) \o ProcType
             first == ForFamilies({"v10"}, Show({"bist_res"}))
             info  == CcxInfo \o Show({"bist_res", "max_cores_per_ccx"})
             later == ForFamilies(Known, info)
  <2>1. Alone(start) /\ "bist_res" \in Sure(start)
    BY AloneCalls, AloneConcat, ProcTypeKeeps DEF Alone
  <2>2. KeepsFrom({} \cup Sure(start), first)
    <3>1. KeepsFrom({} \cup Sure(start), Show({"bist_res"}))
      BY <2>1, Moves
    <3>2. Unasking(Show({"bist_res"})) /\ {"v10"} \in SUBSET Chips
      BY UnaskingSteps DEF Chips
    <3> HIDE DEF start
    <3> QED BY <3>1, <3>2, KeepsNarrowed DEF Unasking
  <2>3. Alone(start \o first) /\ "bist_res" \in Sure(start \o first)
    <3> HIDE DEF start, first
    <3>1. IsSeq(start) /\ IsSeq(first)
      BY <2>1, <2>2 DEF Alone, KeepsFrom
    <3> QED BY <2>1, <2>2, <3>1, KeepsConcat, SureConcat DEF Alone
  <2>4. KeepsFrom({} \cup Sure(start \o first), later)
    <3> HIDE DEF start, first
    <3>1. \A before : KeepsFrom(before, CcxInfo)
      BY CcxInfoAlone DEF Alone, KeepsFrom
    <3>2. ASSUME NEW before, "bist_res" \in before PROVE KeepsFrom(before, info)
      <4>1. KeepsFrom(before \cup Sure(CcxInfo), Show({"bist_res", "max_cores_per_ccx"}))
        BY <3>2, CcxInfoAlone, Moves
      <4> QED BY <3>1, <4>1, KeepsConcat
    <3>3. KeepsFrom({} \cup Sure(start \o first), info)
      BY <2>3, <3>2
    <3>4. Unasking(info) /\ Known \in SUBSET Chips
      BY UnaskingSteps, UnaskingConcat DEF CcxInfo, Known
    <3> HIDE DEF info
    <3> QED BY <3>3, <3>4, KeepsNarrowed DEF Unasking
  <2>5. Alone((start \o first) \o later)
    <3> HIDE DEF start, first, later
    <3> QED BY <2>3, <2>4, KeepsConcat DEF Alone
  <2>6. BistScripts.showccxbist = Script((start \o first) \o later)
    BY DEF BistScripts
  <2> HIDE DEF start, first, later
  <2> QED BY <2>5, <2>6, GoodAlone
<1>3. /\ Good(BistScripts.showiodbist) /\ Good(BistScripts.showccdbist)
      /\ Good(BistScripts.shownbioerrorloggingregister)
  BY GoodCalls DEF BistScripts
<1> QED BY <1>1, <1>2, <1>3
LEMMA MiClockGood == \A o \in DOMAIN MiClockScripts : Good(MiClockScripts[o])
<1>1. DOMAIN MiClockScripts = {"showabsmaxmingfxfreq", "showactfreqcapselected",
              "showgfxclkfreqlimit", "showflckfreqlimit", "showhbmstacktemp",
              "showxgmipstates", "setxgmipstate", "unsetxgmipstate"}
  BY DEF MiClockScripts
<1>2. Good(MiClockScripts.showabsmaxmingfxfreq)
  BY Calls, GoodPlain DEF MiClockScripts
<1>3. Good(MiClockScripts.showxgmipstates)
  BY AloneCalls, AloneConcat, AloneShow, GoodAlone DEF MiClockScripts
<1>4. /\ Good(MiClockScripts.showactfreqcapselected)
      /\ Good(MiClockScripts.showgfxclkfreqlimit)
      /\ Good(MiClockScripts.showflckfreqlimit) /\ Good(MiClockScripts.showhbmstacktemp)
      /\ Good(MiClockScripts.setxgmipstate) /\ Good(MiClockScripts.unsetxgmipstate)
  BY GoodCalls DEF MiClockScripts
<1> QED BY <1>1, <1>2, <1>3, <1>4

LEMMA MiStatisticsGood == \A o \in DOMAIN MiStatisticsScripts : Good(MiStatisticsScripts[o])
<1>1. DOMAIN MiStatisticsScripts = {"querystatistics", "clearstatistics",
              "sethbmhightempthreshold", "sethbmlowtempthreshold", "sethbmalertconfig",
              "sethbmalertthreshold", "showmaxdieid"}
  BY DEF MiStatisticsScripts
<1>2. Good(MiStatisticsScripts.querystatistics)
  <2> DEFINE Query == Learn("get_statistics", {"param_value"})
  <2>1. Alone(Query) /\ Sure(Query) = {"param_value"}
    BY AloneCalls
  <2>2. MiStatisticsScripts.querystatistics =
          Script(Query)
          \o Script(Query \o Assign({"unit"}) \o Show({"param_value", "unit"}))
          \o Script(Query \o Show({"param_value"}))
    BY DEF MiStatisticsScripts
  <2> HIDE DEF Query
  <2>3. Alone(Query \o Assign({"unit"}) \o Show({"param_value", "unit"}))
    BY <2>1, AloneCalls, AloneConcat, AloneShow
  <2>4. Alone(Query \o Show({"param_value"}))
    BY <2>1, AloneShow
  <2> QED BY <2>1, <2>2, <2>3, <2>4, GoodAlone, GoodConcat
<1>3. /\ Good(MiStatisticsScripts.clearstatistics)
      /\ Good(MiStatisticsScripts.sethbmhightempthreshold)
      /\ Good(MiStatisticsScripts.sethbmlowtempthreshold)
      /\ Good(MiStatisticsScripts.sethbmalertconfig)
      /\ Good(MiStatisticsScripts.sethbmalertthreshold)
      /\ Good(MiStatisticsScripts.showmaxdieid)
  BY GoodCalls DEF MiStatisticsScripts
<1> QED BY <1>1, <1>2, <1>3

LEMMA MiDieGood == \A o \in DOMAIN MiDieScripts : Good(MiDieScripts[o])
<1>1. DOMAIN MiDieScripts = {"showdietype", "getcurrxgmipstate", "getoperatingtemp",
              "getslowdowntemp", "gethbmdeviceinfo", "getpciestats"}
  BY DEF MiDieScripts
<1>2. Good(MiDieScripts.showdietype)
  BY AloneCalls, AloneConcat, AloneShow, GoodAlone DEF MiDieScripts
<1>3. /\ Good(MiDieScripts.getcurrxgmipstate) /\ Good(MiDieScripts.getoperatingtemp)
      /\ Good(MiDieScripts.getslowdowntemp) /\ Good(MiDieScripts.gethbmdeviceinfo)
  BY GoodCalls DEF MiDieScripts
<1>4. Good(MiDieScripts.getpciestats)
  <2> DEFINE Counter == Learn("get_pciestats", {"pcie_stat"})
  <2>1. Alone(Counter) /\ Sure(Counter) = {"pcie_stat"}
    BY AloneCalls
  <2>2. MiDieScripts.getpciestats =
          Script(Counter \o Assign({"stat"}) \o Show({"stat", "pcie_stat"}))
          \o Script(Counter)
    BY DEF MiDieScripts
  <2> HIDE DEF Counter
  <2>3. Alone(Counter \o Assign({"stat"}) \o Show({"stat", "pcie_stat"}))
    BY <2>1, AloneCalls, AloneConcat, AloneShow
  <2> QED BY <2>1, <2>2, <2>3, GoodAlone, GoodConcat
<1> QED BY <1>1, <1>2, <1>3, <1>4

(* The registers of SB-TSI: every first failure ends the command, so what a *)
(* Show prints is what the Learns before it have read.                      *)
LEMMA TsiFirstAlone == ASSUME NEW hbm \in BOOLEAN PROVE Alone(TsiFirst(hbm))
<1> DEFINE temps == Learn("read_sbtsi_max_hbm_temp_int", {"intr"})
                    \o Learn("sbtsi_get_cputemp", {"temp"})
                    \o Learn("read_sbtsi_cpuinttemp", {"intr"})
                    \o Ask("read_sbtsi_cputempdecimal", {"dec"}) \o Show({"temp", "intr"})
           status == IF hbm THEN Ask("read_sbtsi_status", {"reg_val"}) ELSE << >>
           flags == {"al_mask", "run_stop", "read_ord"} \cup IF hbm THEN {} ELSE {"ara"}
           config == temps \o Ask("sbtsi_get_temp_status", {"lowalert", "hialert"})
                     \o status
                     \o Learn("sbtsi_get_config", {"al_mask", "run_stop", "read_ord", "ara"})
           limits == config \o Show(flags) \o Ask("read_sbtsi_updaterate", {"uprate"})
                     \o Learn("sbtsi_get_hitemp_threshold", {"temp"})
                     \o Learn("read_sbtsi_hitempint", {"intr"})
                     \o Ask("read_sbtsi_hitempdecimal", {"dec"})
<1>1. Alone(temps)
  BY AloneCalls, AloneConcat, AloneShow
<1>2. Alone(status)
  BY AloneCalls DEF Alone, KeepsFrom, IsSeq
<1> HIDE DEF temps, status
<1>3. /\ Alone(config)
      /\ {"al_mask", "run_stop", "read_ord", "ara"} \subseteq Sure(config)
  BY <1>1, <1>2, AloneCalls, AloneConcat
<1>4. flags \subseteq {"al_mask", "run_stop", "read_ord", "ara"}
  OBVIOUS
<1> HIDE DEF config, flags
<1>5. Alone(config \o Show(flags))
  BY <1>3, <1>4, AloneShow
<1>6. Alone(limits) /\ {"temp", "intr"} \subseteq Sure(limits)
  BY <1>5, AloneCalls, AloneConcat
<1>7. TsiFirst(hbm) = limits \o Show({"temp", "intr"})
  BY DEF TsiFirst, temps, status, config, flags
<1> HIDE DEF limits
<1> QED BY <1>6, <1>7, AloneShow

LEMMA TsiLastAlone == ASSUME NEW hbm \in BOOLEAN PROVE Alone(TsiLast(hbm))
<1> DEFINE low == Learn("sbtsi_get_lotemp_threshold", {"temp"})
                  \o Learn("read_sbtsi_lotempint", {"intr"})
                  \o Ask("read_sbtsi_lotempdecimal", {"dec"}) \o Show({"temp", "intr"})
           thresholds == IF hbm THEN HbmThresholds ELSE << >>
           offset == low \o thresholds \o Ask("read_sbtsi_cputempoffset", {"dec"})
                     \o Learn("read_sbtsi_cputempoffint", {"intr_offset"})
                     \o Ask("read_sbtsi_cputempoffdec", {"dec"}) \o Show({"intr_offset"})
           timeout == IF hbm THEN << >> ELSE Ask("sbtsi_get_timeout", {"timeout"})
           samples == IF hbm THEN Ask("read_sbtsi_hbm_alertthreshold", {"buf"}) ELSE << >>
           mode == IF hbm THEN Ask("get_sbtsi_hbm_alertconfig", {"buf"}) ELSE << >>
<1>1. Alone(low)
  BY AloneCalls, AloneConcat, AloneShow
<1>2. Alone(<< >>)
  BY DEF Alone, KeepsFrom, IsSeq
<1>3. Alone(thresholds)
  BY <1>2, AloneCalls, AloneConcat DEF HbmThresholds
<1>4. Alone(timeout) /\ Alone(samples) /\ Alone(mode)
  BY <1>2, AloneCalls
<1> HIDE DEF low, thresholds, timeout, samples, mode
<1>5. Alone(offset)
  BY <1>1, <1>3, AloneCalls, AloneConcat, AloneShow
<1>6. TsiLast(hbm) = offset \o timeout \o Ask("read_sbtsi_alertthreshold", {"buf"})
                     \o samples \o Ask("read_sbtsi_alertconfig", {"buf"}) \o mode
                     \o Ask("read_sbtsi_manufid", {"id"}) \o Ask("read_sbtsi_revision", {"id"})
  BY DEF TsiLast, low, thresholds, timeout, samples, mode
<1> HIDE DEF offset
<1> QED BY <1>4, <1>5, <1>6, AloneCalls, AloneConcat

LEMMA TsiGood == \A o \in DOMAIN TsiScripts : Good(TsiScripts[o])
<1>1. DOMAIN TsiScripts = {"showtsiregisters"}
  BY DEF TsiScripts
<1>2. \A hbm \in BOOLEAN : Alone(TsiFirst(hbm) \o TsiLast(hbm))
  BY TsiFirstAlone, TsiLastAlone, AloneConcat
<1>3. Good(TsiScripts.showtsiregisters)
  BY <1>2, GoodAlone, GoodConcat DEF TsiScripts
<1> QED BY <1>1, <1>3

(* The summary: every line reads what it prints.                            *)
LEMMA SummaryGood == \A o \in DOMAIN SummaryScripts : Good(SummaryScripts[o])
<1>1. DOMAIN SummaryScripts = {"showmailboxsummary"}
  BY DEF SummaryScripts
<1>2. \A call : call # "read_sbrmi_thread_cs" => \A vs : Plain(Try(call, vs))
  BY Calls
<1>3. Chips \ {"mi300"} \in SUBSET Chips /\ {"mi300"} \in SUBSET Chips
  BY DEF Chips
<1>4. Plain(SummaryFirst)
  BY <1>2, <1>3, ProcTypeKeeps, PlainNarrowed, PlainConcat DEF SummaryFirst
<1>5. Plain(SummaryLast)
  BY <1>2, PlainConcat DEF SummaryLast
<1>6. Plain(MiSummary)
  <2>1. Plain(<< Step("esmi_get_processor_info", {}, {}, "next") >>)
    BY StepIs, OneStep
  <2> QED BY <1>2, <2>1, PlainConcat DEF MiSummary
<1>7. Good(SummaryScripts.showmailboxsummary)
  BY <1>2, <1>3, <1>4, <1>5, <1>6, PlainNarrowed, PlainConcat, GoodPlain DEF SummaryScripts
<1> QED BY <1>1, <1>7

(***************************************************************************)
(* The whole table.                                                        *)
(***************************************************************************)
LEMMA LookedUp ==
  ASSUME NEW parts
  PROVE  /\ \A i \in DOMAIN parts : DOMAIN parts[i] \subseteq DOMAIN Joined(parts)
         /\ \A x \in DOMAIN Joined(parts) :
              \E i \in DOMAIN parts : x \in DOMAIN parts[i] /\ Joined(parts)[x] = parts[i][x]
<1>1. DOMAIN Joined(parts) = Entries(parts)
  BY DEF Joined
<1>2. ASSUME NEW x \in Entries(parts)
      PROVE  \E i \in DOMAIN parts : x \in DOMAIN parts[i] /\ Joined(parts)[x] = parts[i][x]
  <2> DEFINE i == CHOOSE k \in DOMAIN parts : x \in DOMAIN parts[k]
  <2>1. i \in DOMAIN parts /\ x \in DOMAIN parts[i]
    BY DEF Entries
  <2>2. Joined(parts)[x] = parts[i][x]
    BY DEF Joined
  <2> QED BY <2>1, <2>2
<1> QED BY <1>1, <1>2 DEF Entries

LEMMA TablesAre ==
  /\ DOMAIN ScriptTables = 1..27
  /\ ScriptTables[1] = PowerScripts /\ ScriptTables[2] = BoostScripts /\ ScriptTables[3] = TsiSetScripts
  /\ ScriptTables[4] = TsiConfigScripts /\ ScriptTables[5] = RmiScripts /\ ScriptTables[6] = TsiScripts
  /\ ScriptTables[7] = DimmScripts /\ ScriptTables[8] = RasMcaScripts /\ ScriptTables[9] = FrequencyScripts
  /\ ScriptTables[10] = LinkScripts /\ ScriptTables[11] = FabricScripts /\ ScriptTables[12] = RegisterScripts
  /\ ScriptTables[13] = BistScripts /\ ScriptTables[14] = StatusScripts /\ ScriptTables[15] = ThreadScripts
  /\ ScriptTables[16] = RasScripts /\ ScriptTables[17] = PostCodeScripts /\ ScriptTables[18] = RuntimeErrorScripts
  /\ ScriptTables[19] = LateReadScripts /\ ScriptTables[20] = LateScripts /\ ScriptTables[21] = SummaryScripts
  /\ ScriptTables[22] = MiMemoryScripts /\ ScriptTables[23] = MiInfoScripts /\ ScriptTables[24] = MiClockScripts
  /\ ScriptTables[25] = MiPstateScripts /\ ScriptTables[26] = MiStatisticsScripts /\ ScriptTables[27] = MiDieScripts
BY DEF ScriptTables

(* Every command but the careless ones prints only what it has read.        *)
LEMMA ScriptsGood == \A o \in DOMAIN Scripts : o \notin Careless => Good(Scripts[o])
<1> SUFFICES ASSUME NEW o \in DOMAIN Scripts, o \notin Careless PROVE Good(Scripts[o])
  OBVIOUS
<1>1. PICK i \in 1..27 : o \in DOMAIN ScriptTables[i] /\ Scripts[o] = ScriptTables[i][o]
  BY LookedUp, TablesAre DEF Scripts
<1>2. DOMAIN RmiScripts \subseteq Careless
  BY DEF RmiScripts, Careless
<1>3. i \in {1, 2, 3, 4, 5, 6, 7, 8, 9, 10, 11, 12, 13, 14, 15, 16, 17, 18, 19, 20,
            21, 22, 23, 24, 25, 26, 27}
  BY <1>1
<1> QED
  BY <1>1, <1>2, <1>3, TablesAre,
     PowerGood, BoostGood, TsiSetGood, TsiConfigGood, TsiGood, DimmGood, RasMcaGood,
     FrequencyGood, LinkGood, FabricGood, RegisterGood, BistGood, StatusGood,
     ThreadGood, RasGood, PostCodeGood, RuntimeErrorGood, LateReadGood, LateGood,
     SummaryGood, MiMemoryGood, MiInfoGood, MiClockGood, MiPstateGood,
     MiStatisticsGood, MiDieGood

(* The careless ones too are scripts.                                       *)
Typed(sc) == IsSeq(sc) /\ \A i \in 1..Len(sc) : IsSeq(sc[i])

LEMMA TypedOne == ASSUME NEW steps, IsSeq(steps) PROVE Typed(Script(steps))
<1> DEFINE sc == Script(steps)
<1>1. sc \in Seq({steps}) /\ Len(sc) = 1 /\ sc[1] = steps
  BY DEF Script
<1>2. \A i \in 1..Len(sc) : i = 1
  BY <1>1
<1> HIDE DEF sc
<1>3. Typed(sc)
  BY <1>1, <1>2 DEF Typed, IsSeq
<1> QED BY <1>3 DEF sc

LEMMA TypedConcat == ASSUME NEW a, NEW b, Typed(a), Typed(b) PROVE Typed(a \o b)
<1> DEFINE u == a \o b
<1>1. /\ IsSeq(u)
      /\ \A i \in 1..Len(a) : u[i] = a[i]
      /\ \A i \in 1..Len(b) : u[i + Len(a)] = b[i]
      /\ \A i \in 1..Len(u) : i \in 1..Len(a) \/ \E k \in 1..Len(b) : i = k + Len(a)
  BY Concat DEF Typed
<1> HIDE DEF u
<1>2. Typed(u)
  BY <1>1 DEF Typed
<1> QED BY <1>2 DEF u

LEMMA StepSeqs ==
  /\ \A call, vs : IsSeq(Ask(call, vs)) /\ IsSeq(Try(call, vs)) /\ IsSeq(Learn(call, vs))
  /\ \A call : IsSeq(Do(call))
  /\ \A vs : IsSeq(Assign(vs)) /\ IsSeq(Show(vs))
  /\ \A call, fills, shows, fail : IsSeq(<<Step(call, fills, shows, fail)>>)
<1>1. ASSUME NEW step PROVE IsSeq(<<step>>)
  <2>1. <<step>> \in Seq({step})
    OBVIOUS
  <2> QED BY <2>1 DEF IsSeq
<1> QED BY <1>1 DEF Ask, Try, Learn, Do, Assign, Show

LEMMA SeqConcat == ASSUME NEW s, NEW t, IsSeq(s), IsSeq(t) PROVE IsSeq(s \o t)
BY Concat

LEMMA ScriptsTyped == \A o \in DOMAIN Scripts : Typed(Scripts[o])
<1>1. \A sc : Good(sc) => Typed(sc)
  BY DEF Good, Typed, Careful
<1>2. \A o \in DOMAIN BoostScripts : Typed(BoostScripts[o])
  <2>1. Typed(BoostScripts.set_and_verify_dramthrottle)
    BY StepSeqs, SeqConcat, TypedOne DEF BoostScripts
  <2>2. \A o \in DOMAIN BoostScripts : o \in Careless => o = "set_and_verify_dramthrottle"
    BY DEF BoostScripts, Careless
  <2> QED BY <1>1, <2>1, <2>2, BoostGood
<1>3. \A o \in DOMAIN RmiScripts : Typed(RmiScripts[o])
  <2>1. \A chips, s : IsSeq(s) => IsSeq(OnChips(chips, s))
    BY NarrowedSeq
  <2>2. IsSeq(RmiFirst)
    BY <2>1, StepSeqs, SeqConcat DEF RmiFirst
  <2>3. IsSeq(RmiMasks) /\ IsSeq(RmiLast)
    BY <2>1, StepSeqs, SeqConcat DEF RmiMasks, RmiLast
  <2>4. Typed(RmiScripts.showrmiregisters)
    BY <2>2, <2>3, SeqConcat, TypedOne DEF RmiScripts
  <2>5. DOMAIN RmiScripts = {"showrmiregisters"}
    BY DEF RmiScripts
  <2> QED BY <2>4, <2>5
<1>4. SUFFICES ASSUME NEW o \in DOMAIN Scripts PROVE Typed(Scripts[o])
  OBVIOUS
<1>5. PICK i \in 1..27 : o \in DOMAIN ScriptTables[i] /\ Scripts[o] = ScriptTables[i][o]
  BY LookedUp, TablesAre DEF Scripts
<1>6. i \in {1, 2, 3, 4, 5, 6, 7, 8, 9, 10, 11, 12, 13, 14, 15, 16, 17, 18, 19, 20,
            21, 22, 23, 24, 25, 26, 27}
  BY <1>5
<1> QED
  BY <1>1, <1>2, <1>3, <1>5, <1>6, TablesAre,
     PowerGood, TsiSetGood, TsiConfigGood, TsiGood, DimmGood, RasMcaGood, FrequencyGood,
     LinkGood, FabricGood, RegisterGood, BistGood, StatusGood, ThreadGood, RasGood,
     PostCodeGood, RuntimeErrorGood, LateReadGood, LateGood, SummaryGood,
     MiMemoryGood, MiInfoGood, MiClockGood, MiPstateGood, MiStatisticsGood,
     MiDieGood

(***************************************************************************)
(* Running a script.  The answer step j gave v stands at step i.            *)
(***************************************************************************)
Standing(s, j, i, v) ==
  /\ v \in s[j].fills
  /\ \A k \in j..i - 1 : v \in s[k].fills => Firm(s[k])
  /\ s[j].families = Chips \/ \A k \in j..i - 1 : s[k].call # "get_platform_info"

(* Whatever a step that was for this socket gave and that still stands is   *)
(* the answer last asked for.                                               *)
StandingInv ==
  doing \notin Careless \cup {"none"} =>
    \A j \in 1..at - 1 : \A v :
      Standing(Steps, j, at, v) /\ chip \in Steps[j].chips /\ platInfo \in Steps[j].families
        => v \in current

OpInv == OperationTypeOK /\ ShownWasRead /\ StandingInv

LEMMA StepsRun ==
  ASSUME OperationTypeOK, doing # "none"
  PROVE  /\ Len(Steps) \in Nat
         /\ doing \notin Careless => Careful(Steps)
<1>1. doing \in DOMAIN Scripts /\ variant \in DOMAIN Scripts[doing]
  BY DEF OperationTypeOK
<1>2. Typed(Scripts[doing]) /\ (doing \notin Careless => Good(Scripts[doing]))
  BY <1>1, ScriptsTyped, ScriptsGood
<1>3. variant \in 1..Len(Scripts[doing])
  BY <1>1, <1>2, LenProperties DEF Typed, IsSeq
<1>4. IsSeq(Steps) /\ (doing \notin Careless => Careful(Steps))
  BY <1>2, <1>3 DEF Typed, Good, Steps
<1> QED BY <1>4, LenProperties DEF IsSeq

LEMMA OperationStarts == \A o \in DOMAIN Scripts : StartOperation(o) /\ OpInv => OpInv'
<1> SUFFICES ASSUME NEW o \in DOMAIN Scripts, StartOperation(o), OpInv PROVE OpInv'
  OBVIOUS
<1>1. /\ doing' = o /\ variant' \in DOMAIN Scripts[o] /\ at' = 1
      /\ shown' = {} /\ failed' = "none"
      /\ UNCHANGED <<chip, platInfo, failures>>
  BY DEF StartOperation
<1>2. Len(Steps') \in Nat
  <2>1. Typed(Scripts[o])
    BY ScriptsTyped
  <2>2. variant' \in 1..Len(Scripts[o])
    BY <1>1, <2>1, LenProperties DEF Typed, IsSeq
  <2>3. IsSeq(Scripts[o][variant'])
    BY <2>1, <2>2 DEF Typed
  <2> QED BY <1>1, <2>3, LenProperties DEF IsSeq, Steps
<1>3. at' \in 1..Len(Steps') + 1
  BY <1>1, <1>2
<1>4. OperationTypeOK'
  BY <1>1, <1>3 DEF OpInv, OperationTypeOK
<1>5. ShownWasRead'
  BY <1>1 DEF ShownWasRead
<1>6. StandingInv'
  <2>1. \A j \in 1..at' - 1 : FALSE
    BY <1>1
  <2> QED BY <2>1 DEF StandingInv
<1> QED BY <1>4, <1>5, <1>6 DEF OpInv

LEMMA OperationGoesOn == OpInv /\ OperationStep => OpInv'
<1> SUFFICES ASSUME OpInv, OperationStep PROVE OpInv'
  OBVIOUS
<1> USE DEF OpInv
<1>1. doing # "none" /\ at \in Nat \ {0}
  <2>1. doing # "none"
    BY DEF OperationStep, PassOver, CallSucceeds, CallFailsSilently,
           CallFailsWithData, CallFails, OperationEnds, Running
  <2> QED BY <2>1, StepsRun DEF OperationTypeOK
<1>2. Len(Steps) \in Nat /\ (doing \notin Careless => Careful(Steps))
  BY <1>1, StepsRun
<1>3. doing \in DOMAIN Scripts /\ variant \in DOMAIN Scripts[doing]
  BY <1>1 DEF OperationTypeOK
<1>4. CASE doing' = "none"
  <2>1. /\ UNCHANGED <<chip, platInfo, variant>> /\ shown' = {}
        /\ failed' \in {failed, doing} /\ failures' \in {failures, failures - 1}
        /\ failures' \in Nat \/ failures' = failures
    BY <1>1, <1>4, ToolFailuresAssumption
       DEF OperationStep, PassOver, CallSucceeds, CallFailsSilently,
           CallFailsWithData, CallFails, OperationEnds, Running, OperationTypeOK
  <2>2. OperationTypeOK'
    BY <1>3, <1>4, <2>1, ToolFailuresAssumption DEF OperationTypeOK
  <2>3. ShownWasRead' /\ StandingInv'
    BY <1>4, <2>1 DEF ShownWasRead, StandingInv
  <2> QED BY <2>2, <2>3
<1>5. CASE doing' # "none"
  <2>1. /\ Running /\ at' = at + 1 /\ UNCHANGED <<chip, doing, variant, failed>>
        /\ platInfo' \in {platInfo, chip}
        /\ failures' = failures \/ (failures > 0 /\ failures' = failures - 1)
    BY <1>1, <1>5 DEF OperationStep, PassOver, CallSucceeds, CallFailsSilently,
                      CallFailsWithData, CallFails, OperationEnds
  <2>2. at <= Len(Steps) /\ Steps' = Steps /\ at \in 1..Len(Steps)
    BY <1>1, <1>2, <2>1 DEF Running, Steps
  <2>3. OperationTypeOK'
    BY <1>1, <1>2, <1>3, <2>1, <2>2, ToolFailuresAssumption DEF OperationTypeOK
  <2>4. CASE doing \in Careless
    BY <2>1, <2>3, <2>4 DEF ShownWasRead, StandingInv
  <2>5. CASE doing \notin Careless
    <3>1. Careful(Steps) /\ Honest(Now)
      BY <1>2, <2>2, <2>5 DEF Careful, Now
    <3>2. ~CallFailsSilently
      BY <3>1 DEF CallFailsSilently, Honest
    <3>3. platInfo \in Chips
      BY DEF OperationTypeOK, Chips
    (* What stands after the step stood before it, or is its own.           *)
    <3>4. \A j \in 1..at - 1 : \A v :
            /\ Standing(Steps, j, at + 1, v) => Standing(Steps, j, at, v)
            /\ Standing(Steps, j, at + 1, v) =>
                 /\ v \in Now.fills => Firm(Now)
                 /\ Steps[j].families = Chips \/ Now.call # "get_platform_info"
      <4>1. \A j \in 1..at - 1 : at \in j..(at + 1) - 1
                                 /\ \A k \in j..at - 1 : k \in j..(at + 1) - 1
        BY <1>1
      <4> QED BY <4>1 DEF Standing, Now
    <3>5. \A j \in 1..at - 1 : \A v :
            Standing(Steps, j, at, v) /\ chip \in Steps[j].chips /\ platInfo \in Steps[j].families
              => v \in current
      BY <1>1, <2>5 DEF StandingInv
    <3>6. \A j \in 1..at' - 1 : j \in 1..at - 1 \/ j = at
      BY <1>1, <2>1
    <3>8. SUFFICES /\ shown' \subseteq current'
                   /\ \A j \in 1..at' - 1 : \A v :
                        /\ Standing(Steps, j, at + 1, v)
                        /\ chip \in Steps[j].chips /\ platInfo' \in Steps[j].families
                        => v \in current'
      BY <2>1, <2>2, <2>3 DEF ShownWasRead, StandingInv
    <3>9. CASE PassOver
      <4>1. shown' = {} /\ current' = current /\ platInfo' = platInfo
            /\ ~(chip \in Now.chips /\ platInfo \in Now.families)
        BY <3>9 DEF PassOver, Applies
      <4> QED BY <3>4, <3>5, <3>6, <4>1 DEF Now
    <3>10. CASE CallSucceeds
      <4>1. /\ current' = current \cup Now.fills /\ shown' = Now.shows
            /\ platInfo' = IF Now.call = "get_platform_info" THEN chip ELSE platInfo
            /\ chip \in Now.chips /\ platInfo \in Now.families
        BY <3>10 DEF CallSucceeds, Applies
      <4>2. ASSUME NEW v \in Now.shows PROVE v \in current'
        <5>1. CASE v \in Now.fills
          BY <4>1, <5>1
        <5>2. CASE \E j \in 1..at - 1 : Gives(Steps, j, at, v)
          <6>1. PICK j \in 1..at - 1 : Gives(Steps, j, at, v)
            BY <5>2
          <6>2. Standing(Steps, j, at, v)
            BY <6>1 DEF Gives, Standing
          <6>3. chip \in Steps[j].chips /\ platInfo \in Steps[j].families
            BY <3>3, <4>1, <6>1 DEF Gives, Now
          <6> QED BY <3>5, <4>1, <6>2, <6>3
        <5> QED BY <2>2, <3>1, <5>1, <5>2 DEF Careful, Now
      <4>3. ASSUME NEW j \in 1..at' - 1, NEW v, Standing(Steps, j, at + 1, v),
                   chip \in Steps[j].chips, platInfo' \in Steps[j].families
            PROVE  v \in current'
        <5>1. CASE j = at
          BY <4>1, <4>3, <5>1 DEF Standing, Now
        <5>2. CASE j \in 1..at - 1
          <6>1. platInfo \in Steps[j].families
            BY <3>3, <3>4, <4>1, <4>3, <5>2
          <6> QED BY <3>4, <3>5, <4>1, <4>3, <5>2, <6>1
        <5> QED BY <3>6, <5>1, <5>2
      <4> QED BY <4>1, <4>2, <4>3
    <3>11. CASE CallFails
      <4>1. /\ current' = current \ Now.fills /\ shown' = {} /\ platInfo' = platInfo
            /\ Now.call # "none" /\ Now.fail # "stop"
        BY <1>5, <3>11 DEF CallFails
      <4>2. ~Firm(Now)
        BY <4>1 DEF Firm
      <4>3. \A v : ~(Standing(Steps, at, at + 1, v))
        <5>1. at \in at..(at + 1) - 1
          BY <1>1
        <5> QED BY <4>2, <5>1 DEF Standing, Now
      <4> QED BY <3>4, <3>5, <3>6, <4>1, <4>2, <4>3
    (* What still stood before the validity check is not what it fills.     *)
    <3>12. CASE CallFailsWithData
      <4>1. /\ current' = (current \ Now.fills) \cup Explained /\ shown' = Explained
            /\ platInfo' = platInfo /\ Now.call = ValidityCheck
        BY <3>12 DEF CallFailsWithData
      <4>2. ~Firm(Now)
        BY <4>1 DEF Firm, ValidityCheck
      <4>3. \A v : ~(Standing(Steps, at, at + 1, v))
        <5>1. at \in at..(at + 1) - 1
          BY <1>1
        <5> QED BY <4>2, <5>1 DEF Standing, Now
      <4> QED BY <3>4, <3>5, <3>6, <4>1, <4>2, <4>3
    <3> QED BY <1>1, <1>5, <2>1, <3>2, <3>9, <3>10, <3>11, <3>12 DEF OperationStep, OperationEnds
  <2> QED BY <2>4, <2>5
<1> QED BY <1>4, <1>5

LEMMA OperationStays == OpInv /\ UNCHANGED opVars => OpInv'
BY DEF OpInv, opVars, OperationTypeOK, ShownWasRead, StandingInv, Standing, Steps

LEMMA OperationBegins == OperationInit => OpInv
<1>1. Chips # {} /\ "none" \notin Careless
  BY DEF Chips, Careless
<1> QED BY DEF OperationInit, OpInv, OperationTypeOK, ShownWasRead, StandingInv
=============================================================================
