------------------------ MODULE EnvironmentFileProofs ------------------------
(***************************************************************************)
(* What the patches of server.env do to the settings that are read from it,*)
(* for every text, duplicate lines included.                               *)
(***************************************************************************)
EXTENDS EnvironmentFile, WellFoundedInduction, TLAPS

\* Texts whose values are in V.
TextsOf(V) == Seq([key : Settings, value : V])

LEMMA SetMinimum ==
    ASSUME NEW T, T \subseteq Nat, T # {}
    PROVE  \E x \in T : \A y \in T : x <= y
  <1>1. \E x \in T : \A y \in T : ~ (<<y, x>> \in OpToRel(<, Nat))
    BY NatLessThanWellFounded, WFMin
  <1>2. PICK x \in T : \A y \in T : ~ (<<y, x>> \in OpToRel(<, Nat))
    BY <1>1
  <1>3. \A y \in T : ~(y < x)
    BY <1>2 DEF OpToRel
  <1>4. \A y \in T : x <= y
    <2>1. TAKE y \in T
    <2>2. x \in Nat /\ y \in Nat /\ ~(y < x)
      BY <1>2, <1>3
    <2> QED BY <2>2
  <1> QED
    BY <1>2, <1>4

LEMMA SetMaximum ==
    ASSUME NEW n \in Nat, NEW S, S \subseteq 1..n, S # {}
    PROVE  \E x \in S : \A y \in S : y <= x
  <1> DEFINE T == {n - i : i \in S}
  <1>0. \A i \in S : n - i \in Nat
    OBVIOUS
  <1>1. T \subseteq Nat /\ T # {}
    BY <1>0
  <1>2. PICK t \in T : \A y \in T : t <= y
    BY <1>1, SetMinimum
  <1>3. PICK x \in S : t = n - x
    BY <1>2
  <1>4. \A y \in S : n - x <= n - y
    BY <1>2, <1>3
  <1>5. \A y \in S : y <= x
    BY <1>4, x \in 1..n, S \subseteq 1..n
  <1> QED
    BY <1>3, <1>5

\* The lines the programs look for exist.
LEMMA FirstLineFound ==
    ASSUME NEW V, NEW text \in TextsOf(V), NEW k, Has(text, k)
    PROVE  /\ FirstLine(text, k) \in DOMAIN text
           /\ text[FirstLine(text, k)].key = k
           /\ \A j \in DOMAIN text : text[j].key = k => FirstLine(text, k) <= j
  <1> DEFINE S == {i \in DOMAIN text : text[i].key = k}
  <1>1. S \subseteq Nat /\ S # {}
    BY DEF Has, TextsOf
  <1>2. \E i \in S : \A j \in S : i <= j
    BY <1>1, SetMinimum
  <1>3. \E i \in DOMAIN text : text[i].key = k /\ \A j \in DOMAIN text : text[j].key = k => i <= j
    BY <1>2
  <1> QED
    BY <1>3 DEF FirstLine

LEMMA LastLineFound ==
    ASSUME NEW V, NEW text \in TextsOf(V), NEW k, Has(text, k)
    PROVE  /\ LastLine(text, k) \in DOMAIN text
           /\ text[LastLine(text, k)].key = k
           /\ \A j \in DOMAIN text : text[j].key = k => j <= LastLine(text, k)
  <1> DEFINE S == {i \in DOMAIN text : text[i].key = k}
  <1>1. Len(text) \in Nat /\ S \subseteq 1..Len(text) /\ S # {}
    BY DEF Has, TextsOf
  <1> HIDE DEF S
  <1>2. \E i \in S : \A j \in S : j <= i
    BY <1>1, SetMaximum
  <1>3. \E i \in DOMAIN text : text[i].key = k /\ \A j \in DOMAIN text : text[j].key = k => j <= i
    BY <1>2 DEF S
  <1> QED
    BY <1>3 DEF LastLine

\* The value read is that of any line of the setting after which there is none.
LEMMA ValueOfLast ==
    ASSUME NEW V, NEW text \in TextsOf(V), NEW k, NEW i \in DOMAIN text,
           text[i].key = k, \A j \in DOMAIN text : text[j].key = k => j <= i
    PROVE  ValueOf(text, k) = text[i].value
  <1>1. Has(text, k)
    BY DEF Has
  <1> DEFINE last == LastLine(text, k)
  <1>2. last \in DOMAIN text /\ text[last].key = k /\ \A j \in DOMAIN text : text[j].key = k => j <= last
    BY <1>1, LastLineFound
  <1> HIDE DEF last
  <1>3. last <= i /\ i <= last
    BY <1>2
  <1>4. last \in Nat /\ i \in Nat
    BY <1>2 DEF TextsOf
  <1>5. last = i
    BY <1>3, <1>4
  <1> QED
    BY <1>1, <1>5 DEF ValueOf, last

\* A text with the same settings on the same lines reads the same for a
\* setting whose lines have not changed.
LEMMA SameLines ==
    ASSUME NEW V, NEW text \in TextsOf(V), NEW text2 \in TextsOf(V), NEW k,
           DOMAIN text2 = DOMAIN text,
           \A i \in DOMAIN text : text2[i].key = text[i].key,
           \A i \in DOMAIN text : text[i].key = k => text2[i].value = text[i].value
    PROVE  ValueOf(text2, k) = ValueOf(text, k)
  <1>1. CASE Has(text, k)
    <2> DEFINE last == LastLine(text, k)
    <2>1. last \in DOMAIN text /\ text[last].key = k /\ \A j \in DOMAIN text : text[j].key = k => j <= last
      BY <1>1, LastLineFound
    <2> HIDE DEF last
    <2>2. ValueOf(text, k) = text[last].value
      BY <2>1, ValueOfLast
    <2>3. ValueOf(text2, k) = text2[last].value
      <3>1. last \in DOMAIN text2 /\ text2[last].key = k
        BY <2>1
      <3>2. \A j \in DOMAIN text2 : text2[j].key = k => j <= last
        BY <2>1
      <3> QED BY <3>1, <3>2, ValueOfLast
    <2> QED BY <2>1, <2>2, <2>3
  <1>2. CASE ~Has(text, k)
    <2>1. ~Has(text2, k)
      BY <1>2 DEF Has
    <2> QED BY <1>2, <2>1 DEF ValueOf
  <1> QED BY <1>1, <1>2

LEMMA AddedLine ==
    ASSUME NEW V, NEW text \in TextsOf(V), NEW k \in Settings, NEW v \in V
    PROVE  /\ AddLine(text, k, v) \in TextsOf(V)
           /\ ValueOf(AddLine(text, k, v), k) = v
           /\ \A k2 \in Settings \ {k} : ValueOf(AddLine(text, k, v), k2) = ValueOf(text, k2)
  <1> DEFINE new == AddLine(text, k, v)
             n == Len(text)
  <1>1. new \in TextsOf(V) /\ n \in Nat /\ DOMAIN text = 1..n /\ DOMAIN new = 1..(n + 1)
    BY DEF AddLine, TextsOf
  <1>2. /\ \A i \in 1..n : new[i] = text[i]
        /\ new[n + 1] = [key |-> k, value |-> v]
    BY DEF AddLine, TextsOf
  <1> HIDE DEF new, n
  <1>3. ValueOf(new, k) = v
    <2>1. n + 1 \in DOMAIN new /\ new[n + 1].key = k /\ \A j \in DOMAIN new : j <= n + 1
      BY <1>1, <1>2
    <2>2. ValueOf(new, k) = new[n + 1].value
      BY <1>1, <2>1, ValueOfLast
    <2> QED BY <1>2, <2>2
  <1>4. ASSUME NEW k2 \in Settings \ {k} PROVE ValueOf(new, k2) = ValueOf(text, k2)
    <2>1. \A i \in DOMAIN new : new[i].key = k2 => i \in DOMAIN text /\ text[i] = new[i]
      BY <1>1, <1>2
    <2>2. CASE Has(text, k2)
      <3> DEFINE last == LastLine(text, k2)
      <3>1. last \in DOMAIN text /\ text[last].key = k2 /\ \A j \in DOMAIN text : text[j].key = k2 => j <= last
        BY <2>2, LastLineFound
      <3> HIDE DEF last
      <3>2. ValueOf(text, k2) = text[last].value
        BY <3>1, ValueOfLast
      <3>3. last \in DOMAIN new /\ new[last] = text[last]
        BY <1>1, <1>2, <3>1
      <3>4. \A j \in DOMAIN new : new[j].key = k2 => j <= last
        BY <2>1, <3>1
      <3>5. ValueOf(new, k2) = new[last].value
        BY <1>1, <3>1, <3>3, <3>4, ValueOfLast
      <3> QED BY <3>2, <3>3, <3>5
    <2>3. CASE ~Has(text, k2)
      <3>1. ~Has(new, k2)
        BY <2>1, <2>3 DEF Has
      <3> QED BY <2>3, <3>1 DEF ValueOf
    <2> QED BY <2>2, <2>3
  <1> QED BY <1>1, <1>3, <1>4 DEF new

LEMMA Element ==
    ASSUME NEW S, NEW s \in Seq(S)
    PROVE  \A j \in DOMAIN s : s[j] \in S
  OBVIOUS

\* The older deploy rewrites every line of the setting: whatever server.env
\* holds, what is read back is the value it was given, and no other setting
\* is read differently.
THEOREM SetValueTakesEffect ==
    ASSUME NEW V, NEW text \in TextsOf(V), NEW k \in Settings, NEW v \in V
    PROVE  LET new == SetValue(text, k, v)
           IN  /\ new \in TextsOf(V)
               /\ ValueOf(new, k) = v
               /\ \A k2 \in Settings \ {k} : ValueOf(new, k2) = ValueOf(text, k2)
  <1> DEFINE new == SetValue(text, k, v)
  <1>1. CASE ~Has(text, k)
    BY <1>1, AddedLine DEF SetValue
  <1>2. CASE Has(text, k)
    <2> DEFINE line(i) == IF text[i].key = k THEN [text[i] EXCEPT !.value = v] ELSE text[i]
    <2>1. new = [i \in DOMAIN text |-> line(i)]
      BY <1>2 DEF SetValue
    <2>2. \A i \in DOMAIN text : text[i] \in [key : Settings, value : V]
      BY Element DEF TextsOf
    <2>3. \A i \in DOMAIN text :
             /\ line(i) \in [key : Settings, value : V]
             /\ line(i).key = text[i].key
             /\ line(i).value = IF text[i].key = k THEN v ELSE text[i].value
      BY <2>2
    <2> HIDE DEF line
    <2>4. new \in TextsOf(V) /\ DOMAIN new = DOMAIN text
      BY <2>1, <2>3 DEF TextsOf
    <2>5. \A i \in DOMAIN text : new[i].key = text[i].key
      BY <2>1, <2>3
    <2>6. \A i \in DOMAIN text : new[i].value = IF text[i].key = k THEN v ELSE text[i].value
      BY <2>1, <2>3
    <2> HIDE DEF new
    <2>7. ASSUME NEW k2 \in Settings \ {k} PROVE ValueOf(new, k2) = ValueOf(text, k2)
      <3>1. \A i \in DOMAIN text : text[i].key = k2 => new[i].value = text[i].value
        BY <2>6
      <3> QED BY <2>4, <2>5, <3>1, SameLines
    <2>8. ValueOf(new, k) = v
      <3>1. Has(new, k)
        BY <1>2, <2>4, <2>5 DEF Has
      <3>2. LastLine(new, k) \in DOMAIN new /\ new[LastLine(new, k)].key = k
        BY <2>4, <3>1, LastLineFound
      <3> QED BY <2>4, <2>5, <2>6, <3>1, <3>2 DEF ValueOf
    <2> QED BY <2>4, <2>7, <2>8 DEF new
  <1> QED BY <1>1, <1>2

\* The newer deploy rewrites the first line of the setting, while the last is
\* read: other settings are read as before, and the new value is read when
\* server.env has the setting at most once.
THEOREM ReplaceValueTakesEffect ==
    ASSUME NEW V, NEW text \in TextsOf(V), NEW k \in Settings, NEW v \in V
    PROVE  LET new == ReplaceValue(text, k, v)
           IN  /\ new \in TextsOf(V)
               /\ \A k2 \in Settings \ {k} : ValueOf(new, k2) = ValueOf(text, k2)
               /\ (\A i, j \in DOMAIN text : text[i].key = k /\ text[j].key = k => i = j)
                   => ValueOf(new, k) = v
  <1> DEFINE new == ReplaceValue(text, k, v)
  <1>1. CASE ~Has(text, k)
    BY <1>1, AddedLine DEF ReplaceValue
  <1>2. CASE Has(text, k)
    <2>1. FirstLine(text, k) \in DOMAIN text /\ text[FirstLine(text, k)].key = k
      BY <1>2, FirstLineFound
    <2>2. PICK first \in DOMAIN text : text[first].key = k /\ new = [text EXCEPT ![first].value = v]
      BY <1>2, <2>1 DEF ReplaceValue
    <2> HIDE DEF new
    <2>3. /\ new \in TextsOf(V)
          /\ DOMAIN new = DOMAIN text
          /\ \A j \in DOMAIN text : new[j].key = text[j].key
          /\ \A j \in DOMAIN text : new[j].value = IF j = first THEN v ELSE text[j].value
      <3>1. \A j \in DOMAIN text : text[j] \in [key : Settings, value : V]
        BY Element DEF TextsOf
      <3> QED BY <2>2, <3>1 DEF TextsOf
    <2>4. ASSUME NEW k2 \in Settings \ {k} PROVE ValueOf(new, k2) = ValueOf(text, k2)
      <3>1. \A i \in DOMAIN text : text[i].key = k2 => new[i].value = text[i].value
        BY <2>2, <2>3
      <3> QED BY <2>3, <3>1, SameLines
    <2>5. ASSUME \A i, j \in DOMAIN text : text[i].key = k /\ text[j].key = k => i = j
          PROVE  ValueOf(new, k) = v
      <3>1. first \in DOMAIN new /\ new[first].key = k /\ new[first].value = v
        BY <2>2, <2>3
      <3>2. \A j \in DOMAIN new : new[j].key = k => j <= first
        <4>1. first \in Nat
          BY <2>2 DEF TextsOf
        <4> QED BY <2>2, <2>3, <2>5, <4>1
      <3> QED BY <2>3, <3>1, <3>2, ValueOfLast
    <2> QED BY <2>3, <2>4, <2>5 DEF new
  <1> QED BY <1>1, <1>2

\* ensure_environment completes a file and never overrides it: a setting that
\* is there keeps its value, one that is not takes the installer's.
THEOREM AppendIfMissingKeeps ==
    ASSUME NEW V, NEW text \in TextsOf(V), NEW k \in Settings, NEW v \in V
    PROVE  LET new == AppendIfMissing(text, k, v)
           IN  /\ new \in TextsOf(V)
               /\ ValueOf(new, k) = IF Has(text, k) THEN ValueOf(text, k) ELSE v
               /\ \A k2 \in Settings \ {k} : ValueOf(new, k2) = ValueOf(text, k2)
  BY AddedLine DEF AppendIfMissing

-----------------------------------------------------------------------------
(***************************************************************************)
(* Which settings a text has, and how often.                               *)
(***************************************************************************)
Once(text, k) == \A i, j \in DOMAIN text : text[i].key = k /\ text[j].key = k => i = j

\* A text with the same settings on the same lines.
SameKeys(text, text2) ==
    DOMAIN text2 = DOMAIN text /\ \A i \in DOMAIN text : text2[i].key = text[i].key

LEMMA AddedSetting ==
    ASSUME NEW V, NEW text \in TextsOf(V), NEW k \in Settings, NEW v \in V, NEW k2
    PROVE  /\ Has(AddLine(text, k, v), k2) <=> k2 = k \/ Has(text, k2)
           /\ Once(text, k2) /\ (k2 = k => ~Has(text, k)) => Once(AddLine(text, k, v), k2)
  <1> DEFINE new == AddLine(text, k, v)
             n == Len(text)
  <1>1. n \in Nat /\ DOMAIN text = 1..n /\ DOMAIN new = 1..(n + 1)
    BY DEF AddLine, TextsOf
  <1>2. /\ \A i \in 1..n : new[i] = text[i]
        /\ new[n + 1].key = k
    BY DEF AddLine, TextsOf
  <1> HIDE DEF new, n
  <1>3. \A i \in DOMAIN new : i \in DOMAIN text \/ i = n + 1
    BY <1>1
  <1>4. Has(new, k2) <=> k2 = k \/ Has(text, k2)
    <2>1. n + 1 \in DOMAIN new /\ \A i \in DOMAIN text : i \in DOMAIN new
      BY <1>1
    <2> QED BY <1>1, <1>2, <1>3, <2>1 DEF Has
  <1>5. ASSUME Once(text, k2), k2 = k => ~Has(text, k) PROVE Once(new, k2)
    BY <1>1, <1>2, <1>3, <1>5 DEF Once, Has
  <1> QED BY <1>4, <1>5 DEF new

\* Rewriting a setting that is there changes no key.
LEMMA RewrittenKeys ==
    ASSUME NEW V, NEW text \in TextsOf(V), NEW k \in Settings, NEW v \in V, Has(text, k)
    PROVE  SameKeys(text, ReplaceValue(text, k, v)) /\ SameKeys(text, SetValue(text, k, v))
  <1>1. \A i \in DOMAIN text : text[i] \in [key : Settings, value : V]
    BY Element DEF TextsOf
  <1>2. SameKeys(text, ReplaceValue(text, k, v))
    <2>1. PICK first \in DOMAIN text : ReplaceValue(text, k, v) = [text EXCEPT ![first].value = v]
      BY FirstLineFound DEF ReplaceValue
    <2>2. DOMAIN [text EXCEPT ![first].value = v] = DOMAIN text
      OBVIOUS
    <2>3. \A i \in DOMAIN text : [text EXCEPT ![first].value = v][i].key = text[i].key
      BY <1>1
    <2> QED BY <2>1, <2>2, <2>3 DEF SameKeys
  <1>3. SameKeys(text, SetValue(text, k, v))
    BY <1>1 DEF SetValue, SameKeys
  <1> QED BY <1>2, <1>3

\* No program adds a second line for a setting that a text has.
LEMMA OnceIsKept ==
    ASSUME NEW V, NEW text \in TextsOf(V), NEW k \in Settings, NEW v \in V, NEW k2, Once(text, k2)
    PROVE  /\ Once(AppendIfMissing(text, k, v), k2)
           /\ Once(ReplaceValue(text, k, v), k2)
           /\ Once(SetValue(text, k, v), k2)
  <1>1. CASE Has(text, k)
    <2>1. \A text2 : SameKeys(text, text2) => Once(text2, k2)
      BY DEF SameKeys, Once
    <2> QED BY <1>1, <2>1, RewrittenKeys DEF AppendIfMissing
  <1>2. CASE ~Has(text, k)
    BY <1>2, AddedSetting DEF AppendIfMissing, ReplaceValue, SetValue
  <1> QED BY <1>1, <1>2

LEMMA ReplacedSetting ==
    ASSUME NEW V, NEW text \in TextsOf(V), NEW k \in Settings, NEW v \in V, NEW k2
    PROVE  Has(ReplaceValue(text, k, v), k2) <=> k2 = k \/ Has(text, k2)
  <1>1. CASE Has(text, k)
    BY <1>1, RewrittenKeys DEF SameKeys, Has
  <1>2. CASE ~Has(text, k)
    BY <1>2, AddedSetting DEF ReplaceValue
  <1> QED BY <1>1, <1>2

LEMMA AppendedSetting ==
    ASSUME NEW V, NEW text \in TextsOf(V), NEW k \in Settings, NEW v \in V, NEW k2
    PROVE  Has(AppendIfMissing(text, k, v), k2) <=> k2 = k \/ Has(text, k2)
  BY AddedSetting DEF AppendIfMissing

\* The text of a new file has every setting once.
LEMMA NewTextReads ==
    ASSUME NEW V, NEW settings \in [Settings -> V], NewText(settings) \in TextsOf(V)
    PROVE  \A k \in Settings : /\ Has(NewText(settings), k) /\ Once(NewText(settings), k)
                               /\ ValueOf(NewText(settings), k) = settings[k]
  <1> DEFINE new == NewText(settings)
  <1>1. DOMAIN new = 1..4
    BY DEF NewText
  <1>2. /\ new[1].key = "base" /\ new[2].key = "provider"
        /\ new[3].key = "vpn" /\ new[4].key = "register"
    BY DEF NewText
  <1>3. /\ new[1].value = settings.base /\ new[2].value = settings.provider
        /\ new[3].value = settings.vpn /\ new[4].value = settings.register
    BY DEF NewText
  <1> HIDE DEF new
  <1>4. new \in TextsOf(V)
    BY DEF new
  <1>5. \A i \in 1..4 : i = 1 \/ i = 2 \/ i = 3 \/ i = 4
    OBVIOUS
  <1>6. ASSUME NEW k \in Settings, NEW n \in 1..4, new[n].key = k, new[n].value = settings[k],
               \A i \in 1..4 : new[i].key = k => i = n
        PROVE  Has(new, k) /\ Once(new, k) /\ ValueOf(new, k) = settings[k]
    <2>1. Has(new, k) /\ Once(new, k)
      BY <1>1, <1>6 DEF Has, Once
    <2>2. ValueOf(new, k) = new[n].value
      <3>1. n \in DOMAIN new /\ \A j \in DOMAIN new : new[j].key = k => j <= n
        BY <1>1, <1>6
      <3> QED BY <1>4, <1>6, <3>1, ValueOfLast
    <2> QED BY <1>6, <2>1, <2>2
  <1>7. ASSUME NEW k \in Settings PROVE Has(new, k) /\ Once(new, k) /\ ValueOf(new, k) = settings[k]
    <2>1. CASE k = "base"
      BY <1>2, <1>3, <1>5, <1>6, <2>1
    <2>2. CASE k = "provider"
      BY <1>2, <1>3, <1>5, <1>6, <2>2
    <2>3. CASE k = "vpn"
      BY <1>2, <1>3, <1>5, <1>6, <2>3
    <2>4. CASE k = "register"
      BY <1>2, <1>3, <1>5, <1>6, <2>4
    <2> QED BY <2>1, <2>2, <2>3, <2>4 DEF Settings
  <1> QED BY <1>7 DEF new
==============================================================================
