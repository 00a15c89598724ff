------------------------- MODULE PluginManagerProofs -------------------------
(***************************************************************************)
(* Theorems about PluginManager: whatever plugins there are, however meta  *)
(* plugins name each other and whatever fails, load() expands a meta       *)
(* plugin at most once within itself, and the manager, the loader, the     *)
(* thread collector and the listeners agree on what is loaded.             *)
(***************************************************************************)
EXTENDS PluginManager, SequenceTheorems, TLAPS

USE ConfigAssumption

-----------------------------------------------------------------------------
(* Sequences                                                               *)

(* Appending what is not there yet keeps a list free of doubles.           *)
LEMMA AppendNew ==
  ASSUME NEW S, NEW s \in Seq(S), NEW e \in S, e \notin Range(s)
  PROVE  /\ Append(s, e) \in Seq(S)
         /\ Range(Append(s, e)) = Range(s) \cup {e}
         /\ IsInjective(s) => IsInjective(Append(s, e))
<1> DEFINE t == Append(s, e)
<1>1. /\ t \in Seq(S) /\ Len(s) \in Nat /\ Len(t) = Len(s) + 1
      /\ DOMAIN s = 1..Len(s) /\ DOMAIN t = 1..(Len(s) + 1)
      /\ \A i \in 1..Len(s) : t[i] = s[i]
      /\ t[Len(s) + 1] = e
  OBVIOUS
<1> HIDE DEF t
<1>2. \A i \in DOMAIN s : s[i] # e
  BY DEF Range
<1>3. Range(t) = Range(s) \cup {e}
  BY <1>1 DEF Range
<1>4. ASSUME IsInjective(s), NEW i \in DOMAIN t, NEW j \in DOMAIN t, t[i] = t[j]
      PROVE  i = j
  <2>1. CASE i \in DOMAIN s /\ j \in DOMAIN s
    BY <1>1, <1>4, <2>1 DEF IsInjective
  <2>2. CASE i = Len(s) + 1
    BY <1>1, <1>2, <1>4, <2>2
  <2>3. CASE j = Len(s) + 1
    BY <1>1, <1>2, <1>4, <2>3
  <2>4. QED
    BY <1>1, <2>1, <2>2, <2>3
<1>5. QED
  BY <1>1, <1>3, <1>4 DEF t, IsInjective

(* Erasing the only entry of a name takes that name, and no other, away.   *)
LEMMA EraseOnly ==
  ASSUME NEW S, NEW s \in Seq(S), NEW k \in DOMAIN s, IsInjective(s)
  PROVE  /\ RemoveAt(s, k) \in Seq(S)
         /\ Range(RemoveAt(s, k)) = Range(s) \ {s[k]}
         /\ IsInjective(RemoveAt(s, k))
<1> DEFINE r == RemoveAt(s, k)
<1>1. k \in 1..Len(s) /\ Len(s) \in Nat /\ DOMAIN s = 1..Len(s)
  OBVIOUS
<1>2. /\ r \in Seq(S) /\ Len(r) = Len(s) - 1 /\ DOMAIN r = 1..(Len(s) - 1)
      /\ \A j \in 1..(Len(s) - 1) : r[j] = IF j < k THEN s[j] ELSE s[j + 1]
  <2> DEFINE a == SubSeq(s, 1, k - 1)
             b == SubSeq(s, k + 1, Len(s))
  <2>1. a \in Seq(S) /\ Len(a) = k - 1 /\ \A j \in 1..(k - 1) : a[j] = s[j]
    BY <1>1
  <2>2. b \in Seq(S) /\ Len(b) = Len(s) - k /\ \A j \in 1..(Len(s) - k) : b[j] = s[k + j]
    BY <1>1
  <2>3. r = a \o b
    BY DEF RemoveAt
  <2> HIDE DEF a, b, r
  <2>4. /\ r \in Seq(S) /\ Len(r) = Len(a) + Len(b) /\ DOMAIN r = 1..(Len(a) + Len(b))
        /\ \A j \in 1..(Len(a) + Len(b)) : r[j] = IF j <= Len(a) THEN a[j] ELSE b[j - Len(a)]
    <3>1. /\ a \o b \in Seq(S) /\ Len(a \o b) = Len(a) + Len(b)
          /\ \A j \in 1..(Len(a) + Len(b)) :
               (a \o b)[j] = IF j <= Len(a) THEN a[j] ELSE b[j - Len(a)]
      BY <2>1, <2>2, ConcatProperties
    <3>2. r \in Seq(S) => DOMAIN r = 1..Len(r)
      OBVIOUS
    <3> QED BY <2>3, <3>1, <3>2, Zenon
  <2>5. Len(a) + Len(b) = Len(s) - 1
    BY <1>1, <2>1, <2>2
  <2>6. ASSUME NEW j \in 1..(Len(s) - 1)
        PROVE  r[j] = IF j < k THEN s[j] ELSE s[j + 1]
    <3>1. j \in 1..(Len(a) + Len(b))
      BY <2>5
    <3>2. CASE j < k
      <4>1. j \in 1..(k - 1) /\ j <= Len(a)
        BY <1>1, <2>1, <3>2
      <4>2. QED
        BY <2>1, <2>4, <3>1, <3>2, <4>1
    <3>3. CASE ~(j < k)
      <4>1. ~(j <= Len(a)) /\ j - Len(a) \in 1..(Len(s) - k) /\ k + (j - Len(a)) = j + 1
        BY <1>1, <2>1, <3>3
      <4>2. QED
        BY <2>2, <2>4, <3>1, <3>3, <4>1
    <3>4. QED
      BY <3>2, <3>3
  <2>7. QED
    BY <2>4, <2>5, <2>6
<1> HIDE DEF r
<1>3. ASSUME NEW j \in DOMAIN r
      PROVE  \E i \in DOMAIN s : i # k /\ r[j] = s[i]
  <2>1. CASE j < k
    BY <1>1, <1>2, <2>1
  <2>2. CASE ~(j < k)
    <3>1. j + 1 \in DOMAIN s /\ j + 1 # k /\ r[j] = s[j + 1]
      BY <1>1, <1>2, <2>2
    <3>2. QED
      BY <3>1
  <2>3. QED
    BY <2>1, <2>2
<1>4. ASSUME NEW i \in DOMAIN s, i # k
      PROVE  \E j \in DOMAIN r : r[j] = s[i]
  <2>1. CASE i < k
    <3>1. i \in DOMAIN r /\ r[i] = s[i]
      BY <1>1, <1>2, <2>1
    <3>2. QED
      BY <3>1
  <2>2. CASE ~(i < k)
    <3>1. i - 1 \in DOMAIN r /\ ~(i - 1 < k) /\ (i - 1) + 1 = i
      BY <1>1, <1>2, <1>4, <2>2
    <3>2. r[i - 1] = s[i]
      BY <1>2, <3>1
    <3>3. QED
      BY <3>1, <3>2
  <2>3. QED
    BY <2>1, <2>2
<1>5. Range(r) = Range(s) \ {s[k]}
  <2>1. \A i \in DOMAIN s : i # k => s[i] # s[k]
    BY DEF IsInjective
  <2>2. ASSUME NEW x \in Range(r) PROVE x \in Range(s) \ {s[k]}
    BY <1>3, <2>1 DEF Range
  <2>3. ASSUME NEW x \in Range(s) \ {s[k]} PROVE x \in Range(r)
    BY <1>4 DEF Range
  <2>4. QED
    BY <2>2, <2>3
<1>6. ASSUME NEW i \in DOMAIN r, NEW j \in DOMAIN r, r[i] = r[j]
      PROVE  i = j
  <2> DEFINE at(h) == IF h < k THEN h ELSE h + 1
  <2>1. /\ at(i) \in DOMAIN s /\ at(j) \in DOMAIN s
        /\ r[i] = s[at(i)] /\ r[j] = s[at(j)]
    BY <1>1, <1>2
  <2>2. at(i) = at(j)
    <3> HIDE DEF at
    <3>1. QED
      BY <1>6, <2>1 DEF IsInjective
  <2>3. QED
    BY <1>1, <1>2, <2>2
<1>7. QED
  BY <1>2, <1>5, <1>6 DEF r, IsInjective

-----------------------------------------------------------------------------
(* The stack of calls                                                      *)

(* The work on one name is done: the frames keep their meta plugins, and   *)
(* only the last one has a name less to go.                                *)
LEMMA AdvancedFacts ==
  ASSUME TypeOK, Loading
  PROVE  /\ Depth \in Nat /\ Depth > 0
         /\ Name \in Names
         /\ Advanced \in Seq(Frames) /\ Len(Advanced) = Depth
         /\ \A i \in 1..Depth : Advanced[i].meta = stack[i].meta
         /\ \A i \in 1..Depth : i # Depth => Advanced[i] = stack[i]
         /\ Range(Todo) = {Name} \cup Range(Advanced[Depth].rest)
<1>1. Depth \in Nat /\ Depth > 0 /\ Depth \in 1..Depth /\ stack \in Seq(Frames)
  BY DEF TypeOK, Loading, Depth
<1>2. stack[Depth] \in Frames /\ Todo \in Seq(Names) /\ Todo # <<>>
  <2>1. stack[Depth] \in Frames
    BY <1>1 DEF Depth
  <2>2. QED
    BY <2>1 DEF Loading, Frames, Todo
<1>3. Name \in Names /\ Tail(Todo) \in Seq(Names)
  BY <1>2 DEF Name
<1> DEFINE f == [stack[Depth] EXCEPT !.rest = Tail(Todo)]
<1>4. f \in Frames /\ f.meta = stack[Depth].meta /\ f.rest = Tail(Todo)
  BY <1>2, <1>3 DEF Frames
<1>5. Advanced = [stack EXCEPT ![Depth] = f]
  BY DEF Advanced, Todo
<1> HIDE DEF f
<1>6. /\ Advanced \in Seq(Frames) /\ Len(Advanced) = Depth /\ Advanced[Depth] = f
      /\ \A i \in 1..Depth : i # Depth => Advanced[i] = stack[i]
  <2>1. stack \in [1..Depth -> Frames]
    BY <1>1 DEF Depth
  <2>2. Advanced \in [1..Depth -> Frames]
    BY <1>1, <1>4, <1>5, <2>1
  <2>3. Advanced \in Seq(Frames) /\ DOMAIN Advanced = 1..Depth
    BY <1>1, <2>2
  <2>4. Len(Advanced) = Depth
    BY <1>1, <2>3
  <2>5. QED
    BY <1>1, <1>5, <2>1, <2>3, <2>4
<1>7. \A i \in 1..Depth : Advanced[i].meta = stack[i].meta
  BY <1>4, <1>6
<1>8. Range(Todo) = {Name} \cup Range(Tail(Todo))
  <2> DEFINE s == Todo
  <2>1. s \in Seq(Names) /\ Len(s) \in Nat /\ Len(s) > 0 /\ DOMAIN s = 1..Len(s)
    BY <1>2
  <2> HIDE DEF s
  <2>2. /\ Head(s) = s[1] /\ DOMAIN Tail(s) = 1..(Len(s) - 1)
        /\ \A i \in 1..(Len(s) - 1) : Tail(s)[i] = s[i + 1]
    BY <2>1
  <2>3. ASSUME NEW x \in Range(s) PROVE x \in {Head(s)} \cup Range(Tail(s))
    <3>1. PICK i \in 1..Len(s) : s[i] = x
      BY <2>1 DEF Range
    <3>2. CASE i = 1
      BY <2>2, <3>1, <3>2
    <3>3. CASE i # 1
      <4>1. i - 1 \in 1..(Len(s) - 1) /\ (i - 1) + 1 = i
        BY <2>1, <3>1, <3>3
      <4>2. Tail(s)[i - 1] = x
        BY <2>2, <3>1, <4>1
      <4>3. QED
        BY <2>2, <4>1, <4>2 DEF Range
    <3>4. QED
      BY <3>2, <3>3
  <2>4. ASSUME NEW x \in {Head(s)} \cup Range(Tail(s)) PROVE x \in Range(s)
    <3>1. CASE x = Head(s)
      BY <2>1, <2>2, <3>1 DEF Range
    <3>2. CASE x \in Range(Tail(s))
      <4>1. PICK i \in 1..(Len(s) - 1) : Tail(s)[i] = x
        BY <2>2, <3>2 DEF Range
      <4>2. i + 1 \in 1..Len(s) /\ s[i + 1] = x
        BY <2>1, <2>2, <4>1
      <4>3. QED
        BY <2>1, <4>2 DEF Range
    <3>3. QED
      BY <2>4, <3>1, <3>2
  <2>5. Range(s) = {Head(s)} \cup Range(Tail(s))
    BY <2>3, <2>4
  <2>6. QED
    BY <2>5 DEF s, Name
<1>9. QED
  BY <1>1, <1>3, <1>4, <1>6, <1>7, <1>8

(* All but the last of the first k entries.                                *)
LEMMA FrontOf ==
  ASSUME NEW S, NEW s \in Seq(S), NEW k \in 1..Len(s)
  PROVE  /\ SubSeq(s, 1, k - 1) \in Seq(S)
         /\ Len(SubSeq(s, 1, k - 1)) = k - 1
         /\ \A i \in 1..(k - 1) : SubSeq(s, 1, k - 1)[i] = s[i]
  OBVIOUS

(* A call returns: the frames below it stay.                               *)
LEMMA FrontFacts ==
  ASSUME TypeOK, Depth > 0
  PROVE  /\ Depth \in Nat
         /\ Front(stack) \in Seq(Frames) /\ Len(Front(stack)) = Depth - 1
         /\ \A i \in 1..(Depth - 1) : Front(stack)[i] = stack[i]
         /\ Depth = 1 => Front(stack) = <<>>
<1> DEFINE s == stack
<1>1. s \in Seq(Frames) /\ Len(s) \in Nat /\ Len(s) > 0
  BY DEF TypeOK, Depth
<1>2. Front(stack) = SubSeq(s, 1, Len(s) - 1)
  BY DEF Front
<1> HIDE DEF s
<1>3. /\ SubSeq(s, 1, Len(s) - 1) \in Seq(Frames)
      /\ Len(SubSeq(s, 1, Len(s) - 1)) = Len(s) - 1
      /\ \A i \in 1..(Len(s) - 1) : SubSeq(s, 1, Len(s) - 1)[i] = s[i]
  <2>1. Len(s) \in 1..Len(s)
    BY <1>1
  <2>2. QED
    BY <1>1, <2>1, FrontOf
<1>4. Len(s) = 1 => SubSeq(s, 1, Len(s) - 1) = <<>>
  BY <1>1, <1>3
<1>5. QED
  BY <1>1, <1>2, <1>3, <1>4 DEF Depth, s

(* A call begins: its frame comes on top.                                  *)
LEMMA PushFacts ==
  ASSUME NEW s \in Seq(Frames), NEW f \in Frames
  PROVE  /\ Append(s, f) \in Seq(Frames) /\ Len(Append(s, f)) = Len(s) + 1
         /\ \A i \in 1..Len(s) : Append(s, f)[i] = s[i]
         /\ Append(s, f)[Len(s) + 1] = f
  OBVIOUS

(* What the actions do with the stack: five of them start and end calls,   *)
(* the others work on a name or leave it alone.                            *)
LEMMA Advances ==
  ASSUME SkipLoaded \/ RefuseOpen \/ LoadPlugin \/ FailInit \/ FailStart
  PROVE  /\ Loading /\ metas' = metas
         /\ \/ stack' = Advanced /\ op' = "loading"
            \/ stack' = stack /\ op' = "throwing"
  BY DEF SkipLoaded, RefuseOpen, LoadPlugin, FailInit, FailStart, CanAdd, Throw, Loading

LEMMA AdvanceStack ==
  ASSUME TypeOK, StackInv, Loading, metas' = metas,
         \/ stack' = Advanced /\ op' = "loading"
         \/ stack' = stack /\ op' = "throwing"
  PROVE  StackInv' /\ OnStack' = OnStack /\ stack' \in Seq(Frames) /\ Depth' = Depth
<1>0. Depth > 0
  BY DEF Loading
<1>1. CASE stack' = stack /\ op' = "throwing"
  <2>1. Depth' = Depth /\ OnStack' = OnStack /\ stack' \in Seq(Frames)
    BY <1>1 DEF Depth, OnStack, TypeOK
  <2>2. StackInv'
    BY <1>0, <1>1, <2>1 DEF StackInv, ExpandedOnce
  <2>3. QED
    BY <2>1, <2>2
<1>2. CASE stack' = Advanced /\ op' = "loading"
  <2>1. /\ Depth \in Nat /\ Depth > 0 /\ stack' \in Seq(Frames) /\ Len(stack') = Depth
        /\ \A i \in 1..Depth : stack'[i].meta = stack[i].meta
    BY <1>2, AdvancedFacts
  <2>2. Depth' = Depth
    BY <2>1 DEF Depth
  <2>3. OnStack' = OnStack
    <3>1. \A i \in 2..Depth : stack'[i].meta = stack[i].meta
      BY <2>1
    <3>2. OnStack' = {stack'[i].meta : i \in 2..Depth}
      BY <2>2 DEF OnStack
    <3> QED BY <3>1, <3>2, Zenon DEF OnStack
  <2>4. StackInv'
    BY <1>2, <2>1, <2>2, <2>3 DEF StackInv, ExpandedOnce
  <2>5. QED
    BY <2>1, <2>2, <2>3, <2>4
<1>3. QED
  BY <1>1, <1>2

LEMMA PushStack ==
  ASSUME TypeOK, StackInv, EnterMeta, Config[Name] # <<>>
  PROVE  /\ StackInv' /\ stack' \in Seq(Frames) /\ metas' = metas \cup {Name}
         /\ Depth \in Nat /\ Depth' = Depth + 1 /\ OnStack' = OnStack \cup {Name} /\ Name \notin OnStack
         /\ \A i \in 1..Depth : stack'[i] = Advanced[i]
         /\ stack'[Depth + 1] = [meta |-> Name, rest |-> Config[Name]]
<1> DEFINE f == [meta |-> Name, rest |-> Config[Name]]
<1>1. Loading /\ op' = op /\ op = "loading" /\ metas' = metas \cup {Name} /\ Name \in Metas \ metas
  BY DEF EnterMeta, IsMeta, Loading
<1>2. f \in Frames /\ f.meta = Name
  BY <1>1 DEF Frames
<1>3. stack' = Append(Advanced, f)
  BY DEF EnterMeta
<1> HIDE DEF f
<1>4. /\ Depth \in Nat /\ Depth > 0 /\ Advanced \in Seq(Frames) /\ Len(Advanced) = Depth
      /\ \A i \in 1..Depth : Advanced[i].meta = stack[i].meta
  BY <1>1, AdvancedFacts
<1>5. /\ stack' \in Seq(Frames) /\ Len(stack') = Depth + 1
      /\ \A i \in 1..Depth : stack'[i] = Advanced[i]
      /\ stack'[Depth + 1] = f
  BY <1>2, <1>3, <1>4, PushFacts
<1>6. Depth' = Depth + 1
  BY <1>5 DEF Depth
<1>7. \A i \in 1..Depth : stack'[i].meta = stack[i].meta
  BY <1>4, <1>5
<1>8. Name \notin OnStack
  BY <1>1 DEF StackInv
<1>9. 2..(Depth + 1) = 2..Depth \cup {Depth + 1}
  BY <1>4
<1>10. OnStack' = OnStack \cup {Name}
  <2>1. OnStack' = {stack'[i].meta : i \in 2..Depth \cup {Depth + 1}}
    BY <1>6, <1>9 DEF OnStack
  <2>2. \A i \in 2..Depth : i \in 1..Depth
    BY <1>4
  <2>3. \A i \in 2..Depth : stack'[i].meta = stack[i].meta
    BY <1>7, <2>2
  <2>4. stack'[Depth + 1].meta = Name
    BY <1>2, <1>5
  <2>5. QED
    BY <2>1, <2>3, <2>4 DEF OnStack
<1>11. ASSUME NEW i \in 2..Depth', NEW j \in 2..Depth', i # j PROVE stack'[i].meta # stack'[j].meta
  <2>1. \A k \in 2..Depth : stack'[k].meta = stack[k].meta /\ stack[k].meta \in OnStack
    BY <1>4, <1>7 DEF OnStack
  <2>2. stack'[Depth + 1].meta = Name
    BY <1>2, <1>5
  <2>3. CASE i \in 2..Depth /\ j \in 2..Depth
    BY <1>11, <2>1, <2>3 DEF StackInv, ExpandedOnce
  <2>4. CASE i = Depth + 1 /\ j \in 2..Depth
    BY <1>8, <2>1, <2>2, <2>4
  <2>5. CASE j = Depth + 1 /\ i \in 2..Depth
    BY <1>8, <2>1, <2>2, <2>5
  <2>6. QED
    BY <1>6, <1>9, <1>11, <2>3, <2>4, <2>5
<1>12. StackInv'
  <2>1. Depth' > 0 /\ stack'[1].meta = NoMeta
    BY <1>4, <1>6, <1>7 DEF StackInv
  <2>2. OnStack' \subseteq metas'
    BY <1>1, <1>10 DEF StackInv
  <2>3. QED
    BY <1>1, <1>11, <2>1, <2>2 DEF StackInv, ExpandedOnce
<1>13. QED
  BY <1>1, <1>4, <1>5, <1>6, <1>8, <1>10, <1>12 DEF f

(* A call of load() ends, by return or by an exception.                    *)
LEMMA PopStack ==
  ASSUME TypeOK, StackInv, Depth > 0, stack' = Front(stack),
         metas' \in {metas, metas \ {stack[Depth].meta}},
         op' = IF Depth = 1 THEN "idle" ELSE op, op \in {"loading", "throwing"}
  PROVE  /\ StackInv' /\ stack' \in Seq(Frames)
         /\ Depth \in Nat /\ Depth' = Depth - 1 /\ \A i \in 1..(Depth - 1) : stack'[i] = stack[i]
         /\ Depth > 1 => /\ OnStack = OnStack' \cup {stack[Depth].meta}
                         /\ stack[Depth].meta \notin OnStack'
         /\ Depth = 1 => OnStack = {} /\ OnStack' = {} /\ stack[Depth].meta = NoMeta
<1>1. /\ Depth \in Nat /\ stack' \in Seq(Frames) /\ Len(stack') = Depth - 1
      /\ \A i \in 1..(Depth - 1) : stack'[i] = stack[i]
      /\ Depth = 1 => stack' = <<>>
  BY FrontFacts
<1>2. Depth' = Depth - 1
  BY <1>1 DEF Depth
<1>3. \A i \in 2..(Depth - 1) : i \in 1..(Depth - 1) /\ stack'[i] = stack[i]
  BY <1>1
<1>4. OnStack' = {stack[i].meta : i \in 2..(Depth - 1)}
  BY <1>2, <1>3 DEF OnStack
<1>5. Depth > 1 => 2..Depth = 2..(Depth - 1) \cup {Depth}
  BY <1>1
<1>6. Depth > 1 => OnStack = OnStack' \cup {stack[Depth].meta}
  BY <1>4, <1>5 DEF OnStack
<1>7. Depth > 1 => stack[Depth].meta \notin OnStack'
  <2>1. Depth > 1 => \A i \in 2..(Depth - 1) : i \in 2..Depth /\ i # Depth /\ Depth \in 2..Depth
    BY <1>1
  <2>2. QED
    BY <1>4, <2>1 DEF StackInv, ExpandedOnce
<1>8. Depth = 1 => OnStack = {} /\ OnStack' = {} /\ stack[Depth].meta = NoMeta
  <2>1. Depth = 1 => 2..Depth = {} /\ 2..(Depth - 1) = {}
    OBVIOUS
  <2>2. QED
    BY <1>4, <2>1 DEF OnStack, StackInv
<1>9. StackInv'
  <2>1. op' = "idle" => stack' = <<>>
    BY <1>1
  <2>2. op' \in {"loading", "throwing"} => Depth' > 0
    BY <1>1, <1>2
  <2>3. op' # "destroyed"
    OBVIOUS
  <2>4. Depth' > 0 => stack'[1].meta = NoMeta
    BY <1>1, <1>2 DEF StackInv
  <2>5. OnStack' \subseteq metas'
    <3>1. CASE Depth = 1
      BY <1>8, <3>1
    <3>2. CASE Depth > 1
      BY <1>6, <1>7, <3>2 DEF StackInv
    <3>3. QED
      BY <1>1, <3>1, <3>2
  <2>6. ExpandedOnce'
    <3>1. \A i \in 2..(Depth - 1) : i \in 2..Depth
      BY <1>1
    <3>2. QED
      BY <1>2, <1>3, <3>1 DEF StackInv, ExpandedOnce
  <2>7. QED
    BY <2>1, <2>2, <2>3, <2>4, <2>5, <2>6 DEF StackInv
<1>10. QED
  BY <1>1, <1>2, <1>6, <1>7, <1>8, <1>9

-----------------------------------------------------------------------------
(* Types and the stack, step by step                                       *)

LEMMA EraseFacts ==
  ASSUME TypeOK, NEW n, Erase(n)
  PROVE  /\ plugins' \in Seq(Plugins)
         /\ IsInjective(plugins) => Loaded' = Loaded \ {n} /\ IsInjective(plugins')
<1>1. PICK k \in DOMAIN plugins : plugins[k] = n /\ plugins' = RemoveAt(plugins, k)
  BY DEF Erase
<1>2. plugins \in Seq(Plugins)
  BY DEF TypeOK
<1>3. RemoveAt(plugins, k) \in Seq(Plugins)
  <2>1. k \in 1..Len(plugins) /\ Len(plugins) \in Nat
    BY <1>2
  <2>2. SubSeq(plugins, 1, k - 1) \in Seq(Plugins)
    BY <1>2, <2>1, FrontOf
  <2>3. SubSeq(plugins, k + 1, Len(plugins)) \in Seq(Plugins)
    BY <1>2, <2>1
  <2>4. QED
    BY <2>2, <2>3 DEF RemoveAt
<1>4. IsInjective(plugins) => /\ Range(RemoveAt(plugins, k)) = Range(plugins) \ {plugins[k]}
                              /\ IsInjective(RemoveAt(plugins, k))
  BY <1>2, EraseOnly
<1>5. QED
  BY <1>1, <1>3, <1>4 DEF Loaded

LEMMA BooksTypes ==
  ASSUME TypeOK, [Next]_vars
  PROVE  /\ plugins' \in Seq(Plugins) /\ open' \subseteq Plugins
         /\ threads' \in [Plugins -> ThreadStates]
<1>0. /\ plugins \in Seq(Plugins) /\ open \subseteq Plugins /\ Loaded \subseteq Plugins
      /\ threads \in [Plugins -> ThreadStates]
      /\ {"none", "fresh", "running", "stopped", "broken"} \subseteq ThreadStates
  BY DEF TypeOK, Loaded, Range, ThreadStates
<1>1. CASE LoadPlugin
  <2>1. Name \in Plugins
    BY <1>1 DEF LoadPlugin, CanAdd
  <2>2. QED
    BY <1>0, <1>1, <2>1 DEF LoadPlugin
<1>2. CASE FailInit \/ FailStart \/ HangLoading
  <2>1. Name \in Plugins
    BY <1>2 DEF FailInit, FailStart, HangLoading, CanAdd
  <2>2. plugins' = plugins
    BY <1>2 DEF FailInit, FailStart, HangLoading
  <2>3. open' \subseteq Plugins
    BY <1>0, <1>2, <2>1 DEF FailInit, FailStart, HangLoading
  <2>4. threads' = threads \/ \E t \in ThreadStates : threads' = [threads EXCEPT ![Name] = t]
    BY <1>0, <1>2 DEF FailInit, FailStart, HangLoading
  <2>5. QED
    BY <1>0, <2>1, <2>2, <2>3, <2>4
<1>3. ASSUME NEW n \in Names, Unload(n)
      PROVE  /\ plugins' \in Seq(Plugins) /\ open' \subseteq Plugins
             /\ threads' \in [Plugins -> ThreadStates]
  <2>1. plugins' \in Seq(Plugins)
    BY <1>3, EraseFacts DEF Unload
  <2>2. QED
    BY <1>0, <1>3, <2>1 DEF Unload
<1>4. ASSUME NEW n \in Names, RefuseUnload(n)
      PROVE  /\ plugins' \in Seq(Plugins) /\ open' \subseteq Plugins
             /\ threads' \in [Plugins -> ThreadStates]
  BY <1>0, <1>4 DEF RefuseUnload
<1>5. CASE Destroy
  <2>1. plugins' = <<>> /\ <<>> \in Seq(Plugins)
    BY <1>5 DEF Destroy
  <2>2. QED
    BY <1>0, <1>5, <2>1 DEF Destroy
<1>6. CASE /\ [Next]_vars
           /\ ~(LoadPlugin \/ FailInit \/ FailStart \/ HangLoading \/ Destroy)
           /\ \A n \in Names : ~Unload(n) /\ ~RefuseUnload(n)
  <2>1. UNCHANGED books
    BY <1>6 DEF Next, vars, Load, EnterMeta, LeaveMeta, Return, Unwind, SkipLoaded, RefuseOpen,
       HangUnloading, UnloadMeta
  <2>2. QED
    BY <1>0, <2>1 DEF books
<1>7. QED
  BY <1>1, <1>2, <1>3, <1>4, <1>5, <1>6

(* Idle, hung and destroyed: the calls in progress are as they were.       *)
LEMMA StackFrame ==
  ASSUME TypeOK, StackInv, stack' = stack, OnStack \subseteq metas',
         op' \in {op, "hung"} \/ (op = "idle" /\ op' = "destroyed")
  PROVE  StackInv' /\ stack' \in Seq(Frames)
<1>1. Depth' = Depth /\ OnStack' = OnStack
  BY DEF Depth, OnStack
<1>2. QED
  BY <1>1 DEF StackInv, ExpandedOnce, TypeOK

LEMMA EmptyStack ==
  ASSUME StackInv, op = "idle" PROVE stack = <<>> /\ Depth = 0 /\ OnStack = {}
<1>1. stack = <<>>
  BY DEF StackInv
<1>2. Depth = 0
  BY <1>1 DEF Depth
<1>3. 2..Depth = {}
  BY <1>2
<1>4. QED
  BY <1>1, <1>2, <1>3 DEF OnStack

LEMMA StackStep ==
  ASSUME TypeOK, StackInv, [Next]_vars
  PROVE  StackInv' /\ stack' \in Seq(Frames)
<1>0. OnStack \subseteq metas
  BY DEF StackInv
<1>1. ASSUME NEW list \in Requests, Load(list) PROVE StackInv' /\ stack' \in Seq(Frames)
  <2> DEFINE f == [meta |-> NoMeta, rest |-> list]
  <2>1. f \in Frames /\ f.meta = NoMeta /\ stack' = <<f>> /\ op' = "loading"
    BY <1>1 DEF Load, Frames
  <2> HIDE DEF f
  <2>2. stack' \in Seq(Frames) /\ Len(stack') = 1 /\ stack'[1] = f
    BY <2>1
  <2>3. Depth' = 1
    BY <2>2 DEF Depth
  <2>4. OnStack' = {} /\ ExpandedOnce'
    <3>1. 2..1 = {}
      OBVIOUS
    <3>2. QED
      BY <2>3, <3>1 DEF OnStack, ExpandedOnce
  <2>5. QED
    BY <2>1, <2>2, <2>3, <2>4 DEF StackInv
<1>2. CASE EnterMeta
  <2>1. CASE Config[Name] # <<>>
    BY <1>2, <2>1, PushStack
  <2>2. CASE Config[Name] = <<>>
    <3>1. Loading /\ stack' = stack /\ op' = "throwing" /\ metas' = metas
      BY <1>2, <2>2 DEF EnterMeta
    <3>2. QED
      BY <3>1, AdvanceStack
  <2>3. QED
    BY <2>1, <2>2
<1>3. CASE LeaveMeta
  <2>1. /\ Depth > 0 /\ stack' = Front(stack) /\ metas' = metas /\ op \in {"loading", "throwing"}
        /\ op' = IF Depth = 1 THEN "idle" ELSE op
    <3>1. Depth \in Nat
      BY DEF TypeOK, Depth
    <3>2. QED
      BY <1>3, <3>1 DEF LeaveMeta
  <2>2. QED
    BY <2>1, PopStack
<1>4. CASE Return
  <2>1. stack' = <<>> /\ op' = "idle" /\ metas' = metas
    BY <1>4 DEF Return
  <2>2. stack' \in Seq(Frames) /\ Depth' = 0
    BY <2>1 DEF Depth
  <2>3. 2..0 = {}
    OBVIOUS
  <2>4. OnStack' = {} /\ ExpandedOnce'
    BY <2>2, <2>3 DEF OnStack, ExpandedOnce
  <2>5. QED
    BY <2>1, <2>2, <2>4 DEF StackInv
<1>5. CASE Unwind
  <2>1. /\ Depth > 0 /\ stack' = Front(stack) /\ op \in {"loading", "throwing"}
        /\ metas' = metas \ {stack[Depth].meta}
        /\ op' = IF Depth = 1 THEN "idle" ELSE op
    BY <1>5 DEF Unwind, StackInv
  <2>2. QED
    BY <2>1, PopStack
<1>6. CASE SkipLoaded \/ RefuseOpen \/ LoadPlugin \/ FailInit \/ FailStart
  BY <1>6, Advances, AdvanceStack
<1>7. CASE HangLoading
  <2>1. stack' = stack /\ metas' = metas /\ op' = "hung"
    BY <1>7 DEF HangLoading
  <2>2. QED
    BY <1>0, <2>1, StackFrame
<1>8. CASE HangUnloading
  <2>1. stack' = stack /\ metas' = metas /\ op' = "hung"
    BY <1>8 DEF HangUnloading
  <2>2. QED
    BY <1>0, <2>1, StackFrame
<1>9. ASSUME NEW n \in Names, Unload(n) PROVE StackInv' /\ stack' \in Seq(Frames)
  <2>1. stack' = stack /\ op = "idle" /\ op' = op
    BY <1>9 DEF Unload
  <2>2. OnStack = {}
    BY <2>1, EmptyStack
  <2>3. OnStack \subseteq metas'
    BY <2>2
  <2>4. QED
    BY <2>1, <2>3, StackFrame
<1>10. ASSUME NEW n \in Names, RefuseUnload(n) PROVE StackInv' /\ stack' \in Seq(Frames)
  <2>1. stack' = stack /\ metas' = metas /\ op' = op
    BY <1>10 DEF RefuseUnload
  <2>2. QED
    BY <1>0, <2>1, StackFrame
<1>11. ASSUME NEW m \in Metas, UnloadMeta(m) PROVE StackInv' /\ stack' \in Seq(Frames)
  <2>1. stack' = stack /\ op = "idle" /\ op' = "hung"
    BY <1>11 DEF UnloadMeta
  <2>2. OnStack = {}
    BY <2>1, EmptyStack
  <2>3. OnStack \subseteq metas'
    BY <2>2
  <2>4. QED
    BY <2>1, <2>3, StackFrame
<1>12. CASE Destroy
  BY <1>0, <1>12, StackFrame DEF Destroy
<1>13. CASE UNCHANGED vars
  <2>1. stack' = stack /\ metas' = metas /\ op' = op
    BY <1>13 DEF vars
  <2>2. QED
    BY <1>0, <2>1, StackFrame
<1>14. QED
  BY <1>1, <1>2, <1>3, <1>4, <1>5, <1>6, <1>7, <1>8, <1>9, <1>10, <1>11, <1>12, <1>13 DEF Next

LEMMA TypesStep ==
  ASSUME TypeOK, StackInv, [Next]_vars
  PROVE  TypeOK'
<1>1. /\ plugins' \in Seq(Plugins) /\ open' \subseteq Plugins
      /\ threads' \in [Plugins -> ThreadStates] /\ stack' \in Seq(Frames)
  BY BooksTypes, StackStep
<1>2. metas' \subseteq Metas
  <2>1. metas' \subseteq metas \cup Metas
    BY DEF Next, vars, Load, EnterMeta, LeaveMeta, Return, Unwind, SkipLoaded, RefuseOpen,
       HangLoading, LoadPlugin, FailInit, FailStart, HangUnloading, Unload, RefuseUnload,
       UnloadMeta, Destroy, IsMeta
  <2>2. QED
    BY <2>1 DEF TypeOK
<1>3. locked' \in BOOLEAN
  <2>1. locked' = locked \/ locked' = TRUE
    BY DEF Next, vars, Load, EnterMeta, LeaveMeta, Return, Unwind, SkipLoaded, RefuseOpen,
       HangLoading, LoadPlugin, FailInit, FailStart, HangUnloading, Unload, RefuseUnload,
       UnloadMeta, Destroy
  <2>2. QED
    BY <2>1 DEF TypeOK
<1>4. op' \in {"idle", "loading", "throwing", "hung", "destroyed"}
  <2>1. op' \in {op, "idle", "loading", "throwing", "hung", "destroyed"}
    BY DEF Next, vars, Load, EnterMeta, LeaveMeta, Return, Unwind, SkipLoaded, RefuseOpen,
       HangLoading, LoadPlugin, FailInit, FailStart, HangUnloading, Unload, RefuseUnload,
       UnloadMeta, Destroy, Throw
  <2>2. QED
    BY <2>1 DEF TypeOK
<1>5. announced' \subseteq Names
  <2>0. announced \subseteq Names
    BY DEF TypeOK
  <2>1. CASE LeaveMeta
    <3>1. Depth > 1 /\ announced' = announced \cup {stack[Depth].meta} /\ Depth \in Nat
      BY <2>1 DEF LeaveMeta, TypeOK, Depth
    <3>2. stack[Depth].meta \in OnStack
      BY <3>1 DEF OnStack
    <3>3. OnStack \subseteq Names
      BY DEF StackInv, TypeOK, Names
    <3>4. QED
      BY <2>0, <3>1, <3>2, <3>3
  <2>2. CASE LoadPlugin
    BY <2>0, <2>2 DEF LoadPlugin, CanAdd, Names
  <2>3. CASE [Next]_vars /\ ~LeaveMeta /\ ~LoadPlugin
    <3>1. announced' \subseteq announced
      BY <2>3 DEF Next, vars, Load, EnterMeta, Return, Unwind, SkipLoaded, RefuseOpen,
         HangLoading, FailInit, FailStart, HangUnloading, Unload, RefuseUnload, UnloadMeta, Destroy
    <3>2. QED
      BY <2>0, <3>1
  <2>4. QED
    BY <2>1, <2>2, <2>3
<1>6. QED
  BY <1>1, <1>2, <1>3, <1>4, <1>5 DEF TypeOK

-----------------------------------------------------------------------------
(* The books                                                               *)

LEMMA BooksStep ==
  ASSUME TypeOK, BooksInv, [Next]_vars
  PROVE  BooksInv'
<1>0. /\ threads \in [Plugins -> ThreadStates] /\ plugins \in Seq(Plugins)
      /\ Loaded \subseteq Plugins
  BY DEF TypeOK, Loaded, Range
<1>1. CASE LoadPlugin
  <2>1. ~locked /\ locked' = locked /\ Name \in Plugins /\ Name \notin Loaded
    BY <1>1 DEF LoadPlugin, CanAdd
  <2>2. Loaded' = Loaded \cup {Name} /\ (IsInjective(plugins) => IsInjective(plugins'))
    BY <1>0, <1>1, <2>1, AppendNew DEF LoadPlugin, Loaded
  <2>3. open' = open \cup {Name} /\ threads' = [threads EXCEPT ![Name] = "running"]
    BY <1>1 DEF LoadPlugin
  <2>4. QED
    BY <1>0, <2>1, <2>2, <2>3 DEF BooksInv
<1>2. CASE FailInit
  <2>1. /\ locked' = locked /\ Name \notin Loaded /\ plugins' = plugins
        /\ open' = open \ {Name} /\ threads' = [threads EXCEPT ![Name] = "none"]
    BY <1>2 DEF FailInit, CanAdd
  <2>2. QED
    BY <1>0, <2>1 DEF BooksInv, Loaded
<1>3. CASE FailStart \/ HangLoading
  BY <1>3 DEF FailStart, HangLoading, BooksInv
<1>4. ASSUME NEW n \in Names, Unload(n) PROVE BooksInv'
  <2>1. /\ ~locked /\ locked' = locked /\ n \in Loaded /\ open' = open \ {n}
        /\ threads' = [threads EXCEPT ![n] = "none"] /\ Erase(n)
    BY <1>4 DEF Unload
  <2>2. Loaded' = Loaded \ {n} /\ IsInjective(plugins')
    BY <2>1, EraseFacts DEF BooksInv
  <2>3. QED
    BY <1>0, <2>1, <2>2 DEF BooksInv
<1>5. ASSUME NEW n \in Names, RefuseUnload(n) PROVE BooksInv'
  <2>1. /\ ~locked /\ locked' = locked /\ n \in Loaded /\ UNCHANGED <<plugins, open>>
        /\ threads' = threads \/ threads' = [threads EXCEPT ![n] = "stopped"]
    BY <1>5 DEF RefuseUnload
  <2>2. QED
    BY <1>0, <2>1 DEF BooksInv, Loaded
<1>6. CASE Destroy
  <2>1. /\ locked' = locked /\ plugins' = <<>> /\ open' = open \ Loaded
        /\ threads' = [p \in Plugins |-> IF p \in Loaded THEN "none" ELSE threads[p]]
    BY <1>6 DEF Destroy
  <2>2. Loaded' = {} /\ IsInjective(plugins')
    <3>1. DOMAIN plugins' = {}
      BY <2>1
    <3>2. QED
      BY <3>1 DEF Loaded, Range, IsInjective
  <2>3. QED
    BY <1>0, <2>1, <2>2 DEF BooksInv
<1>7. CASE /\ [Next]_vars
           /\ ~(LoadPlugin \/ FailInit \/ FailStart \/ HangLoading \/ Destroy)
           /\ \A n \in Names : ~Unload(n) /\ ~RefuseUnload(n)
  <2>1. UNCHANGED books /\ locked' = locked
    BY <1>7 DEF Next, vars, Load, EnterMeta, LeaveMeta, Return, Unwind, SkipLoaded, RefuseOpen,
       HangUnloading, UnloadMeta
  <2>2. QED
    BY <2>1 DEF books, BooksInv, Loaded
<1>8. QED
  BY <1>1, <1>2, <1>3, <1>4, <1>5, <1>6, <1>7

(* What is open stays what is on the list or was left behind.              *)
LEMMA OpenStep ==
  ASSUME TypeOK, BooksInv, OpenInv, [Next]_vars
  PROVE  OpenInv'
<1>0. /\ threads \in [Plugins -> ThreadStates] /\ plugins \in Seq(Plugins)
      /\ Loaded \subseteq Plugins
  BY DEF TypeOK, Loaded, Range
<1>1. ~locked => open = Loaded /\ HalfLoaded = {}
  <2> SUFFICES ASSUME ~locked PROVE open = Loaded /\ HalfLoaded = {}
    OBVIOUS
  <2>1. open = Loaded /\ \A p \in Plugins : threads[p] \in {"none", "running", "stopped"}
    BY DEF BooksInv
  <2>2. QED
    BY <2>1 DEF HalfLoaded
<1>2. CASE LoadPlugin
  <2>1. ~locked /\ Name \in Plugins /\ Name \notin Loaded
    BY <1>2 DEF LoadPlugin, CanAdd
  <2>2. Loaded' = Loaded \cup {Name}
    BY <1>0, <1>2, <2>1, AppendNew DEF LoadPlugin, Loaded
  <2>3. open' = open \cup {Name} /\ threads' = [threads EXCEPT ![Name] = "running"]
    BY <1>2 DEF LoadPlugin
  <2>4. HalfLoaded' = {}
    BY <1>0, <1>1, <2>1, <2>3 DEF HalfLoaded
  <2>5. QED
    BY <1>1, <2>1, <2>2, <2>3, <2>4 DEF OpenInv
<1>3. CASE FailInit
  <2>1. ~locked /\ Name \in Plugins /\ Name \notin Loaded /\ Loaded' = Loaded
    BY <1>3 DEF FailInit, CanAdd, Loaded
  <2>2. open' = open \ {Name} /\ threads' = [threads EXCEPT ![Name] = "none"]
    BY <1>3 DEF FailInit
  <2>3. HalfLoaded' = {}
    BY <1>0, <1>1, <2>1, <2>2 DEF HalfLoaded
  <2>4. QED
    BY <1>1, <2>1, <2>2, <2>3 DEF OpenInv
<1>4. CASE FailStart
  <2>1. ~locked /\ Name \in Plugins /\ Loaded' = Loaded
    BY <1>4 DEF FailStart, CanAdd, Loaded
  <2>2. open' = open \cup {Name} /\ threads' = [threads EXCEPT ![Name] = "broken"]
    BY <1>4 DEF FailStart
  <2>3. HalfLoaded' = {Name}
    BY <1>0, <1>1, <2>1, <2>2 DEF HalfLoaded
  <2>4. QED
    BY <1>1, <2>1, <2>2, <2>3 DEF OpenInv
<1>5. CASE HangLoading
  BY <1>5 DEF HangLoading, OpenInv
<1>6. ASSUME NEW n \in Names, Unload(n) PROVE OpenInv'
  <2>1. ~locked /\ n \in Loaded /\ Erase(n) /\ IsInjective(plugins)
    BY <1>6 DEF Unload, BooksInv
  <2>2. Loaded' = Loaded \ {n}
    BY <2>1, EraseFacts
  <2>3. open' = open \ {n} /\ threads' = [threads EXCEPT ![n] = "none"]
    BY <1>6 DEF Unload
  <2>4. HalfLoaded' = {}
    BY <1>0, <1>1, <2>1, <2>3 DEF HalfLoaded
  <2>5. QED
    BY <1>1, <2>1, <2>2, <2>3, <2>4 DEF OpenInv
<1>7. ASSUME NEW n \in Names, RefuseUnload(n) PROVE OpenInv'
  <2>1. ~locked /\ n \in Loaded /\ open' = open /\ Loaded' = Loaded
    BY <1>7 DEF RefuseUnload, Loaded
  <2>2. threads' = threads \/ threads' = [threads EXCEPT ![n] = "stopped"]
    BY <1>7 DEF RefuseUnload
  <2>3. HalfLoaded' = {}
    BY <1>0, <1>1, <2>1, <2>2 DEF HalfLoaded
  <2>4. QED
    BY <1>1, <2>1, <2>3 DEF OpenInv
<1>8. CASE Destroy
  <2>1. /\ op = "idle" /\ plugins' = <<>> /\ open' = open \ Loaded
        /\ threads' = [p \in Plugins |-> IF p \in Loaded THEN "none" ELSE threads[p]]
    BY <1>8 DEF Destroy
  <2>2. Loaded' = {}
    BY <2>1 DEF Loaded, Range
  <2>3. HalfLoaded' = HalfLoaded \ Loaded
    BY <2>1 DEF HalfLoaded
  <2>4. QED
    BY <2>1, <2>2, <2>3 DEF OpenInv
<1>9. CASE UNCHANGED books /\ (op = "hung" => op' = "hung")
  BY <1>9 DEF books, OpenInv, Loaded, HalfLoaded
<1>10. CASE /\ [Next]_vars
            /\ ~(LoadPlugin \/ FailInit \/ FailStart \/ HangLoading \/ Destroy)
            /\ \A n \in Names : ~Unload(n) /\ ~RefuseUnload(n)
  <2>1. UNCHANGED books
    BY <1>10 DEF Next, vars, Load, EnterMeta, LeaveMeta, Return, Unwind, SkipLoaded, RefuseOpen,
       HangUnloading, UnloadMeta
  <2>2. op = "hung" => op' = "hung"
    BY <1>10 DEF Next, vars, Load, EnterMeta, LeaveMeta, Return, Unwind, SkipLoaded, RefuseOpen,
       HangUnloading, UnloadMeta, Loading
  <2>3. QED
    BY <1>9, <2>1, <2>2
<1>11. QED
  BY <1>2, <1>3, <1>4, <1>5, <1>6, <1>7, <1>8, <1>10

-----------------------------------------------------------------------------
(* The listeners                                                           *)

(* A name that is done is loaded, or is not that of a module.              *)
LEMMA ListenersAdvance ==
  ASSUME TypeOK, StackInv, ListenersInv, Loading, metas' = metas,
         \/ stack' = Advanced /\ op' = "loading"
         \/ stack' = stack /\ op' = "throwing",
         Loaded \subseteq Loaded',
         announced' = announced \cup (Loaded' \ Loaded),
         stack' = Advanced => Name \in Loaded' \/ Name \notin Plugins
  PROVE  ListenersInv'
<1>1. StackInv' /\ OnStack' = OnStack /\ Depth' = Depth
  BY AdvanceStack
<1>2. op = "loading" /\ Depth \in Nat /\ Depth > 0
  BY AdvancedFacts DEF Loading
<1>3. /\ announced = Loaded \cup (metas \ OnStack)
      /\ \A m \in metas \ OnStack : Range(Config[m]) \cap Plugins \subseteq Loaded
      /\ \A i \in 2..Depth :
           Range(Config[stack[i].meta]) \cap Plugins \subseteq Loaded \cup Range(stack[i].rest)
  BY <1>2 DEF ListenersInv
<1>4. announced' = Loaded' \cup (metas' \ OnStack')
  BY <1>1, <1>3
<1>5. \A m \in metas' \ OnStack' : Range(Config[m]) \cap Plugins \subseteq Loaded'
  BY <1>1, <1>3
<1>6. ASSUME NEW i \in 2..Depth'
      PROVE  Range(Config[stack'[i].meta]) \cap Plugins \subseteq Loaded' \cup Range(stack'[i].rest)
  <2>1. i \in 2..Depth /\ i \in 1..Depth
    BY <1>1, <1>2
  <2>2. CASE stack' = stack
    BY <1>3, <2>1, <2>2
  <2>3. CASE stack' = Advanced
    <3>1. stack'[i].meta = stack[i].meta
      BY <2>1, <2>3, AdvancedFacts
    <3>2. CASE i # Depth
      <4>1. stack'[i] = stack[i]
        BY <2>1, <2>3, <3>2, AdvancedFacts
      <4>2. QED
        BY <1>3, <2>1, <4>1
    <3>3. CASE i = Depth
      <4>1. Range(stack[i].rest) = {Name} \cup Range(stack'[i].rest)
        BY <2>3, <3>3, AdvancedFacts DEF Todo
      <4>2. QED
        BY <1>3, <2>1, <2>3, <3>1, <4>1
    <3>4. QED
      BY <3>2, <3>3
  <2>4. QED
    BY <2>2, <2>3
<1>7. QED
  BY <1>4, <1>5, <1>6 DEF ListenersInv

LEMMA ListenersEnter ==
  ASSUME DisjointNames, TypeOK, StackInv, ListenersInv, EnterMeta, Config[Name] # <<>>
  PROVE  ListenersInv'
<1>1. /\ Depth \in Nat /\ Depth' = Depth + 1 /\ OnStack' = OnStack \cup {Name}
      /\ metas' = metas \cup {Name}
      /\ \A i \in 1..Depth : stack'[i] = Advanced[i]
      /\ stack'[Depth + 1] = [meta |-> Name, rest |-> Config[Name]]
  BY PushStack
<1>2. /\ Loading /\ op = "loading" /\ Name \in Metas \ metas /\ UNCHANGED <<plugins, announced>>
  BY DEF EnterMeta, IsMeta, Loading, books
<1>3. /\ announced = Loaded \cup (metas \ OnStack)
      /\ \A m \in metas \ OnStack : Range(Config[m]) \cap Plugins \subseteq Loaded
      /\ \A i \in 2..Depth :
           Range(Config[stack[i].meta]) \cap Plugins \subseteq Loaded \cup Range(stack[i].rest)
  BY <1>2 DEF ListenersInv
<1>4. Loaded' = Loaded /\ metas' \ OnStack' = metas \ OnStack
  BY <1>1, <1>2 DEF Loaded
<1>5. ASSUME NEW i \in 2..Depth'
      PROVE  Range(Config[stack'[i].meta]) \cap Plugins \subseteq Loaded' \cup Range(stack'[i].rest)
  <2>1. CASE i = Depth + 1
    <3>1. stack'[i].meta = Name /\ stack'[i].rest = Config[Name]
      BY <1>1, <2>1
    <3>2. QED
      BY <3>1
  <2>2. CASE i # Depth + 1
    <3>1. i \in 2..Depth /\ i \in 1..Depth
      BY <1>1, <2>2
    <3>2. stack'[i] = Advanced[i] /\ Advanced[i].meta = stack[i].meta
      BY <1>1, <1>2, <3>1, AdvancedFacts
    <3>3. i # Depth => Advanced[i] = stack[i]
      BY <1>2, <3>1, AdvancedFacts
    <3>4. i = Depth => Range(stack[i].rest) = {Name} \cup Range(Advanced[i].rest)
      BY <1>2, AdvancedFacts DEF Todo
    <3>5. Name \notin Plugins
      BY <1>2 DEF DisjointNames
    <3>6. Range(stack[i].rest) \cap Plugins \subseteq Range(stack'[i].rest)
      BY <3>2, <3>3, <3>4, <3>5
    <3>7. Range(Config[stack[i].meta]) \cap Plugins \subseteq Loaded \cup Range(stack[i].rest)
      BY <1>3, <3>1
    <3>8. stack'[i].meta = stack[i].meta
      BY <3>2
    <3>9. QED
      BY <1>4, <3>6, <3>7, <3>8
  <2>3. QED
    BY <2>1, <2>2
<1>6. announced' = Loaded' \cup (metas' \ OnStack')
  BY <1>2, <1>3, <1>4
<1>7. \A m \in metas' \ OnStack' : Range(Config[m]) \cap Plugins \subseteq Loaded'
  BY <1>3, <1>4
<1>8. QED
  BY <1>5, <1>6, <1>7 DEF ListenersInv

LEMMA ListenersLeave ==
  ASSUME TypeOK, StackInv, ListenersInv, LeaveMeta
  PROVE  ListenersInv'
<1>1. /\ op = "loading" /\ op' = op /\ Depth > 1 /\ Todo = <<>> /\ stack' = Front(stack)
      /\ announced' = announced \cup {stack[Depth].meta} /\ metas' = metas /\ plugins' = plugins
  BY DEF LeaveMeta, books
<1>2. Depth \in Nat /\ Depth > 0 /\ Depth # 1
  BY <1>1 DEF TypeOK, Depth
<1>3. op' = IF Depth = 1 THEN "idle" ELSE op
  BY <1>1, <1>2
<1>4. /\ Depth' = Depth - 1 /\ \A i \in 1..(Depth - 1) : stack'[i] = stack[i]
      /\ OnStack = OnStack' \cup {stack[Depth].meta} /\ stack[Depth].meta \notin OnStack'
  BY <1>1, <1>2, <1>3, PopStack
<1> DEFINE m == stack[Depth].meta
<1>5. m \in metas /\ Depth \in 2..Depth
  BY <1>1, <1>2, <1>4 DEF StackInv
<1>6. /\ announced = Loaded \cup (metas \ OnStack)
      /\ \A x \in metas \ OnStack : Range(Config[x]) \cap Plugins \subseteq Loaded
      /\ \A i \in 2..Depth :
           Range(Config[stack[i].meta]) \cap Plugins \subseteq Loaded \cup Range(stack[i].rest)
  BY <1>1 DEF ListenersInv
<1>7. Range(Config[m]) \cap Plugins \subseteq Loaded
  <2>1. stack[Depth].rest = <<>>
    BY <1>1 DEF Todo
  <2>2. Range(stack[Depth].rest) = {}
    BY <2>1 DEF Range
  <2>3. QED
    BY <1>5, <1>6, <2>2
<1> HIDE DEF m
<1>8. Loaded' = Loaded
  BY <1>1 DEF Loaded
<1>9. metas' \ OnStack' = (metas \ OnStack) \cup {m}
  BY <1>1, <1>4, <1>5 DEF m
<1>10. announced' = Loaded' \cup (metas' \ OnStack')
  BY <1>1, <1>6, <1>8, <1>9 DEF m
<1>11. \A x \in metas' \ OnStack' : Range(Config[x]) \cap Plugins \subseteq Loaded'
  BY <1>6, <1>7, <1>8, <1>9
<1>12. ASSUME NEW i \in 2..Depth'
       PROVE  Range(Config[stack'[i].meta]) \cap Plugins \subseteq Loaded' \cup Range(stack'[i].rest)
  <2>1. i \in 2..Depth /\ stack'[i] = stack[i]
    BY <1>2, <1>4
  <2>2. QED
    BY <1>6, <1>8, <2>1
<1>13. QED
  BY <1>10, <1>11, <1>12 DEF ListenersInv

LEMMA ListenersUnwind ==
  ASSUME TypeOK, StackInv, ListenersInv, Unwind
  PROVE  ListenersInv'
<1>1. /\ op = "throwing" /\ op' = (IF Depth = 1 THEN "idle" ELSE op) /\ stack' = Front(stack)
      /\ announced' = announced /\ metas' = metas \ {stack[Depth].meta} /\ plugins' = plugins
  BY DEF Unwind, books
<1>2. Depth \in Nat /\ Depth > 0
  BY <1>1 DEF TypeOK, StackInv, Depth
<1>3. /\ Depth' = Depth - 1 /\ \A i \in 1..(Depth - 1) : stack'[i] = stack[i]
      /\ Depth > 1 => /\ OnStack = OnStack' \cup {stack[Depth].meta}
                      /\ stack[Depth].meta \notin OnStack'
      /\ Depth = 1 => OnStack = {} /\ OnStack' = {} /\ stack[Depth].meta = NoMeta
  BY <1>1, <1>2, PopStack
<1>4. metas' \ OnStack' = metas \ OnStack
  <2>1. CASE Depth = 1
    <3>1. NoMeta \notin metas
      BY DEF TypeOK, Names
    <3>2. QED
      BY <1>1, <1>3, <2>1, <3>1
  <2>2. CASE Depth > 1
    BY <1>1, <1>3, <2>2
  <2>3. QED
    BY <1>2, <2>1, <2>2
<1>5. /\ announced = Loaded \cup (metas \ OnStack)
      /\ \A x \in metas \ OnStack : Range(Config[x]) \cap Plugins \subseteq Loaded
      /\ \A i \in 2..Depth :
           Range(Config[stack[i].meta]) \cap Plugins \subseteq Loaded \cup Range(stack[i].rest)
  BY <1>1 DEF ListenersInv
<1>6. Loaded' = Loaded
  BY <1>1 DEF Loaded
<1>7. ASSUME NEW i \in 2..Depth'
      PROVE  Range(Config[stack'[i].meta]) \cap Plugins \subseteq Loaded' \cup Range(stack'[i].rest)
  <2>1. i \in 2..Depth /\ stack'[i] = stack[i]
    BY <1>2, <1>3
  <2>2. QED
    BY <1>5, <1>6, <2>1
<1>8. announced' = Loaded' \cup (metas' \ OnStack')
  BY <1>1, <1>4, <1>5, <1>6
<1>9. \A x \in metas' \ OnStack' : Range(Config[x]) \cap Plugins \subseteq Loaded'
  BY <1>4, <1>5, <1>6
<1>10. QED
  BY <1>7, <1>8, <1>9 DEF ListenersInv

LEMMA ListenersUnload ==
  ASSUME DisjointNames, TypeOK, StackInv, BooksInv, ListenersInv, NEW n \in Names, Unload(n)
  PROVE  ListenersInv'
<1>1. /\ op = "idle" /\ op' = op /\ stack' = stack /\ ~locked /\ n \in Loaded /\ Erase(n)
      /\ metas' = metas \ Requiring(n) /\ announced' = announced \ ({n} \cup Requiring(n))
  BY DEF Unload
<1>2. Depth = 0 /\ OnStack = {}
  BY <1>1, EmptyStack
<1>3. Depth' = 0 /\ OnStack' = {} /\ 2..0 = {}
  BY <1>1, <1>2 DEF Depth, OnStack
<1>4. Loaded' = Loaded \ {n}
  BY <1>1, EraseFacts DEF BooksInv
<1>5. /\ announced = Loaded \cup metas
      /\ \A m \in metas : Range(Config[m]) \cap Plugins \subseteq Loaded
  BY <1>1, <1>2 DEF ListenersInv
<1>6. Loaded \subseteq Plugins /\ metas \subseteq Metas /\ Requiring(n) \subseteq metas
  BY DEF TypeOK, Loaded, Range, Requiring
<1>7. announced' = Loaded' \cup metas'
  BY <1>1, <1>4, <1>5, <1>6 DEF DisjointNames
<1>8. \A m \in metas' : Range(Config[m]) \cap Plugins \subseteq Loaded'
  BY <1>1, <1>4, <1>5 DEF Requiring
<1>9. QED
  BY <1>3, <1>7, <1>8 DEF ListenersInv

LEMMA ListenersStep ==
  ASSUME DisjointNames, TypeOK, StackInv, BooksInv, ListenersInv, [Next]_vars
  PROVE  ListenersInv'
<1>0. Loaded \subseteq Plugins /\ plugins \in Seq(Plugins) /\ metas \subseteq Metas
  BY DEF TypeOK, Loaded, Range
<1>1. ASSUME NEW list \in Requests, Load(list) PROVE ListenersInv'
  <2>1. /\ op = "idle" /\ UNCHANGED <<plugins, metas, announced>>
        /\ stack' = <<[meta |-> NoMeta, rest |-> list]>>
    BY <1>1 DEF Load, books
  <2>2. OnStack = {}
    BY <2>1, EmptyStack
  <2>3. Depth' = 1 /\ 2..1 = {}
    BY <2>1 DEF Depth
  <2>4. OnStack' = {} /\ Loaded' = Loaded
    BY <2>1, <2>3 DEF OnStack, Loaded
  <2>5. QED
    BY <2>1, <2>2, <2>3, <2>4 DEF ListenersInv
<1>2. CASE EnterMeta
  <2>1. CASE Config[Name] # <<>>
    BY <1>2, <2>1, ListenersEnter
  <2>2. CASE Config[Name] = <<>>
    <3>1. /\ Loading /\ stack' = stack /\ op' = "throwing"
          /\ UNCHANGED <<metas, plugins, announced>> /\ op = "loading"
      BY <1>2, <2>2 DEF EnterMeta, books, Loading
    <3>2. Depth' = Depth /\ OnStack' = OnStack /\ Loaded' = Loaded
      BY <3>1 DEF Depth, OnStack, Loaded
    <3>3. QED
      BY <3>1, <3>2 DEF ListenersInv
  <2>3. QED
    BY <2>1, <2>2
<1>3. CASE LeaveMeta
  BY <1>3, ListenersLeave
<1>4. CASE Return
  <2>1. /\ op = "loading" /\ Depth = 1 /\ stack' = <<>> /\ UNCHANGED <<metas, plugins, announced>>
    BY <1>4 DEF Return, books
  <2>2. Depth' = 0 /\ 2..1 = {} /\ 2..0 = {}
    BY <2>1 DEF Depth
  <2>3. OnStack = {} /\ OnStack' = {} /\ Loaded' = Loaded
    BY <2>1, <2>2 DEF OnStack, Loaded
  <2>4. QED
    BY <2>1, <2>2, <2>3 DEF ListenersInv
<1>5. CASE Unwind
  BY <1>5, ListenersUnwind
<1>6. CASE SkipLoaded
  <2>1. Loaded' = Loaded /\ Name \in Loaded /\ announced' = announced
    BY <1>6 DEF SkipLoaded, books, Loaded
  <2>2. announced' = announced \cup (Loaded' \ Loaded)
    BY <2>1
  <2>3. QED
    BY <1>6, <2>1, <2>2, Advances, ListenersAdvance
\* the work on a module that fails ends the call: only a meta plugin's name is passed over
<1>7. CASE RefuseOpen \/ FailInit \/ FailStart
  <2>1. Loaded' = Loaded /\ announced' = announced /\ Throw /\ Loading
    BY <1>7 DEF RefuseOpen, FailInit, FailStart, CanAdd, books, Loaded
  <2>2. announced' = announced \cup (Loaded' \ Loaded)
    BY <2>1
  <2>3. /\ metas' = metas
        /\ \/ stack' = Advanced /\ op' = "loading"
           \/ stack' = stack /\ op' = "throwing"
    BY <1>7, Advances
  <2>4. op' = "loading" => Name \notin Plugins
    <3>1. Name \in metas \/ op' = "throwing"
      BY <2>1 DEF Throw
    <3>2. QED
      BY <1>0, <3>1 DEF DisjointNames
  <2>5. CASE op' = "loading"
    BY <2>1, <2>2, <2>3, <2>4, <2>5, ListenersAdvance
  <2>6. CASE stack' = stack /\ op' = "throwing"
    <3>1. Depth' = Depth /\ OnStack' = OnStack /\ op = "loading"
      BY <2>1, <2>6 DEF Depth, OnStack, Loading
    <3>2. QED
      BY <2>1, <2>3, <2>6, <3>1 DEF ListenersInv
  <2>7. QED
    BY <2>3, <2>5, <2>6
<1>8. CASE LoadPlugin
  <2>1. Name \in Plugins /\ Name \notin Loaded
    BY <1>8 DEF LoadPlugin, CanAdd
  <2>2. Loaded' = Loaded \cup {Name}
    BY <1>0, <1>8, <2>1, AppendNew DEF LoadPlugin, Loaded
  <2>3. announced' = announced \cup (Loaded' \ Loaded)
    BY <1>8, <2>1, <2>2 DEF LoadPlugin
  <2>4. Loaded \subseteq Loaded' /\ Name \in Loaded'
    BY <2>2
  <2>5. QED
    BY <1>8, <2>3, <2>4, Advances, ListenersAdvance
<1>9. CASE HangLoading
  BY <1>9 DEF HangLoading, ListenersInv
<1>10. CASE HangUnloading
  BY <1>10 DEF HangUnloading, ListenersInv
<1>11. ASSUME NEW n \in Names, Unload(n) PROVE ListenersInv'
  BY <1>11, ListenersUnload
<1>12. ASSUME NEW n \in Names, RefuseUnload(n) PROVE ListenersInv'
  <2>1. UNCHANGED <<plugins, metas, stack, op, announced>>
    BY <1>12 DEF RefuseUnload
  <2>2. QED
    BY <2>1 DEF ListenersInv, Loaded, OnStack, Depth
<1>13. ASSUME NEW m \in Metas, UnloadMeta(m) PROVE ListenersInv'
  <2>1. op' = "hung"
    BY <1>13 DEF UnloadMeta
  <2>2. QED
    BY <2>1 DEF ListenersInv
<1>14. CASE Destroy
  BY <1>14 DEF Destroy, ListenersInv
<1>15. CASE UNCHANGED vars
  <2>1. UNCHANGED <<plugins, metas, stack, op, announced>>
    BY <1>15 DEF vars, books
  <2>2. QED
    BY <2>1 DEF ListenersInv, Loaded, OnStack, Depth
<1>16. QED
  BY <1>1, <1>2, <1>3, <1>4, <1>5, <1>6, <1>7, <1>8, <1>9, <1>10, <1>11, <1>12, <1>13,
     <1>14, <1>15 DEF Next

-----------------------------------------------------------------------------
(* Theorems                                                                *)

PluginInv == TypeOK /\ StackInv /\ BooksInv /\ OpenInv

LEMMA PluginInit == Init => PluginInv /\ ListenersInv
<1> SUFFICES ASSUME Init PROVE PluginInv /\ ListenersInv
  OBVIOUS
<1>1. /\ plugins = <<>> /\ open = {} /\ threads = [p \in Plugins |-> "none"] /\ metas = {}
      /\ locked = FALSE /\ stack = <<>> /\ op = "idle" /\ announced = {}
  BY DEF Init
<1>2. Depth = 0 /\ 2..0 = {}
  BY <1>1 DEF Depth
<1>3. Loaded = {} /\ IsInjective(plugins)
  <2>1. DOMAIN plugins = {}
    BY <1>1
  <2>2. QED
    BY <2>1 DEF Loaded, Range, IsInjective
<1>4. OnStack = {} /\ ExpandedOnce
  BY <1>2 DEF OnStack, ExpandedOnce
<1>5. TypeOK
  <2>1. plugins \in Seq(Plugins) /\ stack \in Seq(Frames)
    BY <1>1
  <2>2. threads \in [Plugins -> ThreadStates]
    BY <1>1 DEF ThreadStates
  <2>3. locked \in BOOLEAN
    BY <1>1, Zenon
  <2>4. op \in {"idle", "loading", "throwing", "hung", "destroyed"}
    BY <1>1
  <2>5. open \subseteq Plugins /\ metas \subseteq Metas /\ announced \subseteq Names
    BY <1>1
  <2>6. QED
    BY <2>1, <2>2, <2>3, <2>4, <2>5, ZenonT(30) DEF TypeOK
<1>6. StackInv
  BY <1>1, <1>2, <1>4 DEF StackInv
<1>7. BooksInv
  BY <1>1, <1>3 DEF BooksInv
<1>8. ListenersInv
  BY <1>1, <1>2, <1>3, <1>4 DEF ListenersInv
<1>9. OpenInv
  BY <1>1, <1>3 DEF OpenInv, HalfLoaded
<1>10. QED
  BY <1>5, <1>6, <1>7, <1>8, <1>9 DEF PluginInv

LEMMA PluginStep == PluginInv /\ [Next]_vars => PluginInv'
  BY TypesStep, StackStep, BooksStep, OpenStep DEF PluginInv

(* PluginInv, the inductive invariant, holds in every reachable state: the *)
(* types, the stack of calls and the books (manager.cpp, loader.cpp).      *)
THEOREM PluginInvariance == Spec => []PluginInv
  BY PluginInit, PluginStep, PTL DEF Spec

(* ExpandedOnce: whatever lists the configuration has, load() expands no   *)
(* meta plugin within itself (manager.cpp:300).                            *)
THEOREM LoadExpandsOnce == Spec => []ExpandedOnce
<1>1. PluginInv => ExpandedOnce
  BY DEF PluginInv, StackInv
<1>2. QED
  BY PluginInvariance, <1>1, PTL

(* BooksAgree: manager, loader and collector have the same plugins between *)
(* two calls, whatever failed before, unless the mutex was left locked.    *)
THEOREM BooksKept == Spec => []BooksAgree
<1>1. PluginInv => BooksAgree
  BY DEF PluginInv, BooksInv, BooksAgree
<1>2. QED
  BY PluginInvariance, <1>1, PTL

(* ListenersAgree: between two calls the listeners know exactly what is    *)
(* loaded, is_loaded() answers TRUE for that and for what a failed start   *)
(* left behind, and no meta plugin is loaded with one of its plugins       *)
(* missing, when no meta plugin has the name of a module.                  *)
THEOREM ListenersTold == ASSUME DisjointNames PROVE Spec => []ListenersAgree
<1>1. PluginInv /\ ListenersInv /\ [Next]_vars => ListenersInv'
  BY ListenersStep DEF PluginInv
<1>2. Spec => []ListenersInv
  BY PluginInit, PluginInvariance, <1>1, PTL DEF Spec
<1>3. PluginInv /\ ListenersInv => ListenersAgree
  <2> SUFFICES ASSUME PluginInv, ListenersInv, op = "idle"
               PROVE  /\ announced = Loaded \cup metas
                      /\ \A n \in Names : IsLoaded(n) <=> n \in announced \cup HalfLoaded
                      /\ \A m \in metas : Range(Config[m]) \cap Plugins \subseteq Loaded
    BY DEF ListenersAgree
  <2>1. OnStack = {}
    BY EmptyStack DEF PluginInv
  <2>2. /\ announced = Loaded \cup metas
        /\ \A m \in metas : Range(Config[m]) \cap Plugins \subseteq Loaded
    BY <2>1 DEF ListenersInv
  <2>3. open = Loaded \cup HalfLoaded
    BY DEF PluginInv, OpenInv
  <2>4. QED
    BY <2>2, <2>3 DEF IsLoaded
<1>4. QED
  BY PluginInvariance, <1>2, <1>3, PTL
=============================================================================
