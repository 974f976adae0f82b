----------------------------- MODULE MmadProofs -----------------------------
(***************************************************************************)
(* What an mmad keeps of the promises of the pipe engine, and that it      *)
(* multiplies the right tiles.  Three arguments, each on the lemmas of the *)
(* engine:                                                                 *)
(*                                                                         *)
(* - the books of the flags (FlagInv): what an mmad takes it has first     *)
(*   drained towards, what it raises is what its logs gain, and parking    *)
(*   takes nothing;                                                        *)
(* - the order of memory (OrderInv): the two halves join the queues as one *)
(*   operation that conflicts with nothing queued on other pipes, halves   *)
(*   included, for tiles and accumulators are apart;                       *)
(* - the copies (CopyInv): the half that is popped first finds its tiles   *)
(*   in memory already.  If the half on MTE1 still waits, no effect that   *)
(*   waits writes the tiles: one on another pipe would overtake, and none  *)
(*   on MTE1 writes them.  If it does not wait, the tiles are held.        *)
(***************************************************************************)
EXTENDS Mmad, OrderProofs

-----------------------------------------------------------------------------
(* What an mmad needs of a flag, and how often it raises one, are numbers. *)
LEMMA NeedsType ==
  ASSUME NEW x, NEW k
  PROVE  Needs(x, k) \in Nat /\ Raises(x, k) \in Nat
<1>1. IsFiniteSet(0 .. 6)
  <2>1. 0 \in Int /\ 6 \in Int
    OBVIOUS
  <2> QED BY <2>1, FS_Interval
<1>2. /\ {s \in UsedSlots(x, {0, 1, 5, 6}) : KeyOf(x, s) = k} \subseteq 0 .. 6
      /\ {s \in UsedSlots(x, {2, 3, 5, 6}) : KeyOf(x, s) = k} \subseteq 0 .. 6
  BY DEF UsedSlots
<1> QED BY <1>1, <1>2, FS_Subset, FS_CardinalityType DEF Needs, Raises

(* A flag it does not need it does not take.                               *)
LEMMA NeedsNothing ==
  ASSUME NEW x, NEW k \in Key, k \notin Needed(x)
  PROVE  Needs(x, k) = 0
<1>1. Needs(x, k) \in Nat /\ ~(Needs(x, k) > 0)
  BY NeedsType DEF Needed
<1> QED BY <1>1

(* What a flag will have once its pipe is drained                          *)
LEMMA HaveIs ==
  ASSUME TypeOK, NEW upto, DrainTo(upto), NEW k \in Key
  PROVE  DrainedFlags(upto)[k] = Have(k, upto[k.set])
<1>1. k.set \in Pipe
  BY KeyAssumption
<1>2. retired[k.set] \in Nat /\ upto[k.set] \in Nat /\ retired[k.set] <= upto[k.set]
  BY <1>1 DEF TypeOK, DrainTo
<1>3. /\ Cardinality(TokensUpTo(k, retired[k.set])) \in Nat
      /\ Cardinality(TokensUpTo(k, upto[k.set])) \in Nat
  <2>1. upto[k.set] <= upto[k.set]
    BY <1>2
  <2> QED BY <1>2, <2>1, TokensSplit
<1>4. DrainedFlags(upto)[k] \in Nat /\ flagSem[k] \in Nat
  BY DrainedFlagsType DEF TypeOK
<1>5. DrainedFlags(upto)[k] + Cardinality(TokensUpTo(k, retired[k.set])) =
        flagSem[k] + Cardinality(TokensUpTo(k, upto[k.set]))
  BY DrainConserves
<1> QED BY <1>3, <1>4, <1>5 DEF Have

(* A longer drain has no fewer raises.                                     *)
LEMMA HaveMonotone ==
  ASSUME TypeOK, NEW k \in Key, NEW m \in Nat, NEW n \in Nat, m <= n
  PROVE  /\ Have(k, m) \in Int /\ Have(k, n) \in Int
         /\ Have(k, m) <= Have(k, n)
<1>1. /\ Cardinality(TokensUpTo(k, m)) \in Nat
      /\ Cardinality(TokensUpTo(k, n)) \in Nat
      /\ Cardinality(TokensUpTo(k, m)) <= Cardinality(TokensUpTo(k, n))
  <2>1. n <= n
    OBVIOUS
  <2> QED BY <2>1, TokensSplit, TokensMonotone
<1>2. flagSem[k] \in Nat /\ Cardinality(TokensUpTo(k, retired[k.set])) \in Nat
  <2>1. retired[k.set] \in Nat
    BY KeyAssumption DEF TypeOK
  <2>2. retired[k.set] <= retired[k.set]
    BY <2>1
  <2> QED BY <2>1, <2>2, TokensSplit DEF TypeOK
<1> QED BY <1>1, <1>2 DEF Have

(* The extremes of a bounded set of numbers                                *)
LEMMA ExtremesAre ==
  ASSUME NEW S \in SUBSET Nat, S # {}, NEW b \in Nat, \A n \in S : n <= b
  PROVE  /\ Max(S) \in S /\ \A n \in S : n <= Max(S)
         /\ Min(S) \in S
<1>1. \E n \in S : \A m \in S : n >= m
  <2>1. PICK n \in S : \A m \in S : m <= n
    BY GreatestNatural
  <2> QED BY <2>1
<1>2. \E n \in S : \A m \in S : n =< m
  BY LeastNatural
<1>3. Max(S) \in S /\ \A m \in S : Max(S) >= m
  BY <1>1 DEF Max
<1>4. Min(S) \in S
  BY <1>2 DEF Min
<1> QED BY <1>3, <1>4

(* Draining towards one flag: within the queue, and as far as it takes if  *)
(* the queue has enough of it.                                             *)
LEMMA CutFacts ==
  ASSUME TypeOK, NEW x, NEW k \in Key
  PROVE  /\ Cut(x, k) \in Nat
         /\ retired[k.set] <= Cut(x, k) /\ Cut(x, k) <= Len(issued[k.set])
         /\ Have(k, Len(issued[k.set])) >= Needs(x, k) => Have(k, Cut(x, k)) >= Needs(x, k)
<1>1. PICK l \in Nat : l = Len(issued[k.set])
  BY KeyAssumption DEF TypeOK
<1>2. PICK r \in Nat : r = retired[k.set] /\ r <= l
  BY <1>1, KeyAssumption DEF TypeOK
<1> DEFINE T == TokensUpTo(k, l) \cup {r}
           last == Max(T)
           S == {n \in InFlight(k.set) \cup {r} : Have(k, n) >= Needs(x, k)}
<1>3. last \in T /\ \A n \in T : n <= last
  <2>1. T \in SUBSET Nat /\ T # {} /\ \A n \in T : n <= l
    BY <1>2 DEF TokensUpTo
  <2> HIDE DEF T
  <2> QED BY <2>1, ExtremesAre
<1>4. last \in Nat /\ r <= last /\ last <= l
  BY <1>2, <1>3 DEF TokensUpTo
<1> DEFINE U == S \cup {last}
<1>5. Cut(x, k) = Min(U)
  BY <1>1, <1>2 DEF Cut
<1>6. \A n \in U : n \in Nat /\ r <= n /\ n <= l
  <2> HIDE DEF last
  <2> QED BY <1>1, <1>2, <1>4 DEF InFlight
<1>7. Min(U) \in U
  <2>1. U \in SUBSET Nat /\ U # {} /\ \A n \in U : n <= l
    BY <1>6
  <2> HIDE DEF U
  <2> QED BY <2>1, ExtremesAre
<1>8. TokensUpTo(k, last) = TokensUpTo(k, l)
  <2>1. \A n \in TokensUpTo(k, l) : n <= last /\ n \in 1 .. l
    BY <1>3 DEF TokensUpTo
  <2> HIDE DEF last
  <2> QED BY <1>4, <2>1 DEF TokensUpTo
<1>9. Have(k, last) = Have(k, l)
  BY <1>8 DEF Have
<1> HIDE DEF last
<1> DEFINE m == Min(U)
<1>10. m \in S => Have(k, m) >= Needs(x, k)
  OBVIOUS
<1>11. m \in S \/ m = last
  BY <1>7
<1> HIDE DEF U, S, m
<1>12. Have(k, l) >= Needs(x, k) => Have(k, m) >= Needs(x, k)
  BY <1>9, <1>10, <1>11
<1> QED BY <1>1, <1>2, <1>5, <1>6, <1>7, <1>12 DEF m

(* Draining towards several                                                *)
LEMMA DrainedForIs ==
  ASSUME TypeOK, NEW x, NEW keys \in SUBSET Key
  PROVE  /\ DrainTo(DrainedFor(x, keys))
         /\ \A k \in keys : Cut(x, k) <= DrainedFor(x, keys)[k.set]
<1> DEFINE Cuts(p) == {retired[p]} \cup {Cut(x, k) : k \in {l \in keys : l.set = p}}
<1>1. ASSUME NEW p \in Pipe
      PROVE  /\ Max(Cuts(p)) \in Nat
             /\ retired[p] <= Max(Cuts(p)) /\ Max(Cuts(p)) <= Len(issued[p])
             /\ \A k \in keys : k.set = p => Cut(x, k) <= Max(Cuts(p))
  <2>1. PICK l \in Nat : l = Len(issued[p])
    BY DEF TypeOK
  <2>2. retired[p] \in Nat /\ retired[p] <= l
    BY <2>1 DEF TypeOK
  <2>3. \A k \in keys : k.set = p => Cut(x, k) \in Nat /\ Cut(x, k) <= l
    BY <2>1, CutFacts
  <2>4. \A n \in Cuts(p) : n \in Nat /\ n <= l
    BY <2>2, <2>3
  <2>5. retired[p] \in Cuts(p) /\ \A k \in keys : k.set = p => Cut(x, k) \in Cuts(p)
    OBVIOUS
  <2> HIDE DEF Cuts
  <2>6. Max(Cuts(p)) \in Cuts(p) /\ \A n \in Cuts(p) : n <= Max(Cuts(p))
    <3>1. Cuts(p) \in SUBSET Nat /\ Cuts(p) # {} /\ \A n \in Cuts(p) : n <= l
      BY <2>4, <2>5
    <3> QED BY <3>1, ExtremesAre
  <2> QED BY <2>1, <2>4, <2>5, <2>6
<1>2. DrainedFor(x, keys) = [p \in Pipe |-> Max(Cuts(p))]
  BY DEF DrainedFor
<1> HIDE DEF Cuts
<1>3. \A k \in keys : k.set \in Pipe
  BY KeyAssumption
<1> QED BY <1>1, <1>2, <1>3 DEF DrainTo

(* Every flag an mmad needs is one of Key.                                 *)
LEMMA NeededAreKeys ==
  ASSUME NEW x
  PROVE  Needed(x) \in SUBSET Key /\ Short(x) \subseteq Needed(x)
BY DEF Needed, Short

(* Once no flag is short, the drain raises each of them often enough.      *)
LEMMA EnoughDrained ==
  ASSUME TypeOK, NEW x, Short(x) = {}, NEW k \in Key, NEW upto, DrainTo(upto),
         k \in Needed(x) => Cut(x, k) <= upto[k.set]
  PROVE  DrainedFlags(upto)[k] - Needs(x, k) \in Nat
<1>1. Needs(x, k) \in Nat /\ DrainedFlags(upto)[k] \in Nat
  BY NeedsType, DrainedFlagsType
<1>2. CASE k \notin Needed(x)
  <2>1. Needs(x, k) = 0
    BY <1>2, NeedsNothing
  <2> QED BY <1>1, <2>1
<1>3. CASE k \in Needed(x)
  <2>1. k.set \in Pipe
    BY KeyAssumption
  <2>2. Len(issued[k.set]) \in Nat /\ upto[k.set] \in Nat
    BY <2>1 DEF TypeOK, DrainTo
  <2>3. /\ Cut(x, k) \in Nat /\ Cut(x, k) <= Len(issued[k.set])
        /\ Have(k, Len(issued[k.set])) >= Needs(x, k) => Have(k, Cut(x, k)) >= Needs(x, k)
    BY CutFacts
  <2>4. ~(Have(k, Len(issued[k.set])) < Needs(x, k))
    BY <1>3 DEF Short
  <2>5. Have(k, Len(issued[k.set])) \in Int /\ Have(k, Cut(x, k)) \in Int
    BY <2>2, <2>3, HaveMonotone
  <2>6. Have(k, Cut(x, k)) >= Needs(x, k)
    BY <1>1, <2>3, <2>4, <2>5
  <2>7. Have(k, upto[k.set]) \in Int /\ Have(k, Cut(x, k)) <= Have(k, upto[k.set])
    BY <1>3, <2>2, <2>3, HaveMonotone
  <2>8. DrainedFlags(upto)[k] = Have(k, upto[k.set])
    BY HaveIs
  <2> QED BY <1>1, <2>5, <2>6, <2>7, <2>8
<1> QED BY <1>2, <1>3

(* The flags are looked at one after the other, so there is a first that   *)
(* is short.                                                               *)
LEMMA FirstShortIsShort ==
  ASSUME NEW x, Short(x) # {}
  PROVE  FirstShort(x) \in Short(x)
<1> DEFINE S == Short(x)
<1>1. S # {} /\ \A k \in S : /\ k \in [set : Nat, wait : Nat, event : Nat]
  BY KeyAssumption DEF Short, Needed, Pipe
<1> HIDE DEF S
<1>2. PICK a \in {k.set : k \in S} : \A b \in {k.set : k \in S} : a <= b
  <2>1. {k.set : k \in S} \in SUBSET Nat /\ {k.set : k \in S} # {}
    BY <1>1
  <2> QED BY <2>1, LeastNatural
<1> DEFINE A == {k \in S : k.set = a}
<1>3. PICK c \in {k.wait : k \in A} : \A d \in {k.wait : k \in A} : c <= d
  <2>1. {k.wait : k \in A} \in SUBSET Nat /\ {k.wait : k \in A} # {}
    BY <1>1, <1>2
  <2> HIDE DEF A
  <2> QED BY <2>1, LeastNatural
<1> DEFINE B == {k \in A : k.wait = c}
<1>4. PICK e \in {k.event : k \in B} : \A f \in {k.event : k \in B} : e <= f
  <2>1. {k.event : k \in B} \in SUBSET Nat /\ {k.event : k \in B} # {}
    BY <1>1, <1>3
  <2> HIDE DEF B
  <2> QED BY <2>1, LeastNatural
<1>5. PICK k \in B : k.event = e
  BY <1>4
<1>6. k \in S /\ k.set = a /\ k.wait = c
  BY <1>5
<1>7. ASSUME NEW l \in S \ {k} PROVE KeyBefore(k, l)
  <2>1. a <= l.set /\ (l.set = a => c <= l.wait) /\ (l.set = a /\ l.wait = c => e <= l.event)
    BY <1>2, <1>3, <1>4
  <2>2. l \in [set : Nat, wait : Nat, event : Nat] /\ k \in [set : Nat, wait : Nat, event : Nat]
    BY <1>1, <1>6
  <2>3. ~(l.set = k.set /\ l.wait = k.wait /\ l.event = k.event)
    BY <2>2
  <2> QED BY <1>5, <1>6, <2>1, <2>2, <2>3 DEF KeyBefore
<1>8. \E k1 \in S : \A l \in S \ {k1} : KeyBefore(k1, l)
  BY <1>6, <1>7
<1> QED BY <1>8 DEF FirstShort, S
-----------------------------------------------------------------------------
(* A stretch of tokens                                                     *)
AllTokens(r) == r \in Seq(Entry) /\ \A i \in 1 .. Len(r) : r[i].kind = "token"

(* The slots of the flags an mmad raises and takes; slot 4 is not read.    *)
UsableSlot == Slot \ {4}

(* What one slot queues                                                    *)
LEMMA TokenOfIs ==
  ASSUME NEW x \in Macro, NEW s \in UsableSlot
  PROVE  /\ AllTokens(TokenOf(x, s))
         /\ x.slots[s] >= 0 => TokenOf(x, s) = <<Token(KeyOf(x, s))>>
         /\ ~(x.slots[s] >= 0) => TokenOf(x, s) = << >>
<1>1. CASE x.slots[s] >= 0
  <2>1. s \in UsedSlots(x, Slot \ {4})
    BY <1>1 DEF UsedSlots, UsableSlot
  <2>2. KeyOf(x, s) \in Key
    BY <2>1, MacroKeyAssumption
  <2> DEFINE k == KeyOf(x, s)
  <2> HIDE DEF k
  <2>3. Token(k) \in Entry /\ Token(k).kind = "token"
    BY <2>2 DEF Entry, Token, k
  <2>4. AllTokens(<<Token(k)>>)
    BY <2>3 DEF AllTokens
  <2> QED BY <1>1, <2>4 DEF TokenOf, k
<1>2. CASE ~(x.slots[s] >= 0)
  BY <1>2 DEF TokenOf, AllTokens
<1> QED BY <1>1, <1>2

(* One stretch of tokens after another is one.                             *)
LEMMA TokensJoin ==
  ASSUME NEW r, NEW t, AllTokens(r), AllTokens(t)
  PROVE  AllTokens(r \o t)
<1>1. r \in Seq(Entry) /\ t \in Seq(Entry)
  BY DEF AllTokens
<1>2. PICK m \in Nat : m = Len(r)
  BY <1>1
<1>3. PICK n \in Nat : n = Len(t)
  BY <1>1
<1>4. /\ r \o t \in Seq(Entry) /\ Len(r \o t) = m + n
      /\ \A i \in 1 .. m + n : (r \o t)[i] = IF i <= m THEN r[i] ELSE t[i - m]
  BY <1>1, <1>2, <1>3, ConcatProperties
<1>5. ASSUME NEW i \in 1 .. m + n PROVE (r \o t)[i].kind = "token"
  <2>1. CASE i <= m
    BY <1>2, <1>4, <2>1 DEF AllTokens
  <2>2. CASE ~(i <= m)
    <3>1. i - m \in 1 .. n
      BY <2>2
    <3>2. t[i - m].kind = "token"
      BY <1>3, <3>1 DEF AllTokens
    <3> QED BY <1>4, <2>2, <3>2
  <2> QED BY <2>1, <2>2
<1> QED BY <1>4, <1>5 DEF AllTokens

(* The tokens between and after the halves                                 *)
LEMMA PushedTokens ==
  ASSUME NEW x \in Macro
  PROVE  AllTokens(Released(x)) /\ AllTokens(Published(x))
<1>1. 2 \in UsableSlot /\ 3 \in UsableSlot /\ 5 \in UsableSlot /\ 6 \in UsableSlot
  BY DEF UsableSlot, Slot
<1> QED BY <1>1, TokenOfIs, TokensJoin DEF Released, Published

(* The log of p gains tokens, ...                                          *)
GrowsTokens(p) ==
  /\ issued'[p] \in Seq(Entry) /\ Len(issued'[p]) \in Nat
  /\ Len(issued[p]) <= Len(issued'[p])
  /\ \A i \in 1 .. Len(issued[p]) : issued'[p][i] = issued[p][i]
  /\ \A i \in 1 .. Len(issued'[p]) : Len(issued[p]) < i => issued'[p][i].kind = "token"

(* ... or the effect e, and then tokens.                                   *)
GrowsEffect(p, e) ==
  /\ issued'[p] \in Seq(Entry) /\ Len(issued'[p]) \in Nat
  /\ Len(issued[p]) < Len(issued'[p])
  /\ \A i \in 1 .. Len(issued[p]) : issued'[p][i] = issued[p][i]
  /\ issued'[p][Len(issued[p]) + 1] = e
  /\ \A i \in 1 .. Len(issued'[p]) : Len(issued[p]) + 1 < i => issued'[p][i].kind = "token"

(* That is what concatenation does.                                        *)
LEMMA ConcatGrows ==
  ASSUME TypeOK, NEW p \in Pipe, NEW r, AllTokens(r)
  PROVE  /\ issued'[p] = issued[p] \o r => GrowsTokens(p)
         /\ \A e \in Entry : issued'[p] = issued[p] \o <<e>> \o r => GrowsEffect(p, e)
<1>1. issued[p] \in Seq(Entry) /\ r \in Seq(Entry)
  BY DEF TypeOK, AllTokens
<1>2. PICK m \in Nat : m = Len(r)
  BY <1>1
<1>3. PICK n \in Nat : n = Len(issued[p])
  BY <1>1
<1>4. ASSUME issued'[p] = issued[p] \o r PROVE GrowsTokens(p)
  <2>1. /\ issued'[p] \in Seq(Entry) /\ Len(issued'[p]) = n + m
        /\ \A i \in 1 .. n + m : issued'[p][i] = IF i <= n THEN issued[p][i] ELSE r[i - n]
    BY <1>1, <1>2, <1>3, <1>4, ConcatProperties
  <2>2. ASSUME NEW i \in 1 .. n + m, n < i PROVE issued'[p][i].kind = "token"
    <3>1. i - n \in 1 .. m /\ ~(i <= n)
      BY <2>2
    <3> QED BY <1>2, <2>1, <3>1 DEF AllTokens
  <2>3. \A i \in 1 .. n : i \in 1 .. n + m /\ i <= n
    OBVIOUS
  <2> QED BY <1>3, <2>1, <2>2, <2>3 DEF GrowsTokens
<1>5. ASSUME NEW e \in Entry, issued'[p] = issued[p] \o <<e>> \o r PROVE GrowsEffect(p, e)
  <2> DEFINE s == issued[p] \o <<e>>
  <2>1. <<e>> \in Seq(Entry) /\ Len(<<e>>) = 1 /\ <<e>>[1] = e
    OBVIOUS
  <2>2. /\ s \in Seq(Entry) /\ Len(s) = n + 1
        /\ \A i \in 1 .. n + 1 : s[i] = IF i <= n THEN issued[p][i] ELSE <<e>>[i - n]
    BY <1>1, <1>3, <2>1, ConcatProperties
  <2>3. (\A i \in 1 .. n : s[i] = issued[p][i]) /\ s[n + 1] = e
    <3>1. n + 1 \in 1 .. n + 1 /\ ~(n + 1 <= n) /\ (n + 1) - n = 1
      OBVIOUS
    <3>2. \A i \in 1 .. n : i \in 1 .. n + 1 /\ i <= n
      OBVIOUS
    <3> QED BY <2>1, <2>2, <3>1, <3>2
  <2>4. issued'[p] = s \o r
    BY <1>5
  <2> HIDE DEF s
  <2> DEFINE l == n + 1
  <2>5. l \in Nat /\ n < l /\ Len(s) = l
    BY <2>2
  <2>6. s[l] = e /\ \A i \in 1 .. l : i = l \/ i \in 1 .. n
    BY <2>3
  <2> HIDE DEF l
  <2>7. /\ issued'[p] \in Seq(Entry) /\ Len(issued'[p]) = l + m
        /\ \A i \in 1 .. l + m : issued'[p][i] = IF i <= l THEN s[i] ELSE r[i - l]
    <3>1. /\ s \o r \in Seq(Entry) /\ Len(s \o r) = Len(s) + Len(r)
          /\ \A i \in 1 .. Len(s) + Len(r) :
               (s \o r)[i] = IF i <= Len(s) THEN s[i] ELSE r[i - Len(s)]
      BY <1>1, <2>2, ConcatProperties
    <3> QED BY <1>2, <2>4, <2>5, <3>1
  <2>8. ASSUME NEW i \in 1 .. l + m, l < i PROVE issued'[p][i].kind = "token"
    <3>1. i - l \in 1 .. m /\ ~(i <= l)
      BY <2>5, <2>8
    <3> QED BY <1>2, <2>7, <3>1 DEF AllTokens
  <2>9. /\ \A i \in 1 .. n : i \in 1 .. l + m /\ i <= l
        /\ l \in 1 .. l + m /\ l <= l /\ n < l + m
    BY <2>5
  <2>10. l = Len(issued[p]) + 1 /\ Len(issued'[p]) \in Nat
    BY <1>3, <2>5, <2>7 DEF l
  <2> QED BY <1>3, <2>3, <2>5, <2>6, <2>7, <2>8, <2>9, <2>10 DEF GrowsEffect
<1> QED BY <1>4, <1>5

-----------------------------------------------------------------------------
(* What the assumptions say of an mmad                                     *)
LEMMA MacroFacts ==
  ASSUME NEW x \in Macro
  PROVE  /\ M \in Pipe /\ Mte1 \in Pipe /\ M # PipeS /\ Mte1 # PipeS /\ M # Mte1
         /\ x.op \in STRING /\ \A ins \in Instr : ins.op # x.op
         /\ x.tiles \in SUBSET ByteRange /\ x.acc \in SUBSET ByteRange
         /\ \A y \in Macro : Bytes(x.tiles) \cap Bytes(y.acc) = {}
BY MacroAssumption, TilesAssumption

(* A half as an instruction would be                                       *)
LEMMA HalfFields ==
  ASSUME NEW x \in Macro, NEW p \in {M, Mte1}
  PROVE  /\ Half(x, p).op = x.op /\ Half(x, p).pipe = p /\ ~Half(x, p).raw
         /\ Half(x, p).reads \in SUBSET ByteRange
         /\ Half(x, p).writes \in SUBSET ByteRange
         /\ p = Mte1 => Half(x, p).reads = x.tiles /\ Half(x, p).writes = {}
         /\ p = M => Half(x, p).reads \in {{}, x.acc} /\ Half(x, p).writes = x.acc
BY MacroFacts DEF Half

(* and as it is queued                                                     *)
LEMMA QueuedHalf ==
  ASSUME TypeOK, NEW x \in Macro, NEW p \in {M, Mte1}, NEW e, e = Queued(Half(x, p))
  PROVE  /\ e \in Entry /\ e.kind = "effect" /\ e.op = x.op /\ e.raw = FALSE
         /\ e.id = count + 1
         /\ e.reads = Half(x, p).reads /\ e.writes = Half(x, p).writes
         /\ \A b \in Byte : b \in Bytes(e.reads) => e.expect[b] = prog[b]
<1> DEFINE h == Half(x, p)
<1>1. /\ h.op = x.op /\ x.op \in STRING /\ h.raw = FALSE
      /\ h.reads \in SUBSET ByteRange /\ h.writes \in SUBSET ByteRange
  BY HalfFields, MacroFacts DEF Half
<1> HIDE DEF h
<1> DEFINE f == [b \in Byte |-> IF b \in Bytes(h.reads) THEN prog[b] ELSE 0]
<1>2. f \in [Byte -> Nat] /\ count + 1 \in Nat
  BY DEF TypeOK
<1>3. e = [kind |-> "effect", op |-> h.op, reads |-> h.reads, writes |-> h.writes,
           raw |-> h.raw, id |-> count + 1, expect |-> f]
  BY DEF Queued, h
<1>4. \A b \in Byte : b \in Bytes(h.reads) => f[b] = prog[b]
  OBVIOUS
<1> HIDE DEF f
<1>5. e \in Entry
  <2>1. h \in [op : STRING, pipe : {M, Mte1}, raw : BOOLEAN, reads : SUBSET ByteRange,
               writes : SUBSET ByteRange]
    <3>1. PICK no \in BOOLEAN : no = FALSE
      OBVIOUS
    <3>2. h = [op |-> x.op, pipe |-> p, raw |-> no, reads |-> h.reads,
               writes |-> h.writes]
      BY <3>1 DEF h, Half
    <3> QED BY <1>1, <3>2
  <2>2. e \in [kind : {"effect"}, op : STRING, reads : SUBSET ByteRange,
               writes : SUBSET ByteRange, raw : BOOLEAN, id : Nat, expect : [Byte -> Nat]]
    BY <1>2, <1>3, <2>1
  <2> QED BY <2>2 DEF Entry
<1> QED BY <1>1, <1>3, <1>4, <1>5 DEF h

(* How the logs grow when an mmad is queued                                *)
LEMMA QueuesLog ==
  ASSUME TypeOK, NEW x \in Macro, MmadQueues(x)
  PROVE  /\ GrowsEffect(Mte1, Queued(Half(x, Mte1)))
         /\ GrowsEffect(M, Queued(Half(x, M)))
         /\ \A p \in Pipe \ {M, Mte1} : issued'[p] = issued[p]
         /\ LogExtends
<1> DEFINE s == Queued(Half(x, Mte1))
           m == Queued(Half(x, M))
<1>1. issued' = [issued EXCEPT ![Mte1] = @ \o <<s>> \o Released(x),
                               ![M] = @ \o <<m>> \o Published(x)]
  BY DEF MmadQueues
<1>2. s \in Entry /\ m \in Entry /\ M \in Pipe /\ Mte1 \in Pipe /\ M # Mte1
  BY QueuedHalf, MacroFacts
<1>3. s.kind = "effect" /\ m.kind = "effect"
  BY DEF Queued
<1> HIDE DEF s, m
<1>4. issued \in [Pipe -> Seq(Entry)]
  BY DEF TypeOK
<1>5. /\ issued'[Mte1] = issued[Mte1] \o <<s>> \o Released(x)
      /\ issued'[M] = issued[M] \o <<m>> \o Published(x)
      /\ \A p \in Pipe \ {M, Mte1} : issued'[p] = issued[p]
      /\ DOMAIN issued' = Pipe /\ issued' = [p \in Pipe |-> issued'[p]]
  BY <1>1, <1>2, <1>4
<1>6. GrowsEffect(Mte1, s) /\ GrowsEffect(M, m)
  BY <1>2, <1>5, PushedTokens, ConcatGrows
<1>7. ASSUME NEW p \in Pipe
      PROVE  /\ issued'[p] \in Seq(Entry)
             /\ Len(issued[p]) <= Len(issued'[p])
             /\ \A i \in 1 .. Len(issued[p]) : issued'[p][i] = issued[p][i]
  <2>1. issued[p] \in Seq(Entry) /\ Len(issued[p]) \in Nat
    BY <1>4
  <2>2. CASE p = Mte1
    BY <1>6, <2>1, <2>2 DEF GrowsEffect
  <2>3. CASE p = M
    BY <1>6, <2>1, <2>3 DEF GrowsEffect
  <2>4. CASE p \in Pipe \ {M, Mte1}
    BY <1>5, <2>1, <2>4
  <2> QED BY <2>2, <2>3, <2>4
<1>8. issued' \in [Pipe -> Seq(Entry)]
  BY <1>5, <1>7
<1>9. \A p \in Pipe :
        /\ Len(issued[p]) <= Len(issued'[p])
        /\ \A i \in 1 .. Len(issued[p]) : issued'[p][i] = issued[p][i]
  BY <1>7
<1>10. LogExtends
  BY <1>8, <1>9 DEF LogExtends
<1> QED BY <1>5, <1>6, <1>10 DEF s, m

(* and when it completes in order                                          *)
LEMMA InOrderLog ==
  ASSUME TypeOK, NEW x \in Macro, MmadInOrder(x)
  PROVE  /\ issued'[Mte1] = issued[Mte1] \o Released(x)
         /\ issued'[M] = issued[M] \o Published(x)
         /\ \A p \in Pipe \ {M, Mte1} : issued'[p] = issued[p]
         /\ \A p \in Pipe : GrowsTokens(p)
         /\ LogExtends
<1>1. issued' = [issued EXCEPT ![Mte1] = @ \o Released(x), ![M] = @ \o Published(x)]
  BY DEF MmadInOrder
<1>2. M \in Pipe /\ Mte1 \in Pipe /\ M # Mte1
  BY MacroFacts
<1>3. issued \in [Pipe -> Seq(Entry)]
  BY DEF TypeOK
<1>4. /\ issued'[Mte1] = issued[Mte1] \o Released(x)
      /\ issued'[M] = issued[M] \o Published(x)
      /\ \A p \in Pipe \ {M, Mte1} : issued'[p] = issued[p]
      /\ DOMAIN issued' = Pipe /\ issued' = [p \in Pipe |-> issued'[p]]
  BY <1>1, <1>2, <1>3
<1>5. GrowsTokens(Mte1) /\ GrowsTokens(M)
  BY <1>2, <1>4, PushedTokens, ConcatGrows
<1>6. \A p \in Pipe : issued[p] \in Seq(Entry) /\ Len(issued[p]) \in Nat
  BY <1>3
<1>7. ASSUME NEW p \in Pipe PROVE GrowsTokens(p)
  <2>1. CASE p \in {M, Mte1}
    BY <1>5, <2>1
  <2>2. CASE p \in Pipe \ {M, Mte1}
    <3>1. issued'[p] = issued[p]
      BY <1>4, <2>2
    <3> QED BY <1>6, <3>1 DEF GrowsTokens
  <2> QED BY <2>1, <2>2
<1>8. issued' \in [Pipe -> Seq(Entry)]
  BY <1>4, <1>7 DEF GrowsTokens
<1>9. LogExtends
  BY <1>6, <1>7, <1>8 DEF LogExtends, GrowsTokens
<1> QED BY <1>4, <1>7, <1>9
-----------------------------------------------------------------------------
(***************************************************************************)
(* The effects ever queued, and how a step adds to them                    *)
(***************************************************************************)
Effects ==
  {x \in UNION {{p} \X (1 .. Len(issued[p])) : p \in Pipe} : At(x).kind = "effect"}

(* The effects N come on top, at most one on each pipe.                    *)
Joined(N) ==
  /\ Effects' = Effects \cup N
  /\ \A x \in Effects : At(x)' = At(x)
  /\ \A z \in N : /\ z \in Pipe \X Nat /\ Len(issued[z[1]]) < z[2]
                  /\ \A y \in N : y[1] = z[1] => y = z

(* Where an effect is                                                      *)
LEMMA EffectFacts ==
  ASSUME TypeOK, NEW x \in Effects
  PROVE  /\ x = <<x[1], x[2]>> /\ x[1] \in Pipe /\ x[1] \in Nat
         /\ x[2] \in Nat /\ x[2] \in 1 .. Len(issued[x[1]]) /\ Len(issued[x[1]]) \in Nat
         /\ At(x) \in Entry /\ At(x).kind = "effect"
<1>1. PICK p \in Pipe : x \in {p} \X (1 .. Len(issued[p]))
  BY DEF Effects
<1>2. x = <<x[1], x[2]>> /\ x[1] = p /\ x[2] \in 1 .. Len(issued[p])
  BY <1>1
<1>3. Len(issued[p]) \in Nat /\ p \in Nat
  BY PipeAssumption DEF TypeOK, Pipe
<1>4. At(x) \in Entry
  BY <1>2, LogEntry DEF At
<1> QED BY <1>2, <1>3, <1>4 DEF Effects

(* and that every such place holds one                                     *)
LEMMA EffectsAt ==
  ASSUME NEW p \in Pipe, NEW i
  PROVE  /\ <<p, i>> \in Effects <=> i \in 1 .. Len(issued[p]) /\ issued[p][i].kind = "effect"
         /\ <<p, i>> \in Effects' <=> i \in 1 .. Len(issued'[p]) /\ issued'[p][i].kind = "effect"
         /\ At(<<p, i>>) = issued[p][i] /\ At(<<p, i>>)' = issued'[p][i]
BY DEF Effects, At

(* Positions are pairs before and after a step.                            *)
LEMMA EffectsArePairs ==
  ASSUME NEW x, x \in Effects \/ x \in Effects'
  PROVE  \E p \in Pipe : \E i : x = <<p, i>>
BY DEF Effects

(* Nothing joins if no effect is added or changed.                         *)
LEMMA StayJoins ==
  ASSUME TypeOK, EffectsStay
  PROVE  Joined({})
<1>1. ASSUME NEW p \in Pipe, NEW i
      PROVE  /\ <<p, i>> \in Effects' <=> <<p, i>> \in Effects
             /\ <<p, i>> \in Effects => At(<<p, i>>)' = At(<<p, i>>)
  <2>1. Len(issued[p]) \in Nat
    BY DEF TypeOK
  <2>2. i \in 1 .. Len(issued[p]) => i \in 1 .. Len(issued'[p])
    BY <2>1 DEF EffectsStay
  <2>3. i \in 1 .. Len(issued'[p]) => i \in 1 .. Len(issued[p]) \/ Len(issued[p]) < i
    BY <2>1 DEF EffectsStay
  <2> QED BY <2>1, <2>2, <2>3, EffectsAt DEF EffectsStay
<1>2. Effects' = Effects /\ \A x \in Effects : At(x)' = At(x)
  BY <1>1, EffectsArePairs
<1> QED BY <1>2 DEF Joined

(* An effect that is pushed joins.                                         *)
LEMMA PushJoins ==
  ASSUME TypeOK, NEW q \in Pipe, NEW e, e.kind = "effect", Pushed(q, e),
         NEW n \in Nat, n = Len(issued[q])
  PROVE  Joined({<<q, n + 1>>}) /\ At(<<q, n + 1>>)' = e
<1>1. ASSUME NEW p \in Pipe, NEW i
      PROVE  /\ <<p, i>> \in Effects' <=> <<p, i>> \in Effects \/ <<p, i>> = <<q, n + 1>>
             /\ <<p, i>> \in Effects => At(<<p, i>>)' = At(<<p, i>>)
  <2>1. CASE p # q
    <3>1. issued'[p] = issued[p]
      BY <2>1 DEF Pushed
    <3> QED BY <2>1, <3>1, EffectsAt
  <2>2. CASE p = q
    <3>1. /\ Len(issued'[p]) = n + 1 /\ issued'[p][n + 1] = e
          /\ \A j \in 1 .. n : issued'[p][j] = issued[p][j]
      BY <2>2 DEF Pushed
    <3>2. i \in 1 .. n + 1 <=> i \in 1 .. n \/ i = n + 1
      OBVIOUS
    <3> QED BY <2>2, <3>1, <3>2, EffectsAt
  <2> QED BY <2>1, <2>2
<1>2. Effects' = Effects \cup {<<q, n + 1>>} /\ \A x \in Effects : At(x)' = At(x)
  BY <1>1, EffectsArePairs
<1>3. At(<<q, n + 1>>)' = e
  BY DEF Pushed, At
<1> QED BY <1>2, <1>3 DEF Joined

(* The two halves of an mmad join together.                                *)
LEMMA HalvesJoin ==
  ASSUME TypeOK, NEW x \in Macro, MmadQueues(x),
         NEW m \in Nat, m = Len(issued[Mte1]), NEW n \in Nat, n = Len(issued[M])
  PROVE  /\ Joined({<<Mte1, m + 1>>, <<M, n + 1>>})
         /\ At(<<Mte1, m + 1>>)' = Queued(Half(x, Mte1))
         /\ At(<<M, n + 1>>)' = Queued(Half(x, M))
<1> DEFINE s == Queued(Half(x, Mte1))
           e == Queued(Half(x, M))
           N == {<<Mte1, m + 1>>, <<M, n + 1>>}
<1>1. s.kind = "effect" /\ e.kind = "effect"
  BY DEF Queued
<1>2. M \in Pipe /\ Mte1 \in Pipe /\ M # Mte1
  BY MacroFacts
<1>3. /\ GrowsEffect(Mte1, s) /\ GrowsEffect(M, e)
      /\ \A p \in Pipe \ {M, Mte1} : issued'[p] = issued[p]
  BY QueuesLog
<1> HIDE DEF s, e
<1>4. ASSUME NEW q \in Pipe, NEW l \in Nat, l = Len(issued[q]), NEW f, f.kind = "effect",
             GrowsEffect(q, f), NEW i
      PROVE  /\ <<q, i>> \in Effects' <=> <<q, i>> \in Effects \/ i = l + 1
             /\ <<q, i>> \in Effects => At(<<q, i>>)' = At(<<q, i>>)
             /\ At(<<q, l + 1>>)' = f
  <2>1. /\ Len(issued'[q]) \in Nat /\ l < Len(issued'[q])
        /\ \A j \in 1 .. l : issued'[q][j] = issued[q][j]
        /\ issued'[q][l + 1] = f
        /\ \A j \in 1 .. Len(issued'[q]) : l + 1 < j => issued'[q][j].kind = "token"
    BY <1>4 DEF GrowsEffect
  <2>2. i \in 1 .. Len(issued'[q]) <=>
          i \in 1 .. l \/ i = l + 1 \/ (i \in 1 .. Len(issued'[q]) /\ l + 1 < i)
    BY <2>1
  <2> QED BY <1>4, <2>1, <2>2, EffectsAt
<1>5. ASSUME NEW p \in Pipe, NEW i
      PROVE  /\ <<p, i>> \in Effects' <=> <<p, i>> \in Effects \/ <<p, i>> \in N
             /\ <<p, i>> \in Effects => At(<<p, i>>)' = At(<<p, i>>)
  <2>1. CASE p = Mte1
    BY <1>1, <1>2, <1>3, <1>4, <2>1
  <2>2. CASE p = M
    BY <1>1, <1>2, <1>3, <1>4, <2>2
  <2>3. CASE p \in Pipe \ {M, Mte1}
    <3>1. issued'[p] = issued[p] /\ <<p, i>> \notin N
      BY <1>3, <2>3
    <3> QED BY <3>1, EffectsAt
  <2> QED BY <2>1, <2>2, <2>3
<1>6. \A z \in N : \E p \in Pipe : \E i : z = <<p, i>>
  BY <1>2
<1>7. Effects' = Effects \cup N /\ \A z \in Effects : At(z)' = At(z)
  <2> HIDE DEF N
  <2> QED BY <1>5, <1>6, EffectsArePairs
<1>8. \A z \in N : /\ z \in Pipe \X Nat /\ Len(issued[z[1]]) < z[2]
                   /\ \A y \in N : y[1] = z[1] => y = z
  BY <1>2
<1>9. At(<<Mte1, m + 1>>)' = s /\ At(<<M, n + 1>>)' = e
  BY <1>1, <1>2, <1>3, <1>4
<1> QED BY <1>7, <1>8, <1>9 DEF Joined, s, e

(* In order, tokens are all an mmad adds to the logs.                      *)
LEMMA TokensStay ==
  ASSUME TypeOK, \A p \in Pipe : GrowsTokens(p)
  PROVE  EffectsStay
<1> SUFFICES ASSUME NEW p \in Pipe
             PROVE  /\ Len(issued'[p]) \in Nat /\ Len(issued[p]) <= Len(issued'[p])
                    /\ \A i \in 1 .. Len(issued[p]) :
                         /\ issued'[p][i].kind = issued[p][i].kind
                         /\ issued[p][i].kind = "effect" => issued'[p][i] = issued[p][i]
                    /\ \A i \in 1 .. Len(issued'[p]) :
                         Len(issued[p]) < i => issued'[p][i].kind # "effect"
  BY DEF EffectsStay
<1>1. GrowsTokens(p)
  OBVIOUS
<1> QED BY <1>1 DEF GrowsTokens

(* A step of the engine queues at most one effect, the operation's own.    *)
DeferredJoins(ins) ==
  /\ IssueDeferred(ins)
  /\ \E n \in Nat :
       /\ Joined({<<ins.pipe, n>>})
       /\ At(<<ins.pipe, n>>)'.id = count + 1 /\ At(<<ins.pipe, n>>)'.op = ins.op
       /\ At(<<ins.pipe, n>>)'.writes = ins.writes

LEMMA EngineJoins ==
  ASSUME TypeOK, [Next]_vars
  PROVE  Joined({}) \/ \E ins \in Instr : DeferredJoins(ins)
<1>1. ASSUME issued' = issued PROVE Joined({})
  BY <1>1, UnchangedStays, StayJoins
<1>2. ASSUME NEW ins \in Instr, IssueDeferred(ins) PROVE DeferredJoins(ins)
  <2> DEFINE e == [kind |-> "effect", op |-> ins.op, reads |-> ins.reads,
                   writes |-> ins.writes, raw |-> ins.raw, id |-> count + 1,
                   expect |-> [b \in Byte |-> IF b \in Bytes(ins.reads) THEN prog[b] ELSE 0]]
  <2>1. ins.pipe \in Pipe
    BY InstrAssumption DEF Instruction
  <2>2. e \in Entry
    <3>1. ins \in Instruction /\ prog \in [Byte -> Nat] /\ count + 1 \in Nat
      BY InstrAssumption DEF TypeOK
    <3>2. e.expect \in [Byte -> Nat]
      BY <3>1
    <3> QED BY <3>1, <3>2 DEF Entry, Instruction
  <2>3. /\ e.kind = "effect" /\ e.id = count + 1 /\ e.op = ins.op /\ e.writes = ins.writes
        /\ issued' = [issued EXCEPT ![ins.pipe] = Append(@, e)]
    BY <1>2 DEF IssueDeferred
  <2> HIDE DEF e
  <2>4. Pushed(ins.pipe, e)
    BY <2>1, <2>2, <2>3, AppendPushes
  <2>5. PICK n \in Nat : n = Len(issued[ins.pipe])
    BY <2>1 DEF TypeOK
  <2>6. Joined({<<ins.pipe, n + 1>>}) /\ At(<<ins.pipe, n + 1>>)' = e
    BY <2>1, <2>3, <2>4, <2>5, PushJoins
  <2>7. n + 1 \in Nat
    OBVIOUS
  <2> QED BY <1>2, <2>3, <2>6, <2>7 DEF DeferredJoins
<1>3. ASSUME NEW ins \in Instr, IssueNow(ins) PROVE Joined({})
  <2> DEFINE upto == UpToEnd(IF ins.how = "direct" THEN {ins.pipe} ELSE {})
  <2>1. LeaveMarker(ins, upto[ins.pipe])
    BY <1>3 DEF IssueNow
  <2>2. DrainTo(upto)
    BY UpToEndIsDrain
  <2> HIDE DEF upto
  <2>3. upto[ins.pipe] \in Nat
    BY <2>2, InstrAssumption DEF Instruction, DrainTo
  <2> QED BY <2>1, <2>3, LeaveMarkerStays, StayJoins
<1>4. ASSUME NEW k \in Key, SetFlag(k) PROVE Joined({})
  <2> DEFINE e == [kind |-> "token", key |-> k]
  <2>1. k.set \in Pipe /\ e \in Entry /\ e.kind # "effect"
    BY KeyAssumption DEF Entry
  <2>2. issued' = [issued EXCEPT ![k.set] = Append(@, e)]
    BY <1>4 DEF SetFlag
  <2> HIDE DEF e
  <2> QED BY <2>1, <2>2, AppendPushes, PushedStays, StayJoins
<1> QED
  BY <1>1, <1>2, <1>3, <1>4
     DEF Next, vars, IssueInOrder, WaitRaised, WaitDrains, WaitBlocks, PipeBarrier, Return
-----------------------------------------------------------------------------
(***************************************************************************)
(* The types                                                               *)
(***************************************************************************)

(* An effect has the number of an operation issued before.                 *)
IdsFresh == \A x \in Effects : At(x).id \in 1 .. count

(* A half that is popped was waiting.                                      *)
LEMMA HalfPosition ==
  ASSUME TypeOK, NEW upto \in [Pipe -> Nat], NEW y \in Halves(upto)
  PROVE  /\ y \in Effects /\ y = <<y[1], y[2]>> /\ y[1] \in Pipe /\ y[2] \in Nat
         /\ retired[y[1]] \in Nat /\ retired[y[1]] < y[2] /\ y[2] <= upto[y[1]]
         /\ y[2] \in 1 .. Len(issued[y[1]])
<1>1. PICK p \in Pipe : y \in {p} \X ((retired[p] + 1) .. upto[p])
  BY DEF Halves, Popped
<1>2. y = <<y[1], y[2]>> /\ y[1] = p /\ y[2] \in (retired[p] + 1) .. upto[p]
  BY <1>1
<1>3. retired[p] \in Nat /\ upto[p] \in Nat /\ Len(issued[p]) \in Nat
  BY DEF TypeOK
<1>4. y[2] \in Nat /\ retired[p] < y[2] /\ y[2] <= upto[p] /\ 1 <= y[2]
  BY <1>2, <1>3
<1>5. y[2] <= Len(issued[y[1]]) /\ At(y).kind = "effect"
  BY DEF Halves
<1>6. y[2] \in 1 .. Len(issued[p])
  BY <1>2, <1>3, <1>4, <1>5
<1>7. y \in Effects
  BY <1>1, <1>2, <1>5, <1>6 DEF Effects
<1> QED BY <1>2, <1>3, <1>4, <1>6, <1>7

(* The copies are those of operations issued before.                       *)
LEMMA CopiesType ==
  ASSUME TypeOK, IdsFresh, NEW upto \in [Pipe -> Nat], Copies(upto),
         captured \subseteq 1 .. count, wrongTiles \in BOOLEAN
  PROVE  captured' \subseteq 1 .. count /\ wrongTiles' \in BOOLEAN
<1>1. \A y \in Copying(upto) : At(y).id \in 1 .. count
  BY HalfPosition DEF Copying, IdsFresh
<1>2. wrongTiles' \in BOOLEAN
  BY DEF Copies, CopiesWrong
<1> QED BY <1>1, <1>2 DEF Copies

(* The numbers stay fresh if the new effects have that of the operation    *)
(* just issued.                                                            *)
LEMMA IdsStayFresh ==
  ASSUME TypeOK, IdsFresh, NEW N, Joined(N), count' \in Nat, count <= count',
         \A z \in N : At(z)'.id = count + 1 /\ count' = count + 1
  PROVE  IdsFresh'
<1>1. count \in Nat
  BY DEF TypeOK
<1> SUFFICES ASSUME NEW z \in Effects' PROVE At(z)'.id \in 1 .. count'
  BY DEF IdsFresh
<1>2. CASE z \in Effects
  <2>1. At(z)' = At(z) /\ At(z).id \in 1 .. count
    BY <1>2 DEF Joined, IdsFresh
  <2> QED BY <1>1, <2>1
<1>3. CASE z \in N
  BY <1>1, <1>3
<1> QED BY <1>2, <1>3 DEF Joined

(* The drain before an mmad                                                *)
LEMMA DrainBefore ==
  ASSUME TypeOK, NEW x, NEW keys \in SUBSET Needed(x), NEW upto, upto = DrainedFor(x, keys)
  PROVE  DrainTo(upto) /\ \A k \in keys : Cut(x, k) <= upto[k.set]
BY DrainedForIs, NeededAreKeys

LEMMA QueuesType ==
  ASSUME TypeOK, NEW x \in Macro, MmadQueues(x)
  PROVE  TypeOK'
<1> SUFFICES ASSUME NEW upto, upto = DrainedFor(x, Needed(x)) PROVE TypeOK'
  OBVIOUS
<1>1. DrainTo(upto) /\ \A k \in Needed(x) : Cut(x, k) <= upto[k.set]
  BY DrainBefore
<1>2. /\ Drain(upto) /\ Short(x) = {}
      /\ flagSem' = [k \in Key |-> DrainedFlags(upto)[k] - Needs(x, k)]
      /\ waits' = [k \in Key |-> waits[k] + Needs(x, k)]
      /\ missing' = Checked(x, upto)
      /\ prog' = Written(prog, Half(x, M))
      /\ count' = count + 1
      /\ UNCHANGED <<inOrder, status, blockedOn, capWarned>>
  BY DEF MmadQueues, Issue, Taken
<1>3. LogExtends
  BY QueuesLog
<1>4. /\ retired' = upto /\ mem' \in [Byte -> Nat]
      /\ stale' \in BOOLEAN /\ owed' \subseteq owed
  BY <1>1, <1>2, DrainType
<1>5. /\ issued' \in [Pipe -> Seq(Entry)]
      /\ retired' \in [Pipe -> Nat] /\ \A p \in Pipe : retired'[p] <= Len(issued'[p])
  BY <1>1, <1>3, <1>4, CursorsInLogs
<1>6. flagSem' \in [Key -> Nat]
  <2>1. \A k \in Key : DrainedFlags(upto)[k] - Needs(x, k) \in Nat
    BY <1>1, <1>2, EnoughDrained
  <2> QED BY <1>2, <2>1
<1>7. waits' \in [Key -> Nat]
  <2>1. \A k \in Key : waits[k] + Needs(x, k) \in Nat
    BY NeedsType DEF TypeOK
  <2> QED BY <1>2, <2>1
<1>8. missing' \subseteq STRING \X STRING
  <2>1. Half(x, Mte1).op \in STRING /\ Half(x, M).op \in STRING
    BY HalfFields, MacroFacts
  <2>2. upto \in [Pipe -> Nat]
    BY <1>1 DEF DrainTo
  <2>3. missing \in SUBSET (STRING \X STRING)
    BY DEF TypeOK
  <2> DEFINE seen == Reported(Half(x, Mte1), upto, missing)
  <2>4. seen \in SUBSET (STRING \X STRING)
    BY <2>1, <2>2, <2>3, ReportedType
  <2>5. missing' = Reported(Half(x, M), upto, seen)
    BY <1>2 DEF Checked
  <2> HIDE DEF seen
  <2> QED BY <2>1, <2>2, <2>4, <2>5, ReportedType
<1>9. prog' \in [Byte -> Nat]
  BY <1>2 DEF Written, TypeOK
<1> QED BY <1>2, <1>4, <1>5, <1>6, <1>7, <1>8, <1>9 DEF TypeOK

(* In order nothing is queued, so that what a flag has it has already.     *)
LEMMA EnoughRaised ==
  ASSUME TypeOK, InOrderIsQuiet, inOrder, NEW x, Short(x) = {}, NEW k \in Key
  PROVE  flagSem[k] - Needs(x, k) \in Nat
<1> SUFFICES ASSUME NEW upto, upto = retired PROVE flagSem[k] - Needs(x, k) \in Nat
  OBVIOUS
<1>1. DrainTo(upto)
  BY StayIsDrain
<1>2. k.set \in Pipe
  BY KeyAssumption
<1>3. Cut(x, k) <= upto[k.set]
  BY <1>2, CutFacts DEF InOrderIsQuiet
<1>4. DrainedFlags(upto)[k] - Needs(x, k) \in Nat
  BY <1>1, <1>3, EnoughDrained
<1>5. DrainedFlags(upto)[k] = Have(k, retired[k.set])
  BY <1>1, HaveIs
<1>6. Have(k, retired[k.set]) = flagSem[k]
  <2>1. retired[k.set] \in Nat /\ flagSem[k] \in Nat
    BY <1>2 DEF TypeOK
  <2>2. retired[k.set] <= retired[k.set]
    BY <2>1
  <2>3. Cardinality(TokensUpTo(k, retired[k.set])) \in Nat
    BY <2>1, <2>2, TokensSplit
  <2> QED BY <2>1, <2>3 DEF Have
<1> QED BY <1>4, <1>5, <1>6

LEMMA InOrderType ==
  ASSUME TypeOK, InOrderIsQuiet, NEW x \in Macro, MmadInOrder(x)
  PROVE  TypeOK' /\ InOrderIsQuiet'
<1>1. /\ inOrder /\ Short(x) = {}
      /\ retired' = [p \in Pipe |-> Len(issued'[p])]
      /\ flagSem' = [k \in Key |-> flagSem[k] - Needs(x, k) + Raises(x, k)]
      /\ waits' = [k \in Key |-> waits[k] + Needs(x, k)]
      /\ Complete(mem, [reads |-> x.tiles \cup Half(x, M).reads, writes |-> x.acc], stale)
      /\ prog' = Written(prog, Half(x, M))
      /\ count' = count + 1
      /\ UNCHANGED <<inOrder, status, blockedOn, missing, owed, capWarned>>
  BY DEF MmadInOrder, Issue, Taken
<1>2. issued' \in [Pipe -> Seq(Entry)]
  BY InOrderLog DEF LogExtends
<1>3. retired' \in [Pipe -> Nat] /\ \A p \in Pipe : retired'[p] = Len(issued'[p])
  <2>1. \A p \in Pipe : Len(issued'[p]) \in Nat
    BY <1>2
  <2> QED BY <1>1, <2>1
<1>4. \A p \in Pipe : retired'[p] <= Len(issued'[p])
  BY <1>3
<1>5. flagSem' \in [Key -> Nat]
  <2>1. ASSUME NEW k \in Key PROVE flagSem[k] - Needs(x, k) + Raises(x, k) \in Nat
    <3>1. flagSem[k] - Needs(x, k) \in Nat
      BY <1>1, EnoughRaised
    <3>2. Raises(x, k) \in Nat
      BY NeedsType
    <3> QED BY <3>1, <3>2
  <2> QED BY <1>1, <2>1
<1>6. waits' \in [Key -> Nat]
  <2>1. \A k \in Key : waits[k] + Needs(x, k) \in Nat
    BY NeedsType DEF TypeOK
  <2> QED BY <1>1, <2>1
<1>7. mem' \in [Byte -> Nat] /\ prog' \in [Byte -> Nat]
  BY <1>1 DEF Complete, Written, TypeOK
<1>8. stale' \in BOOLEAN
  BY <1>1 DEF Complete
<1>9. TypeOK'
  BY <1>1, <1>2, <1>3, <1>4, <1>5, <1>6, <1>7, <1>8 DEF TypeOK
<1> QED BY <1>3, <1>9 DEF InOrderIsQuiet

(* The flags whose pipes have been drained when an mmad parks              *)
LookedAt(x) == {k \in Needed(x) : k = FirstShort(x) \/ KeyBefore(k, FirstShort(x))}

LEMMA ParksType ==
  ASSUME TypeOK, NEW x \in Macro, MmadParks(x)
  PROVE  /\ TypeOK'
         /\ \E upto : DrainTo(upto) /\ Drain(upto) /\ Copies(upto)
                      /\ flagSem' = DrainedFlags(upto)
<1> SUFFICES ASSUME NEW upto, upto = DrainedFor(x, LookedAt(x))
             PROVE  /\ TypeOK'
                    /\ DrainTo(upto) /\ Drain(upto) /\ Copies(upto)
                    /\ flagSem' = DrainedFlags(upto)
  OBVIOUS
<1>1. DrainTo(upto)
  BY DrainBefore DEF LookedAt
<1>2. /\ Drain(upto) /\ Copies(upto) /\ Short(x) # {}
      /\ flagSem' = [k \in Key |-> DrainedFlags(upto)[k] - 0]
      /\ status' = "BlockedOnFlag" /\ blockedOn' = {FirstShort(x)}
      /\ UNCHANGED <<inOrder, count, issued, waits, missing, prog, capWarned>>
  BY DEF MmadParks, ParkedTake, LookedAt
<1>3. /\ retired' = upto /\ mem' \in [Byte -> Nat]
      /\ stale' \in BOOLEAN /\ owed' \subseteq owed
  BY <1>1, <1>2, DrainType
<1>4. /\ issued' \in [Pipe -> Seq(Entry)]
      /\ retired' \in [Pipe -> Nat] /\ \A p \in Pipe : retired'[p] <= Len(issued'[p])
  BY <1>1, <1>2, <1>3, CursorsInLogs, UnchangedExtends
<1>5. flagSem' = DrainedFlags(upto) /\ flagSem' \in [Key -> Nat]
  <2>1. DrainedFlags(upto) \in [Key -> Nat]
    BY <1>1, DrainedFlagsType
  <2>2. \A k \in Key : DrainedFlags(upto)[k] - 0 = DrainedFlags(upto)[k]
    BY <2>1
  <2>3. DrainedFlags(upto) = [k \in Key |-> DrainedFlags(upto)[k]]
    BY <2>1
  <2> QED BY <1>2, <2>1, <2>2, <2>3
<1>6. blockedOn' \subseteq Key
  BY <1>2, FirstShortIsShort, NeededAreKeys
<1>7. TypeOK'
  BY <1>2, <1>3, <1>4, <1>5, <1>6 DEF TypeOK
<1> QED BY <1>1, <1>2, <1>5, <1>7
-----------------------------------------------------------------------------
(***************************************************************************)
(* The books of the flags                                                  *)
(***************************************************************************)

(* Two things of which some are counted, c and d times                     *)
LEMMA PairCount ==
  ASSUME NEW a, NEW b, a # b, NEW G, NEW c \in {0, 1}, NEW d \in {0, 1},
         c = 1 <=> a \in G, d = 1 <=> b \in G
  PROVE  Cardinality({a, b} \cap G) = c + d
<1> DEFINE S == {a, b} \cap G
<1>1. CASE a \in G /\ b \in G
  <2>1. S = {a} \cup {b}
    BY <1>1
  <2>2. Cardinality({a}) = 1 /\ IsFiniteSet({a}) /\ b \notin {a}
    BY FS_Singleton
  <2>3. Cardinality({a} \cup {b}) = 2
    BY <2>2, FS_AddElement
  <2> QED BY <1>1, <2>1, <2>3
<1>2. CASE a \in G /\ b \notin G
  <2>1. S = {a}
    BY <1>2
  <2> QED BY <1>2, <2>1, FS_Singleton
<1>3. CASE a \notin G /\ b \in G
  <2>1. S = {b}
    BY <1>3
  <2> QED BY <1>3, <2>1, FS_Singleton
<1>4. CASE a \notin G /\ b \notin G
  <2>1. S = {}
    BY <1>4
  <2> QED BY <1>4, <2>1, FS_EmptySet
<1> QED BY <1>1, <1>2, <1>3, <1>4

(* A stretch of a + b places after n, of which the first counts c times    *)
(* and the last d times                                                    *)
Stretch(n, l, G, a, b, c, d) ==
  /\ a <= 1 /\ b <= 1 /\ c <= a /\ d <= b /\ l = n + a + b
  /\ a = 1 => (n + 1 \in G <=> c = 1)
  /\ b = 1 => (n + a + 1 \in G <=> d = 1)

LEMMA StretchCount ==
  ASSUME NEW n \in Nat, NEW l \in Nat, NEW G,
         NEW a \in Nat, NEW b \in Nat, NEW c \in Nat, NEW d \in Nat,
         Stretch(n, l, G, a, b, c, d)
  PROVE  Cardinality(((n + 1) .. l) \cap G) = c + d
<1> USE DEF Stretch
<1> DEFINE L == ((n + 1) .. l) \cap G
<1>1. CASE a = 1 /\ b = 1
  <2>1. L = {n + 1, n + 2} \cap G /\ n + 1 # n + 2
    BY <1>1
  <2>2. (c = 1 <=> n + 1 \in G) /\ (d = 1 <=> n + 2 \in G)
    BY <1>1
  <2> QED BY <2>1, <2>2, PairCount
<1>2. CASE a + b = 1
  <2>1. \A i : i \in (n + 1) .. l <=> i = n + 1
    BY <1>2
  <2>2. n + 1 \in G <=> c + d = 1
    BY <1>2
  <2>3. n + 1 \in G => L = {n + 1}
    BY <2>1
  <2>4. n + 1 \notin G => L = {}
    BY <2>1
  <2>5. c + d \in {0, 1}
    BY <1>2
  <2> QED BY <2>2, <2>3, <2>4, <2>5, FS_Singleton, FS_EmptySet
<1>3. CASE a = 0 /\ b = 0
  <2>1. L = {}
    BY <1>3
  <2> QED BY <1>3, <2>1, FS_EmptySet
<1> QED BY <1>1, <1>2, <1>3

(* One stretch of at most one element after another                        *)
LEMMA PairSeq ==
  ASSUME NEW A, NEW B, NEW q \in Seq(Entry), NEW t \in Seq(Entry),
         Len(q) \in {0, 1}, Len(t) \in {0, 1},
         Len(q) = 1 => q[1] = A, Len(t) = 1 => t[1] = B
  PROVE  /\ Len(q \o t) = Len(q) + Len(t)
         /\ Len(q) = 1 => (q \o t)[1] = A
         /\ Len(t) = 1 => (q \o t)[Len(q) + 1] = B
<1>1. /\ Len(q \o t) = Len(q) + Len(t)
      /\ \A i \in 1 .. Len(q) + Len(t) :
           (q \o t)[i] = IF i <= Len(q) THEN q[i] ELSE t[i - Len(q)]
  BY ConcatProperties
<1>2. ASSUME Len(q) = 1 PROVE (q \o t)[1] = A
  <2>1. 1 \in 1 .. Len(q) + Len(t) /\ 1 <= Len(q)
    BY <1>2
  <2> QED BY <1>1, <1>2, <2>1
<1>3. ASSUME Len(t) = 1 PROVE (q \o t)[Len(q) + 1] = B
  <2> DEFINE i == Len(q) + 1
  <2>1. i \in 1 .. Len(q) + Len(t) /\ ~(i <= Len(q)) /\ i - Len(q) = 1
    BY <1>3
  <2> HIDE DEF i
  <2>2. (q \o t)[i] = t[1]
    BY <1>1, <2>1
  <2> QED BY <1>3, <2>2 DEF i
<1> QED BY <1>1, <1>2, <1>3

(* How often flag k is raised by two slots                                 *)
Raisers(x, s, t, k) == {u \in UsedSlots(x, {s, t}) : KeyOf(x, u) = k}

(* The tokens of flag k a step adds to the log of pipe p                   *)
Gained(p, k) == {i \in (Len(issued[p]) + 1) .. Len(issued'[p]) : IsToken(p, i, k)'}

(* In order, the log of a pipe gains as many tokens of a flag as the slots *)
(* that are queued there name it.                                          *)
LEMMA TokensOfPair ==
  ASSUME TypeOK, NEW x \in Macro, NEW s \in UsableSlot, NEW t \in UsableSlot, s # t,
         NEW p \in Pipe, issued'[p] = issued[p] \o (TokenOf(x, s) \o TokenOf(x, t)),
         NEW k \in Key
  PROVE  Cardinality(Gained(p, k)) = Cardinality(Raisers(x, s, t, k))
<1> DEFINE A == Token(KeyOf(x, s))
           B == Token(KeyOf(x, t))
           H == {u \in UsableSlot : x.slots[u] >= 0 /\ KeyOf(x, u) = k}
           G == {i \in Nat : IsToken(p, i, k)'}
<1>1. PICK q \in Seq(Entry) : q = TokenOf(x, s)
  BY TokenOfIs DEF AllTokens
<1>2. PICK r \in Seq(Entry) : r = TokenOf(x, t)
  BY TokenOfIs DEF AllTokens
<1>3. PICK a \in {0, 1} : a = Len(q) /\ (a = 1 <=> x.slots[s] >= 0) /\ (a = 1 => q[1] = A)
  <2>1. CASE x.slots[s] >= 0
    <3>1. q = <<A>>
      BY <1>1, <2>1, TokenOfIs
    <3> HIDE DEF A
    <3>2. Len(q) = 1 /\ q[1] = A
      BY <3>1
    <3> QED BY <2>1, <3>2
  <2>2. CASE ~(x.slots[s] >= 0)
    <3>1. q = << >>
      BY <1>1, <2>2, TokenOfIs
    <3> HIDE DEF A
    <3>2. Len(q) = 0
      BY <3>1
    <3> QED BY <2>2, <3>2
  <2> QED BY <2>1, <2>2
<1>4. PICK b \in {0, 1} : b = Len(r) /\ (b = 1 <=> x.slots[t] >= 0) /\ (b = 1 => r[1] = B)
  <2>1. CASE x.slots[t] >= 0
    <3>1. r = <<B>>
      BY <1>2, <2>1, TokenOfIs
    <3> HIDE DEF B
    <3>2. Len(r) = 1 /\ r[1] = B
      BY <3>1
    <3> QED BY <2>1, <3>2
  <2>2. CASE ~(x.slots[t] >= 0)
    <3>1. r = << >>
      BY <1>2, <2>2, TokenOfIs
    <3> HIDE DEF B
    <3>2. Len(r) = 0
      BY <3>1
    <3> QED BY <2>2, <3>2
  <2> QED BY <2>1, <2>2
<1>5. a \in Nat /\ b \in Nat
  BY <1>3, <1>4
<1>6. PICK c \in {0, 1} : c = 1 <=> s \in H
  <2> HIDE DEF H
  <2> QED OBVIOUS
<1>7. PICK d \in {0, 1} : d = 1 <=> t \in H
  <2> HIDE DEF H
  <2> QED OBVIOUS
<1>8. Cardinality(Raisers(x, s, t, k)) = c + d
  <2>1. Raisers(x, s, t, k) = {s, t} \cap H
    BY DEF Raisers, UsedSlots
  <2> HIDE DEF H
  <2> QED BY <1>6, <1>7, <2>1, PairCount
<1>9. /\ A.kind = "token" /\ (A.key = k <=> KeyOf(x, s) = k)
      /\ B.kind = "token" /\ (B.key = k <=> KeyOf(x, t) = k)
  BY DEF Token
<1>10. (s \in H <=> a = 1 /\ KeyOf(x, s) = k) /\ (t \in H <=> b = 1 /\ KeyOf(x, t) = k)
  BY <1>3, <1>4
<1> HIDE DEF A, B, H
<1> DEFINE z == q \o r
<1>11. /\ Len(z) = a + b /\ z \in Seq(Entry)
       /\ a = 1 => z[1] = A
       /\ b = 1 => z[a + 1] = B
  <2>1. /\ Len(q) = 1 => q[1] = A
        /\ Len(r) = 1 => r[1] = B
        /\ Len(q) \in {0, 1} /\ Len(r) \in {0, 1}
    BY <1>3, <1>4
  <2>2. z \in Seq(Entry)
    BY ConcatProperties
  <2>3. /\ Len(z) = Len(q) + Len(r)
        /\ Len(q) = 1 => z[1] = A
        /\ Len(r) = 1 => z[Len(q) + 1] = B
    BY <2>1, PairSeq
  <2> QED BY <1>3, <1>4, <2>2, <2>3
<1>12. issued'[p] = issued[p] \o z /\ issued[p] \in Seq(Entry)
  BY <1>1, <1>2 DEF TypeOK
<1> HIDE DEF z
<1>13. PICK n \in Nat : n = Len(issued[p])
  BY <1>12
<1>14. PICK l \in Nat : l = Len(issued'[p])
  BY <1>11, <1>12, ConcatProperties
<1>15. l = n + a + b /\ \A i \in 1 .. a + b : issued'[p][n + i] = z[i]
  <2>1. issued[p] \in Seq(Entry)
    BY <1>12
  <2>2. /\ Len(issued[p] \o z) = Len(issued[p]) + Len(z)
        /\ \A i \in 1 .. Len(issued[p]) + Len(z) :
             (issued[p] \o z)[i] = IF i <= Len(issued[p]) THEN issued[p][i]
                                   ELSE z[i - Len(issued[p])]
    BY <1>11, <2>1, ConcatProperties
  <2>3. /\ l = n + a + b
        /\ \A i \in 1 .. n + a + b : issued'[p][i] = IF i <= n THEN issued[p][i] ELSE z[i - n]
    <3>1. Len(issued[p]) = n /\ Len(z) = a + b /\ l = Len(issued'[p])
      BY <1>11, <1>13, <1>14
    <3>2. n + (a + b) = n + a + b
      BY <1>5
    <3> QED BY <1>12, <2>2, <3>1, <3>2
  <2>4. ASSUME NEW i \in 1 .. a + b PROVE issued'[p][n + i] = z[i]
    <3> DEFINE j == n + i
    <3>1. j \in 1 .. n + a + b /\ ~(j <= n) /\ j - n = i
      OBVIOUS
    <3> HIDE DEF j
    <3>2. issued'[p][j] = z[i]
      BY <2>3, <3>1
    <3> QED BY <3>2 DEF j
  <2> QED BY <2>3, <2>4
<1>16. ASSUME NEW i \in 1 .. a + b
       PROVE  n + i \in G <=> z[i].kind = "token" /\ z[i].key = k
  <2>1. issued'[p][n + i] = z[i]
    BY <1>15
  <2>2. n + i \in Nat
    BY <1>5
  <2> QED BY <2>1, <2>2 DEF IsToken
<1> HIDE DEF G
<1>17. a = 1 => (n + 1 \in G <=> c = 1)
  <2> SUFFICES ASSUME a = 1 PROVE n + 1 \in G <=> c = 1
    OBVIOUS
  <2>1. 1 \in 1 .. a + b
    OBVIOUS
  <2>2. n + 1 \in G <=> z[1].kind = "token" /\ z[1].key = k
    BY <1>16, <2>1
  <2> QED BY <1>6, <1>9, <1>10, <1>11, <2>2
<1>18. b = 1 => (n + a + 1 \in G <=> d = 1)
  <2> SUFFICES ASSUME b = 1 PROVE n + a + 1 \in G <=> d = 1
    OBVIOUS
  <2>1. a + 1 \in 1 .. a + b /\ n + (a + 1) = n + a + 1
    BY <1>5
  <2>2. n + (a + 1) \in G <=> z[a + 1].kind = "token" /\ z[a + 1].key = k
    BY <1>16, <2>1
  <2> QED BY <1>7, <1>9, <1>10, <1>11, <2>1, <2>2
<1>19. Cardinality(((n + 1) .. l) \cap G) = c + d
  <2>1. a <= 1 /\ b <= 1 /\ c <= a /\ d <= b
    BY <1>6, <1>7, <1>10
  <2>2. a \in Nat /\ b \in Nat /\ c \in Nat /\ d \in Nat
    BY <1>5
  <2>3. l = n + a + b
    BY <1>15
  <2>4. Stretch(n, l, G, a, b, c, d)
    BY <1>17, <1>18, <2>1, <2>3 DEF Stretch
  <2> QED BY <2>2, <2>4, StretchCount
<1>20. {i \in (n + 1) .. l : IsToken(p, i, k)'} = ((n + 1) .. l) \cap G
  <2>1. \A i \in (n + 1) .. l : i \in Nat
    OBVIOUS
  <2> QED BY <2>1 DEF G
<1> QED BY <1>8, <1>13, <1>14, <1>19, <1>20 DEF Gained

(* What the two slots of each pipe raise is all an mmad raises.            *)
LEMMA RaisesAre ==
  ASSUME NEW x \in Macro, NEW k \in Key
  PROVE  /\ k.set = Mte1 => Raises(x, k) = Cardinality(Raisers(x, 2, 3, k))
         /\ k.set = M => Raises(x, k) = Cardinality(Raisers(x, 5, 6, k))
         /\ k.set \notin {M, Mte1} => Raises(x, k) = 0
<1>1. /\ KeyOf(x, 2).set = Mte1 /\ KeyOf(x, 3).set = Mte1
      /\ KeyOf(x, 5).set = M /\ KeyOf(x, 6).set = M /\ M # Mte1
  BY MacroFacts DEF KeyOf
<1> DEFINE R == {s \in UsedSlots(x, {2, 3, 5, 6}) : KeyOf(x, s) = k}
<1>2. k.set = Mte1 => R = Raisers(x, 2, 3, k)
  BY <1>1 DEF Raisers, UsedSlots
<1>3. k.set = M => R = Raisers(x, 5, 6, k)
  BY <1>1 DEF Raisers, UsedSlots
<1>4. k.set \notin {M, Mte1} => R = {}
  BY <1>1 DEF UsedSlots
<1> QED BY <1>2, <1>3, <1>4, FS_EmptySet DEF Raises
(* Taking what is needed after the drain balances.                         *)
LEMMA QueuesConserves ==
  ASSUME TypeOK, FlagConservation, NEW x \in Macro, MmadQueues(x)
  PROVE  FlagConservation'
<1> SUFFICES ASSUME NEW upto, upto = DrainedFor(x, Needed(x)), NEW k \in Key
             PROVE  flagSem'[k] + waits'[k] = Cardinality(TokensUpTo(k, retired[k.set])')
  BY DEF FlagConservation
<1>1. DrainTo(upto)
  BY DrainBefore
<1>2. /\ retired' = upto
      /\ flagSem'[k] = DrainedFlags(upto)[k] - Needs(x, k)
      /\ waits'[k] = waits[k] + Needs(x, k)
  BY DEF MmadQueues, Drain, Taken
<1>3. LogExtends /\ Needs(x, k) \in Int
  BY QueuesLog, NeedsType
<1> QED BY <1>1, <1>2, <1>3, BooksBalance

(* In order, what it raises is what its log gains.                         *)
LEMMA InOrderConserves ==
  ASSUME TypeOK, FlagConservation, InOrderIsQuiet, NEW x \in Macro, MmadInOrder(x)
  PROVE  FlagConservation'
<1> SUFFICES ASSUME NEW k \in Key
             PROVE  flagSem'[k] + waits'[k] = Cardinality(TokensUpTo(k, retired[k.set])')
  BY DEF FlagConservation
<1>1. /\ flagSem'[k] = flagSem[k] - Needs(x, k) + Raises(x, k)
      /\ waits'[k] = waits[k] + Needs(x, k)
      /\ \A p \in Pipe : retired'[p] = Len(issued'[p])
      /\ inOrder
  BY DEF MmadInOrder, Taken
<1>2. k.set \in Pipe
  BY KeyAssumption
<1>3. PICK n \in Nat : n = Len(issued[k.set])
  BY <1>2 DEF TypeOK
<1>4. LogExtends
  BY InOrderLog
<1>5. PICK l \in Nat : l = Len(issued'[k.set])
  BY <1>2, <1>4 DEF LogExtends
<1>6. n <= l /\ retired[k.set] = n /\ retired'[k.set] = l
  BY <1>1, <1>2, <1>3, <1>4, <1>5 DEF LogExtends, InOrderIsQuiet
<1> DEFINE old == TokensUpTo(k, n)
           new == {i \in (n + 1) .. l : IsToken(k.set, i, k)'}
<1>7. old = {i \in 1 .. n : IsToken(k.set, i, k)'}
  <2>1. TokensUpTo(k, n)' = old
    BY <1>3, <1>4, <1>6, TokensKept
  <2> QED BY <2>1 DEF TokensUpTo
<1>8. TokensUpTo(k, retired[k.set])' = old \cup new /\ old \cap new = {}
  <2>1. TokensUpTo(k, retired[k.set])' = {i \in 1 .. l : IsToken(k.set, i, k)'}
    BY <1>6 DEF TokensUpTo
  <2>2. \A i : i \in 1 .. l <=> i \in 1 .. n \/ i \in (n + 1) .. l
    BY <1>6
  <2>3. \A i : ~(i \in 1 .. n /\ i \in (n + 1) .. l)
    OBVIOUS
  <2> QED BY <1>7, <2>1, <2>2, <2>3
<1>9. IsFiniteSet(old) /\ IsFiniteSet(new)
  <2>1. 1 \in Int /\ n \in Int /\ n + 1 \in Int /\ l \in Int
    OBVIOUS
  <2>2. IsFiniteSet((n + 1) .. l) /\ IsFiniteSet(1 .. n)
    BY <2>1, FS_Interval
  <2>3. new \subseteq (n + 1) .. l /\ old \subseteq 1 .. n
    BY DEF TokensUpTo
  <2> HIDE DEF old, new
  <2> QED BY <2>2, <2>3, FS_Subset
<1>10. Cardinality(new) = Raises(x, k)
  <2>1. Cardinality(Gained(k.set, k)) = Raises(x, k)
    <3>1. 2 \in UsableSlot /\ 3 \in UsableSlot /\ 5 \in UsableSlot /\ 6 \in UsableSlot
      BY DEF UsableSlot, Slot
    <3>2. CASE k.set = Mte1
      <4>1. issued'[k.set] = issued[k.set] \o (TokenOf(x, 2) \o TokenOf(x, 3))
        BY <3>2, InOrderLog DEF Released
      <4>2. Cardinality(Gained(k.set, k)) = Cardinality(Raisers(x, 2, 3, k))
        <5>1. 2 # 3
          OBVIOUS
        <5> HIDE DEF old, new
        <5> QED BY <1>2, <3>1, <4>1, <5>1, TokensOfPair
      <4> QED BY <3>2, <4>2, RaisesAre
    <3>3. CASE k.set = M
      <4>1. issued'[k.set] = issued[k.set] \o (TokenOf(x, 5) \o TokenOf(x, 6))
        BY <3>3, InOrderLog DEF Published
      <4>2. Cardinality(Gained(k.set, k)) = Cardinality(Raisers(x, 5, 6, k))
        <5>1. 5 # 6
          OBVIOUS
        <5> HIDE DEF old, new
        <5> QED BY <1>2, <3>1, <4>1, <5>1, TokensOfPair
      <4> QED BY <3>3, <4>2, RaisesAre
    <3>4. CASE k.set \notin {M, Mte1}
      <4>1. issued'[k.set] = issued[k.set]
        BY <1>2, <3>4, InOrderLog
      <4>2. n = l
        BY <1>3, <1>5, <4>1
      <4>3. new = {}
        BY <4>2
      <4> QED BY <1>3, <1>5, <3>4, <4>3, RaisesAre, FS_EmptySet DEF Gained
    <3> QED BY <3>2, <3>3, <3>4
  <2> QED BY <1>3, <1>5, <2>1 DEF Gained
<1> HIDE DEF old, new
<1>11. Cardinality(old) \in Nat /\ Cardinality(new) \in Nat
  BY <1>9, FS_CardinalityType
<1>12. Cardinality(old \cup new) = Cardinality(old) + Cardinality(new)
  <2>1. old \cap new = {} /\ Cardinality({}) = 0
    BY <1>8, FS_EmptySet
  <2>2. Cardinality(old \cup new) =
          Cardinality(old) + Cardinality(new) - Cardinality(old \cap new)
    BY <1>9, FS_Union
  <2>3. Cardinality(old \cap new) = 0
    BY <2>1
  <2>4. PICK c \in Nat : c = Cardinality(old)
    BY <1>11
  <2>5. PICK d \in Nat : d = Cardinality(new)
    BY <1>11
  <2>6. Cardinality(old \cup new) = c + d - 0
    BY <2>2, <2>3, <2>4, <2>5
  <2>7. c + d - 0 = c + d
    OBVIOUS
  <2> QED BY <2>4, <2>5, <2>6, <2>7
<1>13. flagSem[k] + waits[k] = Cardinality(old)
  BY <1>6 DEF FlagConservation, old
<1>14. flagSem[k] \in Nat /\ waits[k] \in Nat /\ Needs(x, k) \in Nat /\ Raises(x, k) \in Nat
  BY NeedsType DEF TypeOK
<1> QED BY <1>1, <1>8, <1>10, <1>11, <1>12, <1>13, <1>14

(* Parking takes nothing.                                                  *)
LEMMA ParksConserves ==
  ASSUME TypeOK, FlagConservation, NEW x \in Macro, MmadParks(x)
  PROVE  FlagConservation'
<1> SUFFICES ASSUME NEW k \in Key
             PROVE  flagSem'[k] + waits'[k] = Cardinality(TokensUpTo(k, retired[k.set])')
  BY DEF FlagConservation
<1>1. PICK upto : /\ DrainTo(upto) /\ Drain(upto) /\ Copies(upto)
                  /\ flagSem' = DrainedFlags(upto)
  BY ParksType
<1>2. retired' = upto /\ issued' = issued /\ waits' = waits
  BY <1>1 DEF MmadParks, Drain
<1>3. LogExtends /\ 0 \in Int
  BY <1>2, UnchangedExtends
<1>4. flagSem'[k] = DrainedFlags(upto)[k] - 0 /\ waits'[k] = waits[k] + 0
  <2>1. DrainedFlags(upto)[k] \in Nat /\ waits[k] \in Nat
    BY <1>1, DrainedFlagsType DEF TypeOK
  <2> QED BY <1>1, <1>2, <2>1
<1> QED BY <1>1, <1>2, <1>3, <1>4, BooksBalance, Zenon

(* A flag is short when all there is of it, raised, queued or taken, falls *)
(* short of what was taken and is needed now.                              *)
LEMMA ShortIsUnset ==
  ASSUME TypeOK, FlagConservation, NEW x, NEW k \in Short(x)
  PROVE  Cardinality(TokensUpTo(k, Len(issued[k.set]))) - waits[k] < Needs(x, k)
<1>1. k \in Key /\ Have(k, Len(issued[k.set])) < Needs(x, k)
  BY DEF Short, Needed
<1>2. k.set \in Pipe
  BY <1>1, KeyAssumption
<1>3. PICK r \in Nat : r = retired[k.set]
  BY <1>2 DEF TypeOK
<1>4. PICK l \in Nat : l = Len(issued[k.set])
  BY <1>2 DEF TypeOK
<1>5. Cardinality(TokensUpTo(k, r)) \in Nat /\ Cardinality(TokensUpTo(k, l)) \in Nat
  <2>1. r <= r /\ l <= l
    OBVIOUS
  <2> QED BY <1>1, <2>1, TokensSplit
<1>6. flagSem[k] \in Nat /\ waits[k] \in Nat /\ Needs(x, k) \in Nat
  BY <1>1, NeedsType DEF TypeOK
<1>7. flagSem[k] + waits[k] = Cardinality(TokensUpTo(k, r))
  BY <1>1, <1>3 DEF FlagConservation
<1>8. flagSem[k] + Cardinality(TokensUpTo(k, l)) - Cardinality(TokensUpTo(k, r)) < Needs(x, k)
  BY <1>1, <1>3, <1>4 DEF Have
<1>9. Cardinality(TokensUpTo(k, l)) - waits[k] < Needs(x, k)
  BY <1>5, <1>6, <1>7, <1>8
<1> QED BY <1>4, <1>9

(* Having parked, an mmad is owed a flag and has taken nothing.            *)
LEMMA ParksHandsEmpty ==
  ASSUME TypeOK, FlagConservation, NEW x \in Macro, MmadParks(x)
  PROVE  ParksEmptyHanded'
<1>1. TypeOK' /\ FlagConservation'
  BY ParksType, ParksConserves
<1>2. /\ parked' = {x} /\ blockedOn' = {FirstShort(x)} /\ Short(x) # {}
      /\ issued' = issued /\ waits' = waits
  BY DEF MmadParks
<1>3. FirstShort(x) \in Short(x)
  BY <1>2, FirstShortIsShort
<1>4. PICK k \in Key : k = FirstShort(x)
  BY <1>3 DEF Short, Needed
<1>5. Cardinality(TokensUpTo(k, Len(issued[k.set]))) - waits[k] < Needs(x, k)
  BY <1>3, <1>4, ShortIsUnset
<1>6. Cardinality(TokensUpTo(k, Len(issued[k.set]))') - waits'[k] < Needs(x, k)
  <2>1. TokensUpTo(k, Len(issued[k.set]))' = TokensUpTo(k, Len(issued[k.set]))
    BY <1>2 DEF TokensUpTo, IsToken
  <2> QED BY <1>2, <1>5, <2>1
<1>7. ASSUME NEW l \in Needed(x)
      PROVE  flagSem'[l] = Cardinality(TokensUpTo(l, retired[l.set])') - waits'[l]
  <2>1. l \in Key
    BY DEF Needed
  <2>2. flagSem'[l] \in Nat /\ waits'[l] \in Nat
    BY <1>1, <2>1 DEF TypeOK
  <2>3. flagSem'[l] + waits'[l] = Cardinality(TokensUpTo(l, retired[l.set])')
    BY <1>1, <2>1 DEF FlagConservation
  <2> QED BY <2>2, <2>3
<1> QED BY <1>2, <1>4, <1>6, <1>7 DEF ParksEmptyHanded
-----------------------------------------------------------------------------
(* Every operation stays numbered, whatever the step.                      *)
LEMMA StayFresh ==
  ASSUME TypeOK, TypeOK', IdsFresh, Joined({}), count <= count'
  PROVE  IdsFresh'
<1>1. count' \in Nat
  BY DEF TypeOK
<1> QED BY <1>1, IdsStayFresh

LEMMA EngineIds ==
  ASSUME TypeOK, TypeOK', IdsFresh, [Next]_vars
  PROVE  IdsFresh' /\ count' \in Nat /\ count <= count'
<1>1. count \in Nat /\ count' \in Nat
  BY DEF TypeOK
<1>2. count <= count'
  <2>1. count' = count \/ count' = count + 1
    BY DEF Next, vars, IssueInOrder, IssueDeferred, IssueNow, SetFlag, Issue, WaitRaised,
           WaitDrains, WaitBlocks, PipeBarrier, Return
  <2> QED BY <1>1, <2>1
<1>3. CASE Joined({})
  BY <1>1, <1>2, <1>3, StayFresh
<1>4. ASSUME NEW ins \in Instr, DeferredJoins(ins) PROVE IdsFresh'
  <2>1. PICK n \in Nat : Joined({<<ins.pipe, n>>}) /\ At(<<ins.pipe, n>>)'.id = count + 1
    BY <1>4 DEF DeferredJoins
  <2>2. count' = count + 1
    BY <1>4 DEF DeferredJoins, IssueDeferred, Issue
  <2> DEFINE N == {<<ins.pipe, n>>}
  <2>3. Joined(N) /\ \A z \in N : At(z)'.id = count + 1 /\ count' = count + 1
    BY <2>1, <2>2
  <2> HIDE DEF N
  <2> QED BY <1>1, <1>2, <2>3, IdsStayFresh
<1> QED BY <1>1, <1>2, <1>3, <1>4, EngineJoins

LEMMA MacroIds ==
  ASSUME TypeOK, TypeOK', IdsFresh, NEW x \in Macro,
         MmadQueues(x) \/ MmadInOrder(x) \/ MmadParks(x)
  PROVE  IdsFresh' /\ count' \in Nat /\ count <= count'
<1>1. count \in Nat /\ count' \in Nat
  BY DEF TypeOK
<1>2. count' = count \/ count' = count + 1
  BY DEF MmadQueues, MmadInOrder, MmadParks, Issue
<1>3. count <= count'
  BY <1>1, <1>2
<1>4. CASE MmadQueues(x)
  <2>1. M \in Pipe /\ Mte1 \in Pipe
    BY MacroFacts
  <2>2. PICK m \in Nat : m = Len(issued[Mte1])
    BY <2>1 DEF TypeOK
  <2>3. PICK n \in Nat : n = Len(issued[M])
    BY <2>1 DEF TypeOK
  <2> DEFINE N == {<<Mte1, m + 1>>, <<M, n + 1>>}
  <2>4. /\ Joined(N)
        /\ At(<<Mte1, m + 1>>)' = Queued(Half(x, Mte1))
        /\ At(<<M, n + 1>>)' = Queued(Half(x, M))
    BY <1>4, <2>2, <2>3, HalvesJoin
  <2>5. count' = count + 1
    BY <1>4 DEF MmadQueues, Issue
  <2>6. \A z \in N : At(z)'.id = count + 1 /\ count' = count + 1
    BY <2>4, <2>5 DEF Queued
  <2> HIDE DEF N
  <2> QED BY <1>1, <1>3, <2>4, <2>6, IdsStayFresh
<1>5. CASE MmadInOrder(x)
  BY <1>1, <1>3, <1>5, InOrderLog, TokensStay, StayJoins, StayFresh
<1>6. CASE MmadParks(x)
  <2>1. issued' = issued
    BY <1>6 DEF MmadParks
  <2> QED BY <1>1, <1>3, <2>1, UnchangedStays, StayJoins, StayFresh
<1> QED BY <1>1, <1>3, <1>4, <1>5, <1>6

(* A drain before an mmad is one of the engine's.                          *)
LEMMA MacroDrains ==
  ASSUME TypeOK, NEW x \in Macro, MmadQueues(x) \/ MmadParks(x)
  PROVE  \E upto : DrainTo(upto) /\ Drain(upto) /\ Copies(upto)
<1>1. CASE MmadQueues(x)
  BY <1>1, DrainBefore DEF MmadQueues
<1>2. CASE MmadParks(x)
  BY <1>2, ParksType
<1> QED BY <1>1, <1>2

(* The part of the invariant that is about types and flags                 *)
Halted == parked # {} => status = "BlockedOnFlag"

FlagInv ==
  /\ MmadTypeOK /\ IdsFresh /\ InOrderIsQuiet
  /\ FlagConservation
  /\ Halted /\ ParksEmptyHanded

LEMMA MmadInitFlags ==
  ASSUME MmadInit
  PROVE  FlagInv
<1>1. TypeOK /\ FlagConservation
  BY InitType, InitConserves DEF MmadInit
<1>2. InOrderIsQuiet
  BY DEF MmadInit, Init, InOrderIsQuiet
<1>3. MmadTypeOK /\ Halted /\ ParksEmptyHanded
  BY <1>1 DEF MmadInit, MmadTypeOK, Halted, ParksEmptyHanded
<1>4. IdsFresh
  <2>1. \A p \in Pipe : Len(issued[p]) = 0
    BY DEF MmadInit, Init
  <2>2. \A p \in Pipe : 1 .. Len(issued[p]) = {}
    BY <2>1
  <2> QED BY <2>2 DEF IdsFresh, Effects
<1> QED BY <1>1, <1>2, <1>3, <1>4 DEF FlagInv

LEMMA MmadNextFlags ==
  ASSUME FlagInv, [MmadNext]_mmadVars
  PROVE  FlagInv'
<1>1. /\ TypeOK /\ IdsFresh /\ InOrderIsQuiet /\ FlagConservation /\ Halted /\ ParksEmptyHanded
      /\ captured \subseteq 1 .. count /\ wrongTiles \in BOOLEAN /\ parked \subseteq Macro
      /\ count \in Nat
  BY DEF FlagInv, MmadTypeOK, TypeOK
<1>2. CASE UNCHANGED mmadVars
  <2>1. [Next]_vars /\ UNCHANGED <<captured, wrongTiles, parked, status, count>>
    BY <1>2 DEF mmadVars, vars
  <2>2. TypeOK' /\ FlagConservation' /\ InOrderIsQuiet'
    BY <1>1, <2>1, NextType, NextQuiet, NextConserves
  <2>3. IdsFresh'
    BY <1>1, <2>1, <2>2, EngineIds
  <2>4. MmadTypeOK' /\ Halted'
    BY <1>1, <2>1, <2>2 DEF MmadTypeOK, Halted
  <2>5. ParksEmptyHanded'
    <3>1. UNCHANGED <<issued, retired, waits, flagSem, blockedOn, parked>>
      BY <1>2 DEF mmadVars, vars
    <3>2. \A k, n : TokensUpTo(k, n)' = TokensUpTo(k, n)
      BY <3>1 DEF TokensUpTo, IsToken
    <3> QED BY <1>1, <3>1, <3>2 DEF ParksEmptyHanded
  <2> QED BY <2>2, <2>3, <2>4, <2>5 DEF FlagInv
<1>3. ASSUME MmadNext PROVE status = "Runnable"
  <2>1. CASE EngineStep
    BY <2>1
       DEF EngineStep, Next, IssueInOrder, IssueDeferred, IssueNow, SetFlag, Issue,
           WaitRaised, WaitDrains, WaitBlocks, PipeBarrier, Return
  <2> QED BY <1>3, <2>1 DEF MmadNext, MmadQueues, MmadInOrder, MmadParks, Issue
<1>4. ASSUME MmadNext PROVE parked = {}
  BY <1>1, <1>3, <1>4 DEF Halted
<1>5. ASSUME parked' = {} PROVE Halted' /\ ParksEmptyHanded'
  BY <1>5 DEF Halted, ParksEmptyHanded
<1>6. CASE EngineStep
  <2>1. [Next]_vars /\ Copies(retired') /\ parked' = parked
    BY <1>6 DEF EngineStep
  <2>2. TypeOK'
    BY <1>1, <2>1, NextType
  <2>3. InOrderIsQuiet' /\ FlagConservation'
    BY <1>1, <2>1, NextQuiet, NextConserves
  <2>4. IdsFresh' /\ count' \in Nat /\ count <= count'
    BY <1>1, <2>1, <2>2, EngineIds
  <2>5. retired' \in [Pipe -> Nat]
    BY <2>2 DEF TypeOK
  <2>6. captured' \subseteq 1 .. count /\ wrongTiles' \in BOOLEAN
    <3> SUFFICES ASSUME NEW upto \in [Pipe -> Nat], upto = retired'
                 PROVE  captured' \subseteq 1 .. count /\ wrongTiles' \in BOOLEAN
      BY <2>5
    <3>1. Copies(upto)
      BY <2>1
    <3> QED BY <1>1, <3>1, CopiesType
  <2>7. captured' \subseteq 1 .. count'
    BY <1>1, <2>4, <2>6
  <2>8. parked' = {}
    BY <1>4, <1>6, <2>1 DEF MmadNext
  <2> QED BY <1>5, <2>2, <2>3, <2>4, <2>6, <2>7, <2>8 DEF FlagInv, MmadTypeOK
<1>7. ASSUME NEW x \in Macro, MmadQueues(x) PROVE FlagInv'
  <2>1. TypeOK' /\ FlagConservation'
    BY <1>1, <1>7, QueuesType, QueuesConserves
  <2>2. IdsFresh' /\ count' \in Nat /\ count <= count'
    BY <1>1, <1>7, <2>1, MacroIds
  <2>3. captured' \subseteq 1 .. count /\ wrongTiles' \in BOOLEAN
    <3>1. PICK upto : DrainTo(upto) /\ Copies(upto)
      BY <1>1, <1>7, MacroDrains
    <3>2. upto \in [Pipe -> Nat]
      BY <3>1 DEF DrainTo
    <3> QED BY <1>1, <3>1, <3>2, CopiesType
  <2>4. captured' \subseteq 1 .. count'
    BY <1>1, <2>2, <2>3
  <2>5. InOrderIsQuiet' /\ parked' = {}
    BY <1>4, <1>7 DEF MmadQueues, Issue, InOrderIsQuiet, MmadNext
  <2> QED BY <1>5, <2>1, <2>2, <2>3, <2>4, <2>5 DEF FlagInv, MmadTypeOK
<1>8. ASSUME NEW x \in Macro, MmadInOrder(x) PROVE FlagInv'
  <2>1. TypeOK' /\ InOrderIsQuiet' /\ FlagConservation'
    BY <1>1, <1>8, InOrderType, InOrderConserves
  <2>2. IdsFresh' /\ count' \in Nat /\ count <= count'
    BY <1>1, <1>8, <2>1, MacroIds
  <2>3. captured' = captured /\ wrongTiles' = wrongTiles /\ parked' = {}
    BY <1>4, <1>8 DEF MmadInOrder, MmadNext
  <2>4. captured' \subseteq 1 .. count'
    BY <1>1, <2>2, <2>3
  <2> QED BY <1>1, <1>5, <2>1, <2>2, <2>3, <2>4 DEF FlagInv, MmadTypeOK
<1>9. ASSUME NEW x \in Macro, MmadParks(x) PROVE FlagInv'
  <2>1. TypeOK' /\ FlagConservation' /\ ParksEmptyHanded'
    BY <1>1, <1>9, ParksType, ParksConserves, ParksHandsEmpty
  <2>2. IdsFresh' /\ count' \in Nat /\ count <= count'
    BY <1>1, <1>9, <2>1, MacroIds
  <2>3. PICK upto : DrainTo(upto) /\ Drain(upto) /\ Copies(upto)
    BY <1>1, <1>9, MacroDrains
  <2>4. captured' \subseteq 1 .. count /\ wrongTiles' \in BOOLEAN
    BY <1>1, <2>3, CopiesType DEF DrainTo
  <2>5. captured' \subseteq 1 .. count'
    BY <1>1, <2>2, <2>4
  <2>6. InOrderIsQuiet'
    <3> SUFFICES ASSUME inOrder', NEW p \in Pipe PROVE retired'[p] = Len(issued'[p])
      BY DEF InOrderIsQuiet
    <3>1. inOrder /\ issued' = issued /\ retired' = upto
      BY <1>9, <2>3 DEF MmadParks, Drain
    <3>2. retired[p] = Len(issued[p])
      BY <1>1, <3>1 DEF InOrderIsQuiet
    <3>3. retired[p] <= upto[p] /\ upto[p] <= Len(issued[p]) /\ upto[p] \in Nat
          /\ retired[p] \in Nat
      BY <1>1, <2>3 DEF DrainTo, TypeOK
    <3> QED BY <3>1, <3>2, <3>3
  <2>7. parked' = {x} /\ status' = "BlockedOnFlag"
    BY <1>9 DEF MmadParks
  <2> QED BY <2>1, <2>2, <2>4, <2>5, <2>6, <2>7 DEF FlagInv, MmadTypeOK, Halted
<1> QED BY <1>2, <1>6, <1>7, <1>8, <1>9 DEF MmadNext

LEMMA FlagsInductive == MmadSpec => []FlagInv
<1>1. MmadInit => FlagInv
  BY MmadInitFlags
<1>2. FlagInv /\ [MmadNext]_mmadVars => FlagInv'
  BY MmadNextFlags
<1> QED BY <1>1, <1>2, PTL DEF MmadSpec

(* The semaphores stay non-negative although an mmad takes several raises  *)
(* at once, after a single look at what all of them can be drained to.     *)
THEOREM MmadTypeCorrect == MmadSpec => []MmadTypeOK
<1>1. FlagInv => MmadTypeOK
  BY DEF FlagInv
<1> QED BY <1>1, FlagsInductive, PTL

(* Every raise is still there or has been taken by one wait, mmads' slots  *)
(* included, and no wait overtakes the effects before its set.             *)
THEOREM MmadFlagsConserved == MmadSpec => [](FlagConservation /\ FlagOrder)
<1>1. FlagInv => FlagConservation /\ FlagOrder
  BY ConservedIsOrdered DEF FlagInv, MmadTypeOK
<1> QED BY <1>1, FlagsInductive, PTL

(* An mmad parks on a flag the program has not set often enough and holds  *)
(* on to nothing meanwhile.                                                *)
THEOREM MmadParksEmptyHanded == MmadSpec => []ParksEmptyHanded
<1>1. FlagInv => ParksEmptyHanded
  BY DEF FlagInv
<1> QED BY <1>1, FlagsInductive, PTL
-----------------------------------------------------------------------------
(***************************************************************************)
(* The copies and the order of memory                                      *)
(***************************************************************************)
IsHalf(e) == \E x \in Macro : x.op = e.op

(* The halves are on the two pipes of an mmad: the one on MTE1 reads tiles *)
(* and writes nothing, the one on M reads and writes accumulators, and has *)
(* one on MTE1 with its number.                                            *)
Placed(x) ==
  IsHalf(At(x)) =>
    \/ /\ x[1] = Mte1 /\ At(x).writes = {}
       /\ \E y \in Macro : At(x).reads = y.tiles
    \/ /\ x[1] = M
       /\ \E y \in Macro : At(x).reads \in {{}, y.acc} /\ At(x).writes = y.acc
       /\ \E z \in Effects : z[1] = Mte1 /\ IsHalf(At(z)) /\ At(z).id = At(x).id

HalvesPlaced == \A x \in Effects : Placed(x)

(* No effect on MTE1 writes a tile.                                        *)
Spares(x) == x[1] = Mte1 => \A y \in Macro : Bytes(At(x).writes) \cap Bytes(y.tiles) = {}

TilesSpared == \A x \in Effects : Spares(x)

(* On one pipe, an operation has at most one effect.                       *)
IdsOnce == \A x, y \in Effects : x[1] = y[1] /\ At(x).id = At(y).id => x = y

(* An mmad of which a half has been popped holds its copies.               *)
Held == \A x \in Effects : IsHalf(At(x)) /\ x[2] <= retired[x[1]] => At(x).id \in captured

(* The effects that wait are those beyond the cursors, before a step and   *)
(* after it.                                                               *)
LEMMA WaitingIs ==
  ASSUME TypeOK, NEW x
  PROVE  x \in Waiting <=> x \in Effects /\ retired[x[1]] < x[2]
<1>1. \A p \in Pipe : retired[p] \in Nat /\ Len(issued[p]) \in Nat
  BY DEF TypeOK
<1>2. ASSUME NEW p \in Pipe, NEW i
      PROVE  i \in InFlight(p) <=> i \in 1 .. Len(issued[p]) /\ retired[p] < i
  BY <1>1 DEF InFlight
<1>3. ASSUME NEW p \in Pipe, NEW i
      PROVE  <<p, i>> \in Waiting <=> <<p, i>> \in Effects /\ retired[p] < i
  BY <1>2 DEF Waiting, InQueues, Effects
<1>4. x \in Waiting \/ x \in Effects => \E p \in Pipe : \E i : x = <<p, i>>
  BY DEF Waiting, InQueues, Effects
<1> QED BY <1>3, <1>4

LEMMA WaitingIsNext ==
  ASSUME TypeOK', NEW x
  PROVE  x \in Waiting' <=> x \in Effects' /\ retired'[x[1]] < x[2]
<1>1. \A p \in Pipe : retired'[p] \in Nat /\ Len(issued'[p]) \in Nat
  BY DEF TypeOK
<1>2. ASSUME NEW p \in Pipe, NEW i
      PROVE  i \in InFlight(p)' <=> i \in 1 .. Len(issued'[p]) /\ retired'[p] < i
  BY <1>1 DEF InFlight
<1>3. ASSUME NEW p \in Pipe, NEW i
      PROVE  <<p, i>> \in Waiting' <=> <<p, i>> \in Effects' /\ retired'[p] < i
  BY <1>2 DEF Waiting, InQueues, Effects
<1>4. x \in Waiting' \/ x \in Effects' => \E p \in Pipe : \E i : x = <<p, i>>
  BY DEF Waiting, InQueues, Effects
<1> QED BY <1>3, <1>4

(* What joins the logs after a drain joins the queues.                     *)
LEMMA JoinedIsJoining ==
  ASSUME TypeOK, TypeOK', NEW N, Joined(N), NEW upto, DrainTo(upto), retired' = upto
  PROVE  Joining(N, upto)
<1>1. \A p \in Pipe : /\ retired[p] \in Nat /\ upto[p] \in Nat /\ Len(issued[p]) \in Nat
                      /\ retired[p] <= upto[p] /\ upto[p] <= Len(issued[p])
  BY DEF TypeOK, DrainTo
<1>2. \A x \in Effects : x[1] \in Pipe /\ x[2] \in Nat /\ x[2] <= Len(issued[x[1]])
  BY EffectFacts
<1>3. \A z \in N : z[1] \in Pipe /\ z[2] \in Nat /\ Len(issued[z[1]]) < z[2]
  BY DEF Joined
<1>4. ASSUME NEW x PROVE x \in Waiting' <=> x \in Beyond(Waiting, upto) \cup N
  <2>1. x \in Waiting' <=> (x \in Effects \/ x \in N) /\ upto[x[1]] < x[2]
    BY WaitingIsNext DEF Joined
  <2>2. x \in N => upto[x[1]] < x[2]
    BY <1>1, <1>3
  <2>3. x \in Effects => (upto[x[1]] < x[2] <=> retired[x[1]] < x[2] /\ upto[x[1]] < x[2])
    BY <1>1, <1>2
  <2> QED BY <2>1, <2>2, <2>3, WaitingIs DEF Beyond
<1>5. \A x \in Waiting : x \in Effects
  BY WaitingIs
<1>6. \A x \in Waiting : At(x)' = At(x)
  BY <1>5 DEF Joined
<1>7. ASSUME NEW z \in N
      PROVE  /\ z \in Nat \X Nat
             /\ \A x \in Waiting : x[1] = z[1] => x[2] < z[2]
             /\ \A y \in N : y[1] = z[1] => y = z
  <2>1. z \in Nat \X Nat
    BY PipeAssumption DEF Joined, Pipe
  <2>2. \A x \in Waiting : x[1] = z[1] => x[2] < z[2]
    BY <1>1, <1>2, <1>3, <1>5
  <2> QED BY <2>1, <2>2 DEF Joined
<1> QED BY <1>4, <1>6, <1>7 DEF Joining

(* Where the effects are, and what they touch, stays said of a log that    *)
(* effects of the same kind join.                                          *)
LEMMA PlacesKept ==
  ASSUME TypeOK, IdsFresh, HalvesPlaced, TilesSpared, IdsOnce, NEW N, Joined(N),
         \A z \in N : Placed(z)' /\ Spares(z)' /\ At(z)'.id = count + 1
  PROVE  HalvesPlaced' /\ TilesSpared' /\ IdsOnce'
<1>1. Effects' = Effects \cup N /\ \A x \in Effects : At(x)' = At(x)
  BY DEF Joined
<1>2. ASSUME NEW x \in Effects PROVE Placed(x)' /\ Spares(x)'
  <2>1. Placed(x) /\ Spares(x) /\ At(x)' = At(x)
    BY <1>1 DEF HalvesPlaced, TilesSpared
  <2>2. Spares(x)'
    BY <2>1 DEF Spares
  <2>3. Placed(x)'
    <3> SUFFICES ASSUME IsHalf(At(x))
                 PROVE  \/ /\ x[1] = Mte1 /\ At(x).writes = {}
                           /\ \E y \in Macro : At(x).reads = y.tiles
                        \/ /\ x[1] = M
                           /\ \E y \in Macro : At(x).reads \in {{}, y.acc} /\ At(x).writes = y.acc
                           /\ \E z \in Effects' : /\ z[1] = Mte1 /\ IsHalf(At(z)')
                                                  /\ At(z)'.id = At(x).id
      BY <2>1 DEF Placed, IsHalf
    <3> QED BY <1>1, <2>1 DEF Placed
  <2> QED BY <2>2, <2>3
<1>3. \A x \in N : Placed(x)' /\ Spares(x)'
  OBVIOUS
<1>4. HalvesPlaced' /\ TilesSpared'
  BY <1>1, <1>2, <1>3 DEF HalvesPlaced, TilesSpared
<1>5. IdsOnce'
  <2> SUFFICES ASSUME NEW x \in Effects', NEW y \in Effects', x[1] = y[1],
                      At(x)'.id = At(y)'.id
               PROVE  x = y
    BY DEF IdsOnce
  <2>1. count \in Nat /\ \A z \in Effects : At(z)'.id \in 1 .. count
    BY <1>1 DEF IdsFresh, TypeOK
  <2>2. \A z \in N : At(z)'.id = count + 1
    OBVIOUS
  <2>3. \A z \in Effects : At(z)'.id # count + 1
    BY <2>1
  <2>4. CASE x \in Effects /\ y \in Effects
    BY <1>1, <2>4 DEF IdsOnce
  <2>5. CASE x \in N /\ y \in N
    BY <2>5 DEF Joined
  <2> QED BY <1>1, <2>2, <2>3, <2>4, <2>5
<1> QED BY <1>4, <1>5

(* Every half a drain pops is held afterwards.                             *)
LEMMA PoppedAreHeld ==
  ASSUME TypeOK, NEW upto \in [Pipe -> Nat], Copies(upto),
         NEW x \in Effects, IsHalf(At(x)), retired[x[1]] < x[2], x[2] <= upto[x[1]]
  PROVE  At(x).id \in captured'
<1> DEFINE S == {y \in Halves(upto) : At(y).id = At(x).id}
<1>1. x \in Halves(upto)
  <2>1. /\ x = <<x[1], x[2]>> /\ x[1] \in Pipe /\ x[2] \in Nat
        /\ x[2] <= Len(issued[x[1]]) /\ At(x).kind = "effect"
    BY EffectFacts
  <2>2. retired[x[1]] \in Nat /\ upto[x[1]] \in Nat
    BY <2>1 DEF TypeOK
  <2>3. x[2] \in (retired[x[1]] + 1) .. upto[x[1]]
    BY <2>1, <2>2
  <2>4. x \in Popped(upto)
    BY <2>1, <2>3 DEF Popped
  <2> QED BY <2>1, <2>4 DEF Halves, IsHalf
<1>2. S \in SUBSET (Nat \X Nat) /\ S # {}
  <2>1. \A y \in Halves(upto) : y \in Nat \X Nat
    BY HalfPosition, PipeAssumption DEF Pipe
  <2> QED BY <1>1, <2>1
<1>3. PICK y \in S : \A z \in S : ~PoppedBefore(z, y)
  <2> HIDE DEF S
  <2> QED BY <1>2, FirstPopped
<1>4. CASE At(x).id \in captured
  BY <1>4 DEF Copies
<1>5. CASE At(x).id \notin captured
  <2>1. y \in Copying(upto)
    BY <1>3, <1>5 DEF Copying
  <2>2. At(y).id = At(x).id
    BY <1>3
  <2> QED BY <2>1, <2>2 DEF Copies
<1> QED BY <1>4, <1>5

LEMMA HeldAfter ==
  ASSUME TypeOK, Held, NEW N, Joined(N), NEW upto, DrainTo(upto), retired' = upto,
         captured \subseteq captured',
         \A x \in Effects : IsHalf(At(x)) /\ retired[x[1]] < x[2] /\ x[2] <= upto[x[1]]
                            => At(x).id \in captured'
  PROVE  Held'
<1> SUFFICES ASSUME NEW x \in Effects', IsHalf(At(x))', x[2] <= upto[x[1]]
             PROVE  At(x)'.id \in captured'
  BY DEF Held
<1>1. CASE x \in N
  <2>1. x[1] \in Pipe /\ x[2] \in Nat /\ Len(issued[x[1]]) < x[2]
    BY <1>1 DEF Joined
  <2>2. upto[x[1]] <= Len(issued[x[1]]) /\ upto[x[1]] \in Nat /\ Len(issued[x[1]]) \in Nat
    BY <2>1 DEF DrainTo, TypeOK
  <2> QED BY <2>1, <2>2
<1>2. CASE x \in Effects
  <2>1. At(x)' = At(x) /\ IsHalf(At(x))
    BY <1>2 DEF Joined, IsHalf
  <2>2. x[1] \in Pipe /\ x[2] \in Nat /\ retired[x[1]] \in Nat
    BY <1>2, EffectFacts DEF TypeOK
  <2>3. x[2] <= retired[x[1]] \/ retired[x[1]] < x[2]
    BY <2>2
  <2> QED BY <1>2, <2>1, <2>3 DEF Held
<1> QED BY <1>1, <1>2 DEF Joined

(* What a half copies is what the program order gave it: no effect that    *)
(* waits writes its tiles, so they are in memory already.                  *)
LEMMA CopiesRight ==
  ASSUME TypeOK, HalvesPlaced, TilesSpared, IdsOnce, Held, NoOvertaking, FindsExpected,
         NEW upto, DrainTo(upto)
  PROVE  ~CopiesWrong(upto)
<1> SUFFICES ASSUME NEW y \in Copying(upto), NEW b \in Bytes(Staging(At(y).id).reads)
             PROVE  Landed({x \in Popped(upto) : PoppedBefore(x, y)}, b)
                      = Staging(At(y).id).expect[b]
  BY DEF CopiesWrong
<1>1. upto \in [Pipe -> Nat] /\ y \in Halves(upto) /\ At(y).id \notin captured
  BY DEF DrainTo, Copying
<1>2. y \in Effects /\ IsHalf(At(y))
  BY <1>1, HalfPosition DEF Halves, IsHalf
<1>3. PICK z \in Effects : z[1] = Mte1 /\ IsHalf(At(z)) /\ At(z).id = At(y).id
  BY <1>2 DEF HalvesPlaced, Placed
<1>4. /\ z = <<Mte1, z[2]>> /\ Mte1 \in Pipe /\ z[2] \in Nat /\ z[2] \in 1 .. Len(issued[Mte1])
      /\ At(z) \in Entry /\ At(z).kind = "effect" /\ At(z) = issued[Mte1][z[2]]
  <2>1. /\ z = <<z[1], z[2]>> /\ z[1] \in Pipe /\ z[2] \in Nat
        /\ z[2] \in 1 .. Len(issued[z[1]]) /\ At(z) \in Entry /\ At(z).kind = "effect"
    BY EffectFacts
  <2> QED BY <1>3, <2>1 DEF At
<1>5. Staging(At(y).id) = At(z)
  <2> DEFINE L == {issued[Mte1][i] : i \in DOMAIN issued[Mte1]}
             Right(e) == e.kind = "effect" /\ e.id = At(y).id
  <2>1. DOMAIN issued[Mte1] = 1 .. Len(issued[Mte1])
    BY <1>4 DEF TypeOK
  <2>2. At(z) \in L /\ Right(At(z))
    BY <1>3, <1>4, <2>1
  <2>3. ASSUME NEW e \in L, Right(e) PROVE e = At(z)
    <3>1. PICK i \in 1 .. Len(issued[Mte1]) : e = issued[Mte1][i]
      BY <2>1
    <3>2. <<Mte1, i>> \in Effects /\ At(<<Mte1, i>>) = e
      BY <1>4, <2>3, <3>1, EffectsAt
    <3>3. <<Mte1, i>> = z
      <4>1. <<Mte1, i>>[1] = z[1] /\ At(<<Mte1, i>>).id = At(z).id
        BY <1>3, <2>3, <3>2
      <4> QED BY <3>2, <4>1 DEF IdsOnce
    <3> QED BY <3>2, <3>3
  <2>4. Staging(At(y).id) = CHOOSE e \in L : Right(e)
    BY DEF Staging
  <2> HIDE DEF L, Right
  <2> QED BY <2>2, <2>3, <2>4
<1>6. z \in Waiting
  <2>1. ~(z[2] <= retired[z[1]])
    BY <1>1, <1>3 DEF Held
  <2>2. z[2] \in Nat /\ retired[z[1]] \in Nat
    BY <1>3, <1>4 DEF TypeOK
  <2>3. retired[z[1]] < z[2]
    BY <2>1, <2>2
  <2> QED BY <2>3, WaitingIs
<1>7. b \in Byte /\ ReadsAt(z, b)
  <2>1. At(z).reads \in SUBSET ByteRange
    BY <1>4, EntryFields
  <2> QED BY <1>5, <2>1, BytesAreBytes DEF ReadsAt
<1>8. ASSUME NEW x \in Waiting, WritesAt(x, b) PROVE FALSE
  <2>1. CASE x[1] # Mte1
    BY <1>3, <1>6, <1>7, <1>8, <2>1 DEF NoOvertaking
  <2>2. CASE x[1] = Mte1
    <3>1. PICK m \in Macro : At(z).reads = m.tiles
      <4>1. Mte1 # M
        BY MacroAssumption
      <4> QED BY <1>3, <4>1 DEF HalvesPlaced, Placed
    <3>2. x \in Effects
      BY WaitingIs
    <3> QED BY <1>7, <1>8, <2>2, <3>1, <3>2 DEF TilesSpared, Spares, WritesAt, ReadsAt
  <2> QED BY <2>1, <2>2
<1>9. ASSUME NEW X, \A x \in X : x \in InQueues PROVE Landed(X, b) = mem[b]
  BY <1>8, <1>9 DEF Landed, Waiting, WritesAt
<1>10. Landed({x \in Popped(upto) : PoppedBefore(x, y)}, b) = mem[b]
  BY <1>9, PoppedWaiting
<1>11. Landed(Ahead(z), b) = mem[b]
  BY <1>9 DEF Ahead, Waiting
<1>12. At(z).expect[b] = Landed(Ahead(z), b)
  BY <1>6, <1>7 DEF FindsExpected
<1> QED BY <1>5, <1>10, <1>11, <1>12
-----------------------------------------------------------------------------
(***************************************************************************)
(* An mmad keeps the order of memory                                       *)
(***************************************************************************)

(* Where the check reports nothing, nothing that waits beyond the drain    *)
(* conflicts with the half, but for effects of the same operation.         *)
LEMMA UnreportedIsClear ==
  ASSUME TypeOK, CheckSync, NEW h, ~h.raw, NEW upto, DrainTo(upto), NEW seen,
         Reported(h, upto, seen) = {},
         NEW x \in Beyond(Waiting, upto), x[1] # h.pipe, At(x).op # h.op, NEW b
  PROVE  /\ seen = {}
         /\ WritesAt(x, b) => b \notin Bytes(h.writes) /\ b \notin Bytes(h.reads)
         /\ ReadsAt(x, b) => b \notin Bytes(h.writes)
<1>1. seen = {} /\ NewHazards(h, upto, seen) = {}
  BY DEF Reported
<1>2. x \in InQueues /\ At(x).kind = "effect" /\ upto[x[1]] < x[2]
  BY DEF Waiting, Beyond
<1>3. /\ x = <<x[1], x[2]>> /\ x[1] \in Pipe /\ x[2] \in 1 .. Len(issued[x[1]])
      /\ upto[x[1]] \in Nat
  BY <1>2, QueuedFacts DEF DrainTo
<1>4. x[2] \in (upto[x[1]] + 1) .. Len(issued[x[1]])
  BY <1>2, <1>3
<1>5. x \in UNION {{p} \X ((upto[p] + 1) .. Len(issued[p])) : p \in Pipe \ {h.pipe}}
  BY <1>3, <1>4
<1>6. ~Conflict(At(x), h)
  BY <1>1, <1>5 DEF NewHazards
<1>7. /\ Bytes(At(x).reads) \cap Bytes(h.writes) = {}
      /\ Bytes(At(x).writes) \cap Bytes(h.writes) = {}
      /\ Bytes(At(x).writes) \cap Bytes(h.reads) = {}
  BY <1>2, <1>6 DEF Conflict
<1> QED BY <1>1, <1>7 DEF WritesAt, ReadsAt

(* Halves on different pipes never conflict: tiles are no accumulators.    *)
LEMMA HalvesClear ==
  ASSUME NEW x \in Macro, NEW w \in Effects, Placed(w), IsHalf(At(w)),
         NEW p \in {M, Mte1}, w[1] # p, NEW b
  PROVE  /\ WritesAt(w, b) => b \notin Bytes(Half(x, p).writes) /\ b \notin Bytes(Half(x, p).reads)
         /\ ReadsAt(w, b) => b \notin Bytes(Half(x, p).writes)
<1>1. Bytes({}) = {}
  BY DEF Bytes
<1>2. \A y, z \in Macro : Bytes(y.tiles) \cap Bytes(z.acc) = {}
  BY MacroFacts
<1>3. CASE w[1] = Mte1
  <2>1. PICK y \in Macro : At(w).writes = {} /\ At(w).reads = y.tiles
    BY <1>3, MacroFacts DEF Placed
  <2>2. p = M /\ Half(x, p).writes = x.acc
    BY <1>3, HalfFields
  <2>3. Bytes(y.tiles) \cap Bytes(x.acc) = {}
    BY <1>2
  <2> QED BY <1>1, <2>1, <2>2, <2>3 DEF WritesAt, ReadsAt
<1>4. CASE w[1] = M
  <2>1. PICK y \in Macro : At(w).reads \in {{}, y.acc} /\ At(w).writes = y.acc
    BY <1>4, MacroFacts DEF Placed
  <2>2. p = Mte1 /\ Half(x, p).writes = {} /\ Half(x, p).reads = x.tiles
    BY <1>4, HalfFields
  <2>3. Bytes(x.tiles) \cap Bytes(y.acc) = {}
    BY <1>2
  <2> QED BY <1>1, <2>1, <2>2, <2>3 DEF WritesAt, ReadsAt
<1> QED BY <1>3, <1>4 DEF Placed

(* What waits beyond the drain conflicts with neither half of the mmad.    *)
LEMMA MacroClear ==
  ASSUME TypeOK, CheckSync, HalvesPlaced, NEW x \in Macro, NEW upto, DrainTo(upto),
         Checked(x, upto) = {},
         NEW w \in Beyond(Waiting, upto), NEW p \in {M, Mte1}, w[1] # p, NEW b
  PROVE  /\ WritesAt(w, b) => b \notin Bytes(Half(x, p).writes) /\ b \notin Bytes(Half(x, p).reads)
         /\ ReadsAt(w, b) => b \notin Bytes(Half(x, p).writes)
<1>1. w \in Effects /\ Placed(w)
  BY WaitingIs DEF HalvesPlaced, Beyond
<1>2. CASE At(w).op = x.op
  <2>1. IsHalf(At(w))
    BY <1>2 DEF IsHalf
  <2> QED BY <1>1, <2>1, HalvesClear
<1>3. CASE At(w).op # x.op
  <2>1. Half(x, p).op = x.op /\ Half(x, p).pipe = p /\ ~Half(x, p).raw
    BY HalfFields
  <2>2. \E seen : Reported(Half(x, p), upto, seen) = {}
    <3>1. Reported(Half(x, M), upto, Reported(Half(x, Mte1), upto, missing)) = {}
      BY DEF Checked
    <3>2. Reported(Half(x, Mte1), upto, missing) = {}
      BY <3>1 DEF Reported
    <3> QED BY <3>1, <3>2
  <2>3. PICK seen : Reported(Half(x, p), upto, seen) = {}
    BY <2>2
  <2>4. PICK h : h = Half(x, p)
    OBVIOUS
  <2>5. ~h.raw /\ w[1] # h.pipe /\ At(w).op # h.op /\ Reported(h, upto, seen) = {}
    BY <1>3, <2>1, <2>3, <2>4
  <2>6. /\ WritesAt(w, b) => b \notin Bytes(h.writes) /\ b \notin Bytes(h.reads)
        /\ ReadsAt(w, b) => b \notin Bytes(h.writes)
    BY <2>5, UnreportedIsClear
  <2> QED BY <2>4, <2>6
<1> QED BY <1>2, <1>3
(* The two halves join the queues as one operation of the program.         *)
TwoHalves(x, m, n) ==
  /\ Joined({<<Mte1, m>>, <<M, n>>}) /\ m \in Nat /\ n \in Nat
  /\ At(<<Mte1, m>>)' = Queued(Half(x, Mte1))
  /\ At(<<M, n>>)' = Queued(Half(x, M))

LEMMA HalvesQueued ==
  ASSUME TypeOK, NEW x \in Macro, MmadQueues(x)
  PROVE  \E m, n : TwoHalves(x, m, n)
<1>1. M \in Pipe /\ Mte1 \in Pipe
  BY MacroFacts
<1>2. PICK m \in Nat : m = Len(issued[Mte1])
  BY <1>1 DEF TypeOK
<1>3. PICK n \in Nat : n = Len(issued[M])
  BY <1>1 DEF TypeOK
<1>4. /\ Joined({<<Mte1, m + 1>>, <<M, n + 1>>})
      /\ At(<<Mte1, m + 1>>)' = Queued(Half(x, Mte1))
      /\ At(<<M, n + 1>>)' = Queued(Half(x, M))
  BY <1>2, <1>3, HalvesJoin
<1>5. m + 1 \in Nat /\ n + 1 \in Nat
  OBVIOUS
<1>6. PICK i \in Nat, j \in Nat : i = m + 1 /\ j = n + 1
  BY <1>5
<1>7. TwoHalves(x, i, j)
  BY <1>4, <1>6 DEF TwoHalves
<1> QED BY <1>7

(* What each says once queued                                              *)
HalfAt(z, x) ==
  /\ z \in Effects' /\ At(z)'.kind = "effect"
  /\ At(z)'.op = x.op /\ At(z)'.raw = FALSE /\ At(z)'.id = count + 1
  /\ At(z)'.reads = Half(x, z[1]).reads /\ At(z)'.writes = Half(x, z[1]).writes
  /\ \A b \in Byte : b \in Bytes(At(z)'.reads) => At(z)'.expect[b] = prog[b]

LEMMA TwoHalvesAre ==
  ASSUME TypeOK, NEW x \in Macro, NEW m, NEW n, TwoHalves(x, m, n)
  PROVE  \A z \in {<<Mte1, m>>, <<M, n>>} : HalfAt(z, x)
<1> SUFFICES ASSUME NEW z \in {<<Mte1, m>>, <<M, n>>} PROVE HalfAt(z, x)
  OBVIOUS
<1>1. PICK p \in {M, Mte1} : p = z[1]
  OBVIOUS
<1>2. At(z)' = Queued(Half(x, p))
  BY <1>1 DEF TwoHalves
<1>3. z \in Effects'
  BY DEF TwoHalves, Joined
<1>4. PICK e : e = Queued(Half(x, p))
  OBVIOUS
<1>5. /\ e.kind = "effect" /\ e.op = x.op /\ e.raw = FALSE /\ e.id = count + 1
      /\ e.reads = Half(x, p).reads /\ e.writes = Half(x, p).writes
      /\ \A b \in Byte : b \in Bytes(e.reads) => e.expect[b] = prog[b]
  BY <1>4, QueuedHalf
<1> QED BY <1>1, <1>2, <1>3, <1>4, <1>5 DEF HalfAt

(* They are where halves belong.                                           *)
LEMMA TwoHalvesPlaced ==
  ASSUME TypeOK, NEW x \in Macro, NEW m, NEW n, TwoHalves(x, m, n)
  PROVE  \A z \in {<<Mte1, m>>, <<M, n>>} : Placed(z)' /\ Spares(z)' /\ At(z)'.id = count + 1
<1>1. M # Mte1
  BY MacroFacts
<1> DEFINE N == {<<Mte1, m>>, <<M, n>>}
<1>2. PICK s \in N : s = <<Mte1, m>>
  OBVIOUS
<1>3. PICK t \in N : t = <<M, n>>
  OBVIOUS
<1>4. /\ s \in Effects' /\ s[1] = Mte1 /\ At(s)'.op = x.op /\ At(s)'.id = count + 1
      /\ At(s)'.reads = x.tiles /\ At(s)'.writes = {}
  BY <1>2, TwoHalvesAre, HalfFields DEF HalfAt
<1>5. /\ t \in Effects' /\ t[1] = M /\ At(t)'.op = x.op /\ At(t)'.id = count + 1
      /\ At(t)'.reads \in {{}, x.acc} /\ At(t)'.writes = x.acc
  <2>1. /\ t \in Effects' /\ t[1] = M /\ At(t)'.op = x.op /\ At(t)'.id = count + 1
        /\ At(t)'.reads = Half(x, M).reads /\ At(t)'.writes = Half(x, M).writes
    <3>1. t[1] = M /\ HalfAt(t, x)
      BY <1>3, TwoHalvesAre
    <3> QED BY <3>1 DEF HalfAt
  <2>2. Half(x, M).reads \in {{}, x.acc} /\ Half(x, M).writes = x.acc
    BY HalfFields
  <2> QED BY <2>1, <2>2
<1>6. IsHalf(At(s)') /\ IsHalf(At(t)')
  BY <1>4, <1>5 DEF IsHalf
<1>7. Placed(s)'
  BY <1>4 DEF Placed
<1>8. Placed(t)'
  <2>1. \E z \in Effects' : z[1] = Mte1 /\ IsHalf(At(z)') /\ At(z)'.id = At(t)'.id
    BY <1>4, <1>5, <1>6
  <2> QED BY <1>5, <2>1 DEF Placed, IsHalf
<1>9. Spares(s)' /\ Spares(t)'
  BY <1>1, <1>4, <1>5 DEF Spares, Bytes
<1>10. \A z \in N : z = s \/ z = t
  BY <1>2, <1>3
<1> QED BY <1>4, <1>5, <1>7, <1>8, <1>9, <1>10
(* What waits after the mmad: what the drain left, and its halves.         *)
LEMMA MacroWaits ==
  ASSUME TypeOK, TypeOK', NEW x \in Macro, NEW m, NEW n, TwoHalves(x, m, n),
         NEW upto, DrainTo(upto), retired' = upto
  PROVE  /\ Joining({<<Mte1, m>>, <<M, n>>}, upto)
         /\ \A w \in Waiting' :
              \/ w \in {<<Mte1, m>>, <<M, n>>}
              \/ w \in Beyond(Waiting, upto) /\ w \in Waiting /\ At(w)' = At(w)
<1>1. Joining({<<Mte1, m>>, <<M, n>>}, upto)
  BY JoinedIsJoining DEF TwoHalves
<1> QED BY <1>1 DEF Joining, Beyond

(* The halves do not conflict with what waits, nor with each other.        *)
Passes(z, w) ==
  \A b \in Byte : /\ WritesAt(z, b)' => ~WritesAt(w, b)' /\ ~ReadsAt(w, b)'
                  /\ ReadsAt(z, b)' => ~WritesAt(w, b)'

LEMMA HalvesOvertakeNothing ==
  ASSUME TypeOK, TypeOK', CheckSync, HalvesPlaced, HalvesPlaced', NEW x \in Macro,
         NEW m, NEW n, TwoHalves(x, m, n),
         NEW upto, DrainTo(upto), retired' = upto, Checked(x, upto) = {},
         NEW N, N = {<<Mte1, m>>, <<M, n>>}
  PROVE  \A z \in N : \A w \in Waiting' : z[1] # w[1] => Passes(z, w)
<1> SUFFICES ASSUME NEW z \in {<<Mte1, m>>, <<M, n>>}, NEW w \in Waiting', z[1] # w[1],
                    NEW b \in Byte
             PROVE  /\ WritesAt(z, b)' => ~WritesAt(w, b)' /\ ~ReadsAt(w, b)'
                    /\ ReadsAt(z, b)' => ~WritesAt(w, b)'
  BY DEF Passes
<1>1. PICK p \in {M, Mte1} : p = z[1]
  OBVIOUS
<1>2. /\ WritesAt(z, b)' <=> b \in Bytes(Half(x, p).writes)
      /\ ReadsAt(z, b)' <=> b \in Bytes(Half(x, p).reads)
  <2>1. At(z)'.reads = Half(x, p).reads /\ At(z)'.writes = Half(x, p).writes
    <3>1. HalfAt(z, x)
      BY TwoHalvesAre
    <3> QED BY <1>1, <3>1 DEF HalfAt
  <2> QED BY <2>1 DEF WritesAt, ReadsAt
<1>3. CASE w \in Beyond(Waiting, upto) /\ At(w)' = At(w)
  <2>1. /\ WritesAt(w, b)' <=> WritesAt(w, b)
        /\ ReadsAt(w, b)' <=> ReadsAt(w, b)
    BY <1>3 DEF WritesAt, ReadsAt
  <2>2. /\ WritesAt(w, b) => b \notin Bytes(Half(x, p).writes) /\ b \notin Bytes(Half(x, p).reads)
        /\ ReadsAt(w, b) => b \notin Bytes(Half(x, p).writes)
    BY <1>1, <1>3, MacroClear
  <2> QED BY <1>2, <2>1, <2>2
<1>4. CASE w \in {<<Mte1, m>>, <<M, n>>}
  <2>1. PICK q \in {M, Mte1} : q = w[1]
    BY <1>4
  <2>2. /\ WritesAt(w, b)' <=> b \in Bytes(Half(x, q).writes)
        /\ ReadsAt(w, b)' <=> b \in Bytes(Half(x, q).reads)
    <3>1. At(w)'.reads = Half(x, q).reads /\ At(w)'.writes = Half(x, q).writes
      <4>1. HalfAt(w, x)
        BY <1>4, TwoHalvesAre
      <4> QED BY <2>1, <4>1 DEF HalfAt
    <3> QED BY <3>1 DEF WritesAt, ReadsAt
  <2>3. p # q
    BY <1>1, <2>1
  <2>4. /\ Half(x, Mte1).reads = x.tiles /\ Half(x, Mte1).writes = {}
        /\ Half(x, M).reads \in {{}, x.acc} /\ Half(x, M).writes = x.acc
        /\ Bytes(x.tiles) \cap Bytes(x.acc) = {} /\ Bytes({}) = {}
    BY HalfFields, MacroFacts DEF Bytes
  <2>5. CASE p = M /\ q = Mte1
    BY <1>2, <2>2, <2>4, <2>5
  <2>6. CASE p = Mte1 /\ q = M
    BY <1>2, <2>2, <2>4, <2>6
  <2> QED BY <2>3, <2>5, <2>6
<1> QED BY <1>3, <1>4, MacroWaits

(* What waits stays true of its pipe: no operation of the program is named *)
(* like an mmad.                                                           *)
LEMMA QueuesOfItsPipe ==
  ASSUME TypeOK, TypeOK', OfItsPipe, NEW x \in Macro, NEW m, NEW n, TwoHalves(x, m, n),
         NEW upto, DrainTo(upto), retired' = upto
  PROVE  OfItsPipe'
<1> SUFFICES ASSUME NEW w \in Waiting'
             PROVE  /\ w[1] # PipeS /\ ~At(w)'.raw
                    /\ \A ins \in Instr : At(w)'.op = ins.op => ins.pipe = w[1]
  BY DEF OfItsPipe
<1>1. CASE w \in Waiting /\ At(w)' = At(w)
  BY <1>1 DEF OfItsPipe
<1>2. CASE w \in {<<Mte1, m>>, <<M, n>>}
  <2>1. At(w)'.op = x.op /\ At(w)'.raw = FALSE
    <3>1. HalfAt(w, x)
      BY <1>2, TwoHalvesAre
    <3> QED BY <3>1 DEF HalfAt
  <2>2. w[1] \in {M, Mte1} /\ M # PipeS /\ Mte1 # PipeS /\ \A ins \in Instr : ins.op # x.op
    BY <1>2, MacroFacts
  <2> QED BY <2>1, <2>2
<1> QED BY <1>1, <1>2, MacroWaits

LEMMA QueuesOrder ==
  ASSUME OrderInv, HalvesPlaced, HalvesPlaced', TypeOK', NEW x \in Macro, MmadQueues(x)
  PROVE  OfItsPipe' /\ (CheckSync /\ missing = {} => Orderly)'
<1>1. TypeOK /\ OfItsPipe
  BY DEF OrderInv
<1>2. PICK m, n : TwoHalves(x, m, n)
  BY <1>1, HalvesQueued
<1>3. PICK upto : upto = DrainedFor(x, Needed(x))
  OBVIOUS
<1>4. DrainTo(upto)
  BY <1>1, <1>3, DrainBefore
<1>5. /\ retired' = upto /\ mem' = DrainedMem(upto) /\ stale' = (stale \/ ReadsStale(upto))
      /\ missing' = Checked(x, upto) /\ prog' = Written(prog, Half(x, M))
  BY <1>3 DEF MmadQueues, Drain
<1>6. OfItsPipe'
  BY <1>1, <1>2, <1>4, <1>5, QueuesOfItsPipe
<1>7. ASSUME CheckSync, missing' = {} PROVE Orderly'
  <2>1. missing = {}
    <3>1. Reported(Half(x, M), upto, Reported(Half(x, Mte1), upto, missing)) = {}
      BY <1>5, <1>7 DEF Checked
    <3>2. Reported(Half(x, Mte1), upto, missing) = {}
      BY <3>1 DEF Reported
    <3> QED BY <3>2 DEF Reported
  <2>2. NoOvertaking /\ LeadsToProg /\ FindsExpected /\ ~stale
    BY <1>7, <2>1 DEF OrderInv, Orderly
  <2>3. PICK N : N = {<<Mte1, m>>, <<M, n>>}
    OBVIOUS
  <2>4. Joining(N, upto)
    BY <1>1, <1>2, <1>4, <1>5, <2>3, MacroWaits
  <2>5. \A z, w \in Waiting' : z \in N /\ z[1] # w[1] =>
          \A b \in Byte : /\ WritesAt(z, b)' => ~WritesAt(w, b)' /\ ~ReadsAt(w, b)'
                          /\ ReadsAt(z, b)' => ~WritesAt(w, b)'
    <3>1. \A z \in N : \A w \in Waiting' : z[1] # w[1] => Passes(z, w)
      BY <1>1, <1>2, <1>4, <1>5, <1>7, <2>3, HalvesOvertakeNothing
    <3>2. \A z \in N : z \in Waiting'
      BY <2>4 DEF Joining
    <3> QED BY <3>1, <3>2 DEF Passes
  <2>6. PICK v : v = count + 1
    OBVIOUS
  <2>7. \A z \in N : /\ At(z)'.id = v
                     /\ \A b \in Byte : ReadsAt(z, b)' => At(z)'.expect[b] = prog[b]
    <3>1. \A z \in N : HalfAt(z, x)
      BY <1>1, <1>2, <2>3, TwoHalvesAre
    <3> QED BY <2>6, <3>1 DEF ReadsAt, HalfAt
  <2>8. \A b \in Byte : (\E z \in N : WritesAt(z, b)') <=> b \in Bytes(Half(x, M).writes)
    <3>1. \A z \in N : At(z)'.writes = Half(x, z[1]).writes
      <4>1. \A z \in N : HalfAt(z, x)
        BY <1>1, <1>2, <2>3, TwoHalvesAre
      <4> QED BY <4>1 DEF HalfAt
    <3>2. /\ At(<<Mte1, m>>)'.writes = Half(x, Mte1).writes
          /\ At(<<M, n>>)'.writes = Half(x, M).writes
      BY <2>3, <3>1
    <3>3. Half(x, Mte1).writes = {} /\ Bytes({}) = {}
      BY HalfFields DEF Bytes
    <3> QED BY <2>3, <3>2, <3>3 DEF WritesAt
  <2>9. \A b \in Byte : prog'[b] = IF \E z \in N : WritesAt(z, b)' THEN v ELSE prog[b]
    BY <1>5, <2>6, <2>8 DEF Written
  <2>10. \A b \in Byte : mem'[b] = DrainedMem(upto)[b]
    BY <1>5
  <2>11. NoOvertaking' /\ LeadsToProg' /\ FindsExpected'
    BY <1>1, <1>4, <2>2, <2>4, <2>5, <2>7, <2>9, <2>10, JoinStep
  <2>12. ~stale'
    BY <1>1, <1>4, <1>5, <2>2, DrainReadsFresh
  <2> QED BY <2>11, <2>12 DEF Orderly
<1> QED BY <1>6, <1>7
(* In order an mmad finds the memory of the program and leaves it.         *)
LEMMA MacroInOrderOrder ==
  ASSUME OrderInv, TypeOK', InOrderIsQuiet', NEW x \in Macro, MmadInOrder(x)
  PROVE  OfItsPipe' /\ (CheckSync /\ missing = {} => Orderly)'
<1>1. TypeOK /\ InOrderIsQuiet /\ inOrder /\ inOrder'
  BY DEF OrderInv, MmadInOrder, Issue
<1>2. Waiting = {} /\ Waiting' = {}
  BY <1>1 DEF TypeOK, InOrderIsQuiet, InQueues, InFlight, Waiting
<1>3. ASSUME CheckSync, missing' = {} PROVE Orderly'
  <2>1. missing = {}
    BY <1>3 DEF MmadInOrder
  <2>2. LeadsToProg /\ ~stale
    BY <1>3, <2>1 DEF OrderInv, Orderly
  <2>3. \A b \in Byte : mem[b] = prog[b]
    BY <1>2, <2>2 DEF LeadsToProg, Landed
  <2> DEFINE both == [reads |-> x.tiles \cup Half(x, M).reads, writes |-> x.acc]
  <2>4. /\ mem' = Written(mem, both) /\ prog' = Written(prog, Half(x, M))
        /\ stale' = (stale \/ \E b \in Bytes(both.reads) : mem[b] # prog[b])
    BY DEF MmadInOrder, Complete
  <2>5. both.reads \in SUBSET ByteRange /\ Half(x, M).writes = both.writes
    BY HalfFields, MacroFacts
  <2>6. Bytes(both.reads) \subseteq Byte
    <3> HIDE DEF both
    <3> QED BY <2>5, BytesAreBytes
  <2> HIDE DEF both
  <2>7. ~stale'
    BY <2>2, <2>3, <2>4, <2>6
  <2>8. \A b \in Byte : mem'[b] = prog'[b]
    BY <2>3, <2>4, <2>5 DEF Written
  <2>9. LeadsToProg'
    <3>1. \A b \in Byte : Landed(Waiting, b)' = mem'[b]
      BY <1>2 DEF Landed
    <3> QED BY <2>8, <3>1 DEF LeadsToProg
  <2>10. NoOvertaking' /\ FindsExpected'
    BY <1>2 DEF NoOvertaking, FindsExpected
  <2> QED BY <2>7, <2>9, <2>10 DEF Orderly
<1> QED BY <1>2, <1>3 DEF OfItsPipe

(* When it parks it has only drained.                                      *)
LEMMA ParksOrder ==
  ASSUME OrderInv, NEW x \in Macro, MmadParks(x)
  PROVE  OfItsPipe' /\ (CheckSync /\ missing = {} => Orderly)'
<1>1. PICK upto : DrainTo(upto) /\ Drain(upto)
  BY MacroDrains DEF OrderInv
<1>2. UNCHANGED <<issued, prog, missing>>
  BY DEF MmadParks
<1> QED BY <1>1, <1>2, PlainDrainStep

-----------------------------------------------------------------------------
(***************************************************************************)
(* The copies, step by step                                                *)
(***************************************************************************)
CopyInv == HalvesPlaced /\ TilesSpared /\ IdsOnce /\ Held

(* A drain, and the effects that join after it                             *)
LEMMA DrainKeepsCopies ==
  ASSUME TypeOK, IdsFresh, CopyInv, NEW N, Joined(N),
         \A z \in N : Placed(z)' /\ Spares(z)' /\ At(z)'.id = count + 1,
         NEW upto, DrainTo(upto), retired' = upto, Copies(upto)
  PROVE  CopyInv'
<1>1. HalvesPlaced' /\ TilesSpared' /\ IdsOnce'
  BY PlacesKept DEF CopyInv
<1>2. captured \subseteq captured'
  BY DEF Copies
<1>3. upto \in [Pipe -> Nat]
  BY DEF DrainTo
<1>4. \A x \in Effects : IsHalf(At(x)) /\ retired[x[1]] < x[2] /\ x[2] <= upto[x[1]]
                         => At(x).id \in captured'
  BY <1>3, PoppedAreHeld
<1>5. Held'
  BY <1>2, <1>4, HeldAfter DEF CopyInv
<1> QED BY <1>1, <1>5 DEF CopyInv

(* In order nothing waits, so nothing is popped.                           *)
LEMMA QuietKeepsCopies ==
  ASSUME TypeOK, IdsFresh, CopyInv, InOrderIsQuiet, inOrder, Joined({}),
         captured \subseteq captured'
  PROVE  CopyInv'
<1>1. PICK N : N = {}
  OBVIOUS
<1>2. HalvesPlaced' /\ TilesSpared' /\ IdsOnce'
  BY <1>1, PlacesKept DEF CopyInv
<1>3. Effects' = Effects /\ \A x \in Effects : At(x)' = At(x)
  BY DEF Joined
<1>4. Held'
  <2> SUFFICES ASSUME NEW x \in Effects, IsHalf(At(x)) PROVE At(x).id \in captured'
    BY <1>3 DEF Held, IsHalf
  <2>1. x[1] \in Pipe /\ x[2] \in 1 .. Len(issued[x[1]])
    BY EffectFacts
  <2>2. retired[x[1]] = Len(issued[x[1]]) /\ Len(issued[x[1]]) \in Nat
    BY <2>1 DEF InOrderIsQuiet, TypeOK
  <2>3. x[2] <= retired[x[1]]
    BY <2>1, <2>2
  <2> QED BY <2>3 DEF CopyInv, Held
<1> QED BY <1>2, <1>4 DEF CopyInv

LEMMA QuietCopiesRight ==
  ASSUME TypeOK, InOrderIsQuiet, inOrder, NEW upto \in [Pipe -> Nat]
  PROVE  ~CopiesWrong(upto)
<1>1. ASSUME NEW y \in Halves(upto) PROVE FALSE
  <2>1. y[1] \in Pipe /\ retired[y[1]] < y[2] /\ y[2] \in 1 .. Len(issued[y[1]])
    BY <1>1, HalfPosition
  <2>2. retired[y[1]] = Len(issued[y[1]]) /\ Len(issued[y[1]]) \in Nat
    BY <2>1 DEF InOrderIsQuiet, TypeOK
  <2> QED BY <2>1, <2>2
<1> QED BY <1>1 DEF CopiesWrong, Copying

(* A report is never withdrawn.                                            *)
LEMMA EngineReports ==
  ASSUME [Next]_vars, missing' = {}
  PROVE  missing = {}
<1>1. \A ins \in Instr : CheckHazards(ins) => missing = {}
  BY DEF CheckHazards, Reported
<1> QED
  BY <1>1 DEF Next, vars, IssueInOrder, IssueDeferred, IssueNow, SetFlag, WaitRaised,
              WaitDrains, WaitBlocks, PipeBarrier, Return

LEMMA MacroReports ==
  ASSUME NEW x, MmadQueues(x) \/ MmadInOrder(x) \/ MmadParks(x), missing' = {}
  PROVE  missing = {}
<1>1. CASE MmadQueues(x)
  <2>1. PICK upto : missing' = Checked(x, upto)
    BY <1>1 DEF MmadQueues
  <2>2. Reported(Half(x, M), upto, Reported(Half(x, Mte1), upto, missing)) = {}
    BY <2>1 DEF Checked
  <2>3. Reported(Half(x, Mte1), upto, missing) = {}
    BY <2>2 DEF Reported
  <2> QED BY <2>3 DEF Reported
<1> QED BY <1>1 DEF MmadInOrder, MmadParks

(* Every step of the engine drains, unless it sets a flag in order.        *)
LEMMA EngineDrains ==
  ASSUME TypeOK, [Next]_vars
  PROVE  inOrder \/ DrainTo(retired')
<1>1. CASE retired' = retired
  BY <1>1, StayIsDrain
<1>2. ASSUME NEW P, retired' = UpToEnd(P) PROVE DrainTo(retired')
  BY <1>2, UpToEndIsDrain
<1>3. ASSUME NEW k \in Key, WaitDrains(k) PROVE DrainTo(retired')
  BY <1>3, UpToTokenIsDrain DEF WaitDrains, Drain
<1> QED
  BY <1>1, <1>2, <1>3 DEF Next, vars, IssueInOrder, IssueDeferred, IssueNow, SetFlag,
     WaitRaised, WaitBlocks, PipeBarrier, Return, Drain
-----------------------------------------------------------------------------
(***************************************************************************)
(* The invariant of the tiles                                              *)
(***************************************************************************)
TileInv == FlagInv /\ OrderInv /\ CopyInv /\ TilesMatchProgramOrder

(* A step that copies as it drains copies the right tiles.                 *)
LEMMA TilesAfter ==
  ASSUME TileInv, NEW upto, DrainTo(upto), Copies(upto), missing' = {} => missing = {}
  PROVE  TilesMatchProgramOrder'
<1> SUFFICES ASSUME CheckSync, missing' = {} PROVE ~wrongTiles'
  BY DEF TilesMatchProgramOrder
<1>1. missing = {} /\ ~wrongTiles
  BY DEF TileInv, TilesMatchProgramOrder
<1>2. TypeOK /\ NoOvertaking /\ FindsExpected
  BY <1>1 DEF TileInv, OrderInv, Orderly
<1>3. ~CopiesWrong(upto)
  BY <1>2, CopiesRight DEF TileInv, CopyInv
<1> QED BY <1>1, <1>3 DEF Copies

(* A step of the engine, in order or not                                   *)
LEMMA EngineTiles ==
  ASSUME TileInv, EngineStep
  PROVE  CopyInv' /\ TilesMatchProgramOrder'
<1>1. /\ TypeOK /\ IdsFresh /\ CopyInv /\ InOrderIsQuiet
      /\ [Next]_vars /\ Copies(retired')
  BY DEF TileInv, FlagInv, OrderInv, EngineStep
<1>2. TypeOK'
  BY <1>1, NextType
<1>3. PICK upto : upto = retired'
  OBVIOUS
<1>4. upto \in [Pipe -> Nat] /\ Copies(upto) /\ retired' = upto
  BY <1>1, <1>2, <1>3 DEF TypeOK
<1>5. missing' = {} => missing = {}
  BY <1>1, EngineReports
<1>6. CASE inOrder
  <2>1. ~ \E ins \in Instr : DeferredJoins(ins)
    BY <1>6 DEF DeferredJoins, IssueDeferred
  <2>2. Joined({})
    BY <1>1, <2>1, EngineJoins
  <2>3. captured \subseteq captured' /\ (wrongTiles' => wrongTiles \/ CopiesWrong(upto))
    BY <1>4 DEF Copies
  <2>4. CopyInv'
    BY <1>1, <1>6, <2>2, <2>3, QuietKeepsCopies
  <2>5. ~CopiesWrong(upto)
    BY <1>1, <1>4, <1>6, QuietCopiesRight
  <2>6. TilesMatchProgramOrder'
    BY <1>5, <2>3, <2>5 DEF TileInv, TilesMatchProgramOrder
  <2> QED BY <2>4, <2>6
<1>7. CASE ~inOrder
  <2>1. DrainTo(upto)
    BY <1>1, <1>3, <1>7, EngineDrains
  <2>2. TilesMatchProgramOrder'
    BY <1>4, <1>5, <2>1, TilesAfter
  <2>3. CASE Joined({})
    <3>1. PICK N : N = {}
      OBVIOUS
    <3>2. CopyInv'
      BY <1>1, <1>4, <2>1, <2>3, <3>1, DrainKeepsCopies
    <3> QED BY <2>2, <3>2
  <2>4. ASSUME NEW ins \in Instr, DeferredJoins(ins) PROVE CopyInv'
    <3>1. PICK n \in Nat :
            /\ Joined({<<ins.pipe, n>>})
            /\ At(<<ins.pipe, n>>)'.id = count + 1 /\ At(<<ins.pipe, n>>)'.op = ins.op
            /\ At(<<ins.pipe, n>>)'.writes = ins.writes
      BY <2>4 DEF DeferredJoins
    <3>2. PICK z : z = <<ins.pipe, n>>
      OBVIOUS
    <3>3. Placed(<<ins.pipe, n>>)'
      <4>1. \A x \in Macro : x.op # ins.op
        BY MacroAssumption
      <4> QED BY <3>1, <4>1 DEF Placed, IsHalf
    <3>4. Spares(<<ins.pipe, n>>)'
      <4>1. ins.pipe = Mte1 => \A x \in Macro : Bytes(x.tiles) \cap Bytes(ins.writes) = {}
        BY <2>4, TilesAssumption DEF DeferredJoins, IssueDeferred
      <4>2. <<ins.pipe, n>>[1] = ins.pipe
        OBVIOUS
      <4> QED BY <3>1, <4>1, <4>2 DEF Spares
    <3>5. PICK N : N = {<<ins.pipe, n>>}
      OBVIOUS
    <3>6. \A y \in N : Placed(y)' /\ Spares(y)' /\ At(y)'.id = count + 1
      BY <3>1, <3>3, <3>4, <3>5
    <3> QED BY <1>1, <1>4, <2>1, <3>1, <3>5, <3>6, DrainKeepsCopies
  <2> QED BY <1>1, <2>2, <2>3, <2>4, EngineJoins
<1> QED BY <1>6, <1>7

(* An mmad that is queued, ...                                             *)
LEMMA QueuesTiles ==
  ASSUME TileInv, TypeOK', NEW x \in Macro, MmadQueues(x)
  PROVE  CopyInv' /\ TilesMatchProgramOrder' /\ OrderInv'
<1>1. TypeOK /\ IdsFresh /\ CopyInv /\ OrderInv
  BY DEF TileInv, FlagInv, OrderInv
<1>2. PICK upto : DrainTo(upto) /\ Drain(upto) /\ Copies(upto)
  BY <1>1, MacroDrains
<1>3. PICK m, n : TwoHalves(x, m, n)
  BY <1>1, HalvesQueued
<1>4. PICK N : N = {<<Mte1, m>>, <<M, n>>}
  OBVIOUS
<1>5. Joined(N) /\ \A z \in N : Placed(z)' /\ Spares(z)' /\ At(z)'.id = count + 1
  BY <1>1, <1>3, <1>4, TwoHalvesPlaced DEF TwoHalves
<1>6. CopyInv'
  BY <1>1, <1>2, <1>5, DrainKeepsCopies DEF Drain
<1>7. TilesMatchProgramOrder'
  BY <1>2, MacroReports, TilesAfter
<1>8. OfItsPipe' /\ (CheckSync /\ missing = {} => Orderly)'
  BY <1>1, <1>6, QueuesOrder DEF CopyInv
<1>9. status' = "Runnable" /\ ~inOrder'
  BY DEF MmadQueues, Issue
<1>10. OrderInv'
  BY <1>8, <1>9 DEF OrderInv, DoneIsEmpty, InOrderIsQuiet
<1> QED BY <1>6, <1>7, <1>10

(* ... one that completes in order, ...                                    *)
LEMMA InOrderTiles ==
  ASSUME TileInv, TypeOK', InOrderIsQuiet', NEW x \in Macro, MmadInOrder(x)
  PROVE  CopyInv' /\ TilesMatchProgramOrder' /\ OrderInv'
<1>1. TypeOK /\ IdsFresh /\ CopyInv /\ OrderInv /\ InOrderIsQuiet /\ inOrder
  BY DEF TileInv, FlagInv, OrderInv, MmadInOrder
<1>2. Joined({})
  BY <1>1, InOrderLog, TokensStay, StayJoins
<1>3. UNCHANGED <<captured, wrongTiles, missing>> /\ status' = "Runnable"
  BY DEF MmadInOrder, Issue
<1>4. CopyInv'
  BY <1>1, <1>2, <1>3, QuietKeepsCopies
<1>5. TilesMatchProgramOrder'
  BY <1>3 DEF TileInv, TilesMatchProgramOrder
<1>6. OfItsPipe' /\ (CheckSync /\ missing = {} => Orderly)'
  BY <1>1, MacroInOrderOrder
<1>7. OrderInv'
  BY <1>3, <1>6 DEF OrderInv, DoneIsEmpty
<1> QED BY <1>4, <1>5, <1>7

(* ... and one that parks                                                  *)
LEMMA ParksTiles ==
  ASSUME TileInv, TypeOK', InOrderIsQuiet', NEW x \in Macro, MmadParks(x)
  PROVE  CopyInv' /\ TilesMatchProgramOrder' /\ OrderInv'
<1>1. TypeOK /\ IdsFresh /\ CopyInv /\ OrderInv
  BY DEF TileInv, FlagInv, OrderInv
<1>2. PICK upto : DrainTo(upto) /\ Drain(upto) /\ Copies(upto)
  BY <1>1, MacroDrains
<1>3. issued' = issued /\ status' = "BlockedOnFlag"
  BY DEF MmadParks
<1>4. PICK N : N = {}
  OBVIOUS
<1>5. Joined(N)
  BY <1>1, <1>3, <1>4, UnchangedStays, StayJoins
<1>6. CopyInv'
  BY <1>1, <1>2, <1>4, <1>5, DrainKeepsCopies DEF Drain
<1>7. TilesMatchProgramOrder'
  BY <1>2, MacroReports, TilesAfter
<1>8. OfItsPipe' /\ (CheckSync /\ missing = {} => Orderly)'
  BY <1>1, ParksOrder
<1>9. OrderInv'
  BY <1>3, <1>8 DEF OrderInv, DoneIsEmpty
<1> QED BY <1>6, <1>7, <1>9

(* A step that changes nothing                                             *)
LEMMA IdleTiles ==
  ASSUME TileInv, UNCHANGED mmadVars
  PROVE  CopyInv' /\ TilesMatchProgramOrder' /\ OrderInv'
<1>1. UNCHANGED <<vars, issued, retired, missing, captured, wrongTiles>>
  BY DEF mmadVars, vars
<1>2. OrderInv'
  BY <1>1, NextOrder DEF TileInv
<1>3. TilesMatchProgramOrder'
  BY <1>1 DEF TileInv, TilesMatchProgramOrder
<1>4. Effects' = Effects /\ \A x : At(x)' = At(x)
  BY <1>1 DEF Effects, At
<1>5. Held' /\ IdsOnce' /\ TilesSpared'
  BY <1>1, <1>4 DEF TileInv, CopyInv, Held, IdsOnce, TilesSpared, Spares, IsHalf
<1>6. HalvesPlaced'
  BY <1>4 DEF TileInv, CopyInv, HalvesPlaced, Placed, IsHalf
<1> QED BY <1>2, <1>3, <1>5, <1>6 DEF CopyInv

LEMMA MmadInitTiles ==
  ASSUME MmadInit
  PROVE  TileInv
<1>1. FlagInv
  BY MmadInitFlags
<1>2. OrderInv
  BY InitOrder DEF MmadInit
<1>3. Effects = {}
  <2>1. \A p \in Pipe : Len(issued[p]) = 0
    BY DEF MmadInit, Init
  <2>2. \A p \in Pipe : 1 .. Len(issued[p]) = {}
    BY <2>1
  <2> QED BY <2>2 DEF Effects
<1>4. CopyInv
  BY <1>3 DEF CopyInv, HalvesPlaced, TilesSpared, IdsOnce, Held
<1>5. TilesMatchProgramOrder
  BY DEF MmadInit, TilesMatchProgramOrder
<1> QED BY <1>1, <1>2, <1>4, <1>5 DEF TileInv

LEMMA MmadNextTiles ==
  ASSUME TileInv, [MmadNext]_mmadVars
  PROVE  TileInv'
<1>1. FlagInv'
  BY MmadNextFlags DEF TileInv
<1>2. TypeOK' /\ InOrderIsQuiet'
  BY <1>1 DEF FlagInv, MmadTypeOK
<1>3. CASE EngineStep
  <2>1. OrderInv'
    BY <1>3, NextOrder DEF TileInv, EngineStep
  <2> QED BY <1>1, <1>3, <2>1, EngineTiles DEF TileInv
<1>4. ASSUME NEW x \in Macro, MmadQueues(x) \/ MmadInOrder(x) \/ MmadParks(x)
      PROVE  CopyInv' /\ TilesMatchProgramOrder' /\ OrderInv'
  BY <1>2, <1>4, QueuesTiles, InOrderTiles, ParksTiles
<1>5. CASE UNCHANGED mmadVars
  BY <1>1, <1>5, IdleTiles DEF TileInv
<1> QED BY <1>1, <1>3, <1>4, <1>5 DEF MmadNext, TileInv

LEMMA TilesInductive == MmadSpec => []TileInv
<1>1. MmadInit => TileInv
  BY MmadInitTiles
<1>2. TileInv /\ [MmadNext]_mmadVars => TileInv'
  BY MmadNextTiles
<1> QED BY <1>1, <1>2, PTL DEF MmadSpec

(* Where no MISSING SYNC is reported, every copy an mmad makes is of the   *)
(* tiles of program order, whichever half a drain pops first and whatever  *)
(* has been loaded over the tiles meanwhile.  For every number of mmads    *)
(* and of bytes, every set of flags and every program over them.           *)
THEOREM MmadTilesAreRight == MmadSpec => []TilesMatchProgramOrder
<1>1. TileInv => TilesMatchProgramOrder
  BY DEF TileInv
<1> QED BY <1>1, TilesInductive, PTL

(* The lazy commit order stays a sound test with mmads among the           *)
(* operations: the two halves check against what is queued on the pipes    *)
(* but their own, and tiles and accumulators are apart.                    *)
THEOREM MmadOrderIsSound == MmadSpec => []LazyMatchesProgramOrder
<1>1. TileInv => LazyMatchesProgramOrder
  BY OrderedIsSound DEF TileInv
<1> QED BY <1>1, TilesInductive, PTL
=============================================================================
