----------------------------- MODULE FlowProofs -----------------------------
(***************************************************************************)
(* The storage of a core is handed out once (SitesApart), and whoever pops *)
(* a region or a frame finds its parent standing on the operation that     *)
(* opened it (NestedOnOwners), for every program, well formed or not, and  *)
(* every arena.                                                            *)
(***************************************************************************)
EXTENDS ControlFlow, TLAPS, SequenceTheorems

-----------------------------------------------------------------------------
(* A sequence, whatever its elements are                                   *)
IsSeq(s) == \E S : s \in Seq(S)

(* It has a length.                                                        *)
LEMMA LenIs ==
  ASSUME NEW s, IsSeq(s)
  PROVE  Len(s) \in Nat /\ DOMAIN s = 1 .. Len(s)
BY DEF IsSeq

(* What the sequence operations of the walk do                             *)
Appended(t, s, e) ==
  IsSeq(t) /\ Len(t) = Len(s) + 1 /\ t[Len(s) + 1] = e /\ \A i \in 1 .. Len(s) : t[i] = s[i]

(* An element more                                                         *)
LEMMA AppendIs ==
  ASSUME NEW s, IsSeq(s), NEW e
  PROVE  Appended(Append(s, e), s, e) /\ Len(s) \in Nat
<1>1. PICK S : s \in Seq(S)
  BY DEF IsSeq
<1>2. PICK T : T = S \cup {e}
  OBVIOUS
<1>3. s \in Seq(T) /\ e \in T
  <2>1. Len(s) \in Nat /\ s \in [1 .. Len(s) -> S]
    BY <1>1
  <2>2. s \in [1 .. Len(s) -> T]
    BY <1>2, <2>1
  <2>3. s \in Seq(T)
    BY <2>1, <2>2, SeqDef
  <2> QED BY <1>2, <2>3
<1>4. /\ Append(s, e) \in Seq(T) /\ Len(Append(s, e)) = Len(s) + 1
      /\ Append(s, e)[Len(s) + 1] = e /\ \A i \in 1 .. Len(s) : Append(s, e)[i] = s[i]
      /\ Len(s) \in Nat
  BY <1>3
<1> QED BY <1>4 DEF Appended, IsSeq

Shortened(t, s) ==
  IsSeq(t) /\ Len(t) = Len(s) - 1 /\ \A i \in 1 .. Len(s) - 1 : t[i] = s[i]

(* An element less                                                         *)
LEMMA ButLastIs ==
  ASSUME NEW s, IsSeq(s), Len(s) > 0
  PROVE  Shortened(ButLast(s), s) /\ Len(s) \in Nat
<1>1. PICK S : s \in Seq(S)
  BY DEF IsSeq
<1>2. PICK n \in Nat : n = Len(s) /\ n > 0
  BY <1>1
<1>3. /\ SubSeq(s, 1, n - 1) \in Seq(S) /\ Len(SubSeq(s, 1, n - 1)) = n - 1
      /\ \A i \in 1 .. n - 1 : SubSeq(s, 1, n - 1)[i] = s[i]
  BY <1>1, <1>2
<1> QED BY <1>2, <1>3 DEF ButLast, Shortened, IsSeq

-----------------------------------------------------------------------------
(* Rounding up yields a multiple, and not a smaller number.                *)
LEMMA Rounding ==
  ASSUME NEW a \in Nat \ {0}, NEW n \in Nat, NEW m, m = ((n + a - 1) \div a) * a
  PROVE  m \in Nat /\ n <= m /\ m % a = 0
<1>1. PICK k \in Nat : k = n + a - 1
  OBVIOUS
<1>2. k = a * (k \div a) + (k % a) /\ k \div a \in Nat /\ k % a \in 0 .. (a - 1)
  OBVIOUS
<1>3. PICK q \in Nat, r \in 0 .. (a - 1) : q = k \div a /\ k = a * q + r
  BY <1>2
<1>4. m = a * q
  BY <1>1, <1>3
<1>5. a * q \in Nat /\ (a * q) % a = 0
  OBVIOUS
<1>6. PICK p \in Nat : p = a * q /\ p % a = 0
  BY <1>5
<1>7. n <= p
  BY <1>1, <1>3, <1>6
<1> QED BY <1>4, <1>6, <1>7

(* AlignUp rounds up.                                                      *)
LEMMA AlignUpFacts ==
  ASSUME NEW n \in Nat
  PROVE  AlignUp(n) \in Nat /\ n <= AlignUp(n) /\ AlignUp(n) % Align = 0
BY Rounding, ArenaAssumption DEF AlignUp

-----------------------------------------------------------------------------
(* An alloc record keeps what it says of a site, dead or alive.            *)
IsRecord(r) == r = [lo |-> r.lo, hi |-> r.hi, site |-> r.site, live |-> r.live]

Aligned(n) == n % Align = 0

(* Ranges in order, aligned, below the high-water mark t                   *)
InOrder(rs, t) ==
  /\ \A i, j \in 1 .. Len(rs) : i < j => rs[i].hi <= rs[j].lo
  /\ \A i \in 1 .. Len(rs) : /\ rs[i].lo \in Nat /\ rs[i].hi \in Nat
                            /\ Aligned(rs[i].lo)
                            /\ rs[i].lo <= rs[i].hi /\ rs[i].hi <= t

(* Site s owns the range of its last record.                               *)
Owns(rs, s, lo, hi, i) ==
  /\ i \in 1 .. Len(rs) /\ rs[i].site = s /\ rs[i].lo = lo /\ rs[i].hi = hi
  /\ \A j \in 1 .. Len(rs) : j > i => rs[j].site # s

SiteInv(rs, t, c) ==
  /\ IsSeq(rs) /\ \A i \in 1 .. Len(rs) : IsRecord(rs[i])
  /\ t \in Nat /\ t <= Capacity
  /\ InOrder(rs, t)
  /\ \A s \in DOMAIN c : \E i : Owns(rs, s, c[s].lo, c[s].lo + c[s].size, i)

(* This says all SitesApart does.                                          *)
LEMMA SiteInvSuffices == SiteInv(records, top, cache) => SitesApart
BY DEF SiteInv, InOrder, Aligned, Owns, SitesApart

(* A new record above all others, and its site's buffer                    *)
LEMMA FreshKeepsSites ==
  ASSUME NEW rs, NEW t, NEW c, SiteInv(rs, t, c), NEW here,
         NEW lo \in Nat, NEW hi \in Nat, t <= lo, Aligned(lo), lo <= hi, hi <= Capacity,
         NEW r, IsRecord(r), r.lo = lo, r.hi = hi, r.site = here,
         NEW c2, \A s \in DOMAIN c2 : \/ s = here /\ c2[s].lo = lo /\ c2[s].lo + c2[s].size = hi
                                      \/ s # here /\ s \in DOMAIN c /\ c2[s] = c[s]
  PROVE  SiteInv(Append(rs, r), hi, c2)
<1>1. t \in Nat
  BY DEF SiteInv
<1>2. PICK rs2 : rs2 = Append(rs, r)
  OBVIOUS
<1>3. PICK n \in Nat : n = Len(rs) /\ rs2 = Append(rs, r)
  BY <1>2, LenIs DEF SiteInv
<1>4. /\ IsSeq(rs2) /\ Len(rs2) = n + 1 /\ rs2[n + 1] = r
      /\ \A i \in 1 .. n : rs2[i] = rs[i]
  BY <1>3, AppendIs DEF SiteInv, Appended
<1>5. \A i \in 1 .. n + 1 : i \in 1 .. n \/ i = n + 1
  OBVIOUS
<1>6. \A i \in 1 .. n : /\ IsRecord(rs[i]) /\ rs[i].lo \in Nat /\ rs[i].hi \in Nat
                       /\ Aligned(rs[i].lo)
                       /\ rs[i].lo <= rs[i].hi /\ rs[i].hi <= t
  BY <1>3 DEF SiteInv, InOrder
<1>7. \A i \in 1 .. n + 1 : IsRecord(rs2[i])
  BY <1>4, <1>5, <1>6
<1>8. InOrder(rs2, hi)
  <2>1. ASSUME NEW i \in 1 .. n + 1
        PROVE  /\ rs2[i].lo \in Nat /\ rs2[i].hi \in Nat /\ Aligned(rs2[i].lo)
               /\ rs2[i].lo <= rs2[i].hi /\ rs2[i].hi <= hi
    <3>1. CASE i = n + 1
      BY <1>4, <3>1
    <3>2. CASE i \in 1 .. n
      BY <1>1, <1>4, <1>6, <3>2
    <3> QED BY <1>5, <3>1, <3>2
  <2>2. ASSUME NEW i \in 1 .. n + 1, NEW j \in 1 .. n + 1, i < j
        PROVE  rs2[i].hi <= rs2[j].lo
    <3>1. i \in 1 .. n
      BY <2>2
    <3>2. CASE j = n + 1
      BY <1>1, <1>4, <1>6, <3>1, <3>2
    <3>3. CASE j \in 1 .. n
      BY <1>3, <1>4, <2>2, <3>1, <3>3 DEF SiteInv, InOrder
    <3> QED BY <1>5, <3>2, <3>3
  <2> QED BY <1>4, <2>1, <2>2 DEF InOrder
<1>9. ASSUME NEW s \in DOMAIN c2
      PROVE  \E i : Owns(rs2, s, c2[s].lo, c2[s].lo + c2[s].size, i)
  <2>1. CASE s = here /\ c2[s].lo = lo /\ c2[s].lo + c2[s].size = hi
    <3>1. n + 1 \in 1 .. n + 1 /\ \A j \in 1 .. n + 1 : ~(j > n + 1)
      OBVIOUS
    <3>2. Owns(rs2, s, lo, hi, n + 1)
      BY <1>4, <2>1, <3>1 DEF Owns
    <3> QED BY <2>1, <3>2
  <2>2. CASE s # here /\ s \in DOMAIN c /\ c2[s] = c[s]
    <3>1. PICK i : Owns(rs, s, c[s].lo, c[s].lo + c[s].size, i)
      BY <2>2 DEF SiteInv
    <3>2. i \in 1 .. n /\ i \in 1 .. n + 1 /\ \A j \in 1 .. n : j > i => rs[j].site # s
      BY <1>3, <3>1 DEF Owns
    <3>3. \A j \in 1 .. n + 1 : j > i => rs2[j].site # s
      BY <1>4, <1>5, <2>2, <3>2
    <3>4. Owns(rs2, s, c[s].lo, c[s].lo + c[s].size, i)
      BY <1>4, <3>1, <3>2, <3>3 DEF Owns
    <3> QED BY <2>2, <3>4
  <2> QED BY <2>1, <2>2
<1> QED BY <1>3, <1>4, <1>7, <1>8, <1>9 DEF SiteInv

(* A record dies; what it says of its site stays.                          *)
LEMMA DeallocKeepsSites ==
  ASSUME NEW rs, NEW t, NEW c, SiteInv(rs, t, c), NEW k \in 1 .. Len(rs)
  PROVE  SiteInv([rs EXCEPT ![k].live = FALSE], t, c)
<1>1. PICK S : rs \in Seq(S)
  BY DEF SiteInv, IsSeq
<1>2. PICK n \in Nat : n = Len(rs) /\ rs \in [1 .. n -> S]
  BY <1>1
<1>3. PICK rs2 : rs2 = [rs EXCEPT ![k].live = FALSE]
  OBVIOUS
<1>4. rs2 = [i \in 1 .. n |-> IF i = k THEN [rs[k] EXCEPT !.live = FALSE] ELSE rs[i]]
  BY <1>2, <1>3
<1>5. \A i \in 1 .. n : /\ IsRecord(rs2[i]) /\ rs2[i].lo = rs[i].lo
                       /\ rs2[i].hi = rs[i].hi /\ rs2[i].site = rs[i].site
  <2> SUFFICES ASSUME NEW i \in 1 .. n
               PROVE  /\ IsRecord(rs2[i]) /\ rs2[i].lo = rs[i].lo
                      /\ rs2[i].hi = rs[i].hi /\ rs2[i].site = rs[i].site
    OBVIOUS
  <2>1. rs[i] = [lo |-> rs[i].lo, hi |-> rs[i].hi, site |-> rs[i].site, live |-> rs[i].live]
    BY <1>2 DEF SiteInv, IsRecord
  <2>2. CASE i = k
    <3>1. rs2[i] = [rs[i] EXCEPT !.live = FALSE]
      BY <1>4, <2>2
    <3>2. rs2[i] = [lo |-> rs[i].lo, hi |-> rs[i].hi, site |-> rs[i].site, live |-> FALSE]
      BY <2>1, <3>1
    <3> QED BY <3>2 DEF IsRecord
  <2>3. CASE i # k
    BY <1>4, <2>1, <2>3 DEF IsRecord
  <2> QED BY <2>2, <2>3
<1>6. IsSeq(rs2) /\ Len(rs2) = n
  <2>1. rs2 \in [1 .. n -> {rs2[i] : i \in 1 .. n}]
    BY <1>4
  <2>2. rs2 \in Seq({rs2[i] : i \in 1 .. n})
    BY <2>1, SeqDef
  <2>3. Len(rs2) \in Nat /\ 1 .. Len(rs2) = 1 .. n
    BY <2>1, <2>2, LenProperties
  <2> QED BY <2>2, <2>3 DEF IsSeq
<1>7. InOrder(rs2, t)
  BY <1>2, <1>5, <1>6 DEF SiteInv, InOrder
<1>8. \A s \in DOMAIN c : \E i : Owns(rs2, s, c[s].lo, c[s].lo + c[s].size, i)
  <2> SUFFICES ASSUME NEW s \in DOMAIN c
               PROVE  \E i : Owns(rs2, s, c[s].lo, c[s].lo + c[s].size, i)
    OBVIOUS
  <2>1. PICK i : Owns(rs, s, c[s].lo, c[s].lo + c[s].size, i)
    BY DEF SiteInv
  <2>2. Owns(rs2, s, c[s].lo, c[s].lo + c[s].size, i)
    BY <1>2, <1>5, <1>6, <2>1 DEF Owns
  <2> QED BY <2>2
<1> QED BY <1>2, <1>3, <1>5, <1>6, <1>7, <1>8 DEF SiteInv

(* Storage only changes hands when it is allocated or given back.          *)
LEMMA NextSites == SiteInv(records, top, cache) /\ [Next]_vars => SiteInv(records, top, cache)'
<1> SUFFICES ASSUME SiteInv(records, top, cache), [Next]_vars
             PROVE  SiteInv(records', top', cache')
  OBVIOUS
<1>1. CASE AllocFresh
  <2>1. CASE Extent.n \in 0 .. Capacity - AlignUp(top)
    <3>1. PICK lo, size, here : lo = AlignUp(top) /\ size = Extent.n /\ here = Here
      OBVIOUS
    <3>2. PICK buffer : buffer = Buffer(here, lo, size)
      OBVIOUS
    <3>3. buffer.lo = lo /\ buffer.size = size
      BY <3>2 DEF Buffer
    <3>4. PICK r : r = [lo |-> lo, hi |-> lo + size, site |-> here, live |-> TRUE]
      OBVIOUS
    <3>5. PICK c2 : c2 = [s \in DOMAIN cache \cup {here} |-> IF s = here THEN buffer ELSE cache[s]]
      OBVIOUS
    <3>6. top' = lo + size /\ records' = Append(records, r) /\ cache' = c2
      BY <1>1, <2>1, <3>1, <3>2, <3>3, <3>4, <3>5 DEF AllocFresh
    <3>7. IsRecord(r) /\ r.lo = lo /\ r.hi = lo + size /\ r.site = here
      BY <3>4 DEF IsRecord
    <3>8. top \in Nat /\ Capacity \in Nat /\ size \in 0 .. Capacity - lo
      BY <2>1, <3>1, ArenaAssumption DEF SiteInv
    <3>9. lo \in Nat /\ top <= lo /\ Aligned(lo)
      BY <3>1, <3>8, AlignUpFacts DEF Aligned
    <3>10. PICK hi \in Nat : hi = lo + size /\ lo <= hi /\ hi <= Capacity
      BY <3>8, <3>9
    <3>11. \A s \in DOMAIN c2 : \/ s = here /\ c2[s].lo = lo /\ c2[s].lo + c2[s].size = hi
                                \/ s # here /\ s \in DOMAIN cache /\ c2[s] = cache[s]
      BY <3>3, <3>5, <3>10
    <3>12. SiteInv(Append(records, r), hi, c2)
      BY <3>7, <3>9, <3>10, <3>11, FreshKeepsSites
    <3> QED BY <3>6, <3>10, <3>12
  <2>2. CASE Extent.n \notin 0 .. Capacity - AlignUp(top)
    <3>1. Buffer(Here, AlignUp(top), Extent.n).size = Extent.n
      BY DEF Buffer
    <3>2. UNCHANGED arena
      BY <1>1, <2>2, <3>1 DEF AllocFresh
    <3> QED BY <3>2 DEF arena
  <2> QED BY <2>1, <2>2
<1>2. CASE Dealloc
  <2>1. top' = top /\ cache' = cache
    BY <1>2 DEF Dealloc
  <2>2. CASE records' = records
    BY <2>1, <2>2
  <2>3. CASE records' # records
    <3>1. PICK there, k : /\ there = {i \in DOMAIN records :
                                       records[i].lo = Get(CurrentOp.args[1]).lo /\ records[i].live}
                          /\ k = (CHOOSE i \in there : \A j \in there : j <= i)
      OBVIOUS
    <3>2. there # {} /\ records' = [records EXCEPT ![k].live = FALSE]
      BY <1>2, <2>3, <3>1 DEF Dealloc
    <3>3. CASE k \in DOMAIN records
      <4>1. DOMAIN records = 1 .. Len(records)
        BY DEF SiteInv, IsSeq
      <4> QED BY <2>1, <3>2, <3>3, <4>1, DeallocKeepsSites
    <3>4. CASE k \notin DOMAIN records
      <4>1. PICK S : records \in [DOMAIN records -> S]
        BY DEF SiteInv, IsSeq
      <4> QED BY <2>3, <3>2, <3>4, <4>1
    <3> QED BY <3>3, <3>4
  <2> QED BY <2>2, <2>3
<1>3. CASE Next /\ ~AllocFresh /\ ~Dealloc
  <2>1. records' = records /\ top' = top /\ cache' = cache
    BY <1>3 DEF Next, Constant, Binary, Compare, Select, For, If, While, Condition, YieldFor,
      YieldAfter, YieldPlain, ExecuteRegion, IndexSwitch, Branch, CondBranch, Call, Return,
      AllocAgain, AllocUnbound, Load, Store, RunsOff, Unsupported, StepLimit, Computing, arena
  <2> QED BY <2>1
<1>4. CASE UNCHANGED vars
  BY <1>4 DEF vars, arena
<1> QED BY <1>1, <1>2, <1>3, <1>4

(* Bytes handed out once are never handed to another site, whatever is     *)
(* deallocated or changes its shape, and a site owns the storage of its    *)
(* last record (Arena::allocate, allocateMemRef).                          *)
THEOREM SitesStayApart == Spec => []SitesApart
<1>1. Init => SiteInv(records, top, cache)
  <2> SUFFICES ASSUME Init PROVE SiteInv(records, top, cache)
    OBVIOUS
  <2>1. records = <<>> /\ top = 0 /\ DOMAIN cache = {}
    BY DEF Init
  <2>2. IsSeq(records) /\ Len(records) = 0 /\ 1 .. Len(records) = {}
    <3>1. records \in Seq({})
      BY <2>1
    <3> QED BY <2>1, <3>1 DEF IsSeq
  <2> QED BY <2>1, <2>2, ArenaAssumption DEF SiteInv, InOrder
<1> QED BY <1>1, NextSites, SiteInvSuffices, PTL DEF Spec

-----------------------------------------------------------------------------
(* A frame whose regions stand on their owners, called from c              *)
Nested(rs) ==
  /\ IsSeq(rs) /\ Len(rs) > 0
  /\ \A j \in 2 .. Len(rs) : rs[j].owner = StandsAt(rs[j - 1])

Fits(f, c) == Nested(f.regions) /\ f.callOp = c

(* A frame has the fields it is made of, ...                               *)
LEMMA FrameFields ==
  ASSUME NEW c, NEW e, NEW rs
  PROVE  MakeFrame(c, e, rs).callOp = c /\ MakeFrame(c, e, rs).regions = rs
BY DEF MakeFrame

(* ... and keeps its caller when its regions change.                       *)
LEMMA WithRegionsIs ==
  ASSUME NEW f, NEW rs
  PROVE  WithRegions(f, rs).callOp = f.callOp /\ WithRegions(f, rs).regions = rs
BY DEF WithRegions, MakeFrame

(* Binding names leaves the regions alone, ...                             *)
LEMMA BindFits ==
  ASSUME NEW f, NEW c, Fits(f, c), NEW names, NEW values
  PROVE  Fits(Bind(f, names, values), c)
BY FrameFields DEF Bind, Fits

(* ... the innermost region may move, ...                                  *)
LEMMA AdvanceFits ==
  ASSUME NEW f, NEW c, Fits(f, c)
  PROVE  Fits(AdvanceIp(f), c)
<1>1. PICK rs : rs = f.regions
  OBVIOUS
<1>2. PICK n \in Nat : rs = f.regions /\ n = Len(rs) /\ n > 0 /\ IsSeq(rs)
  BY <1>1, LenIs DEF Fits, Nested
<1>3. PICK moved : moved = MovedTo(rs[n], rs[n].ip + 1)
  OBVIOUS
<1>4. moved.owner = rs[n].owner
  BY <1>3 DEF MovedTo, MakeRegion
<1>5. PICK low : low = ButLast(rs)
  OBVIOUS
<1>6. IsSeq(low) /\ Len(low) = n - 1 /\ \A i \in 1 .. n - 1 : low[i] = rs[i]
  BY <1>2, <1>5, ButLastIs DEF Shortened
<1>7. PICK new : new = Append(low, moved)
  OBVIOUS
<1>8. /\ IsSeq(new) /\ Len(new) = n /\ new[n] = moved /\ \A i \in 1 .. n - 1 : new[i] = rs[i]
  BY <1>2, <1>6, <1>7, AppendIs DEF Appended
<1>9. ASSUME NEW j \in 2 .. n PROVE new[j].owner = StandsAt(new[j - 1])
  <2>1. j - 1 \in 1 .. n - 1 /\ (j = n \/ j \in 1 .. n - 1)
    BY <1>2
  <2>2. new[j].owner = rs[j].owner /\ new[j - 1] = rs[j - 1]
    BY <1>4, <1>8, <2>1
  <2>3. rs[j].owner = StandsAt(rs[j - 1])
    BY <1>2 DEF Fits, Nested
  <2> QED BY <2>2, <2>3
<1>10. AdvanceIp(f).regions = new /\ AdvanceIp(f).callOp = c
  BY <1>2, <1>3, <1>5, <1>7, WithRegionsIs DEF AdvanceIp, Last, Fits
<1> QED BY <1>2, <1>8, <1>9, <1>10 DEF Fits, Nested

(* ... a region may be opened by the operation the innermost stands on,    *)
LEMMA PushFits ==
  ASSUME NEW f, NEW c, Fits(f, c), NEW r, r.owner = StandsAt(Last(f.regions))
  PROVE  Fits(PushRegion(f, r), c)
<1>1. PICK rs : rs = f.regions
  OBVIOUS
<1>2. PICK n \in Nat : rs = f.regions /\ n = Len(rs) /\ n > 0 /\ IsSeq(rs)
  BY <1>1, LenIs DEF Fits, Nested
<1>3. PICK new : new = Append(rs, r)
  OBVIOUS
<1>4. IsSeq(new) /\ Len(new) = n + 1 /\ new[n + 1] = r /\ \A i \in 1 .. n : new[i] = rs[i]
  BY <1>2, <1>3, AppendIs DEF Appended
<1>5. ASSUME NEW j \in 2 .. n + 1 PROVE new[j].owner = StandsAt(new[j - 1])
  <2>1. j - 1 \in 1 .. n /\ (j = n + 1 \/ j \in 2 .. n)
    BY <1>2
  <2>2. CASE j = n + 1
    <3>1. new[j - 1] = rs[n] /\ new[j] = r
      BY <1>4, <2>1, <2>2
    <3> QED BY <1>2, <3>1 DEF Last
  <2>3. CASE j \in 2 .. n
    <3>1. new[j - 1] = rs[j - 1] /\ new[j] = rs[j]
      BY <1>4, <2>1, <2>3
    <3> QED BY <1>2, <2>3, <3>1 DEF Fits, Nested
  <2> QED BY <2>1, <2>2, <2>3
<1>6. PushRegion(f, r).regions = new /\ PushRegion(f, r).callOp = c
  BY <1>2, <1>3, WithRegionsIs DEF PushRegion, Fits
<1> QED BY <1>2, <1>4, <1>5, <1>6 DEF Fits, Nested

(* ... the innermost may be closed, and its owner is where its parent      *)
(* stands,                                                                 *)
LEMMA PopFits ==
  ASSUME NEW f, NEW c, Fits(f, c), Len(f.regions) > 1
  PROVE  /\ Fits(PopRegion(f), c)
         /\ Last(f.regions).owner = StandsAt(Last(PopRegion(f).regions))
<1>1. PICK rs : rs = f.regions
  OBVIOUS
<1>2. PICK n \in Nat : rs = f.regions /\ n = Len(rs) /\ n > 1 /\ IsSeq(rs)
  BY <1>1, LenIs DEF Fits, Nested
<1>3. PICK low : low = ButLast(rs)
  OBVIOUS
<1>4. IsSeq(low) /\ Len(low) = n - 1 /\ \A i \in 1 .. n - 1 : low[i] = rs[i]
  BY <1>2, <1>3, ButLastIs DEF Shortened
<1>5. ASSUME NEW j \in 2 .. n - 1 PROVE low[j].owner = StandsAt(low[j - 1])
  <2>1. j \in 1 .. n - 1 /\ j - 1 \in 1 .. n - 1 /\ j \in 2 .. n
    BY <1>2
  <2> QED BY <1>2, <1>4, <2>1 DEF Fits, Nested
<1>6. PopRegion(f).regions = low /\ PopRegion(f).callOp = c
  BY <1>2, <1>3, WithRegionsIs DEF PopRegion, Fits
<1>7. rs[n].owner = StandsAt(low[n - 1])
  <2>1. n \in 2 .. n /\ n - 1 \in 1 .. n - 1
    BY <1>2
  <2> QED BY <1>2, <1>4, <2>1 DEF Fits, Nested
<1>8. Last(f.regions) = rs[n] /\ Last(low) = low[n - 1]
  BY <1>2, <1>4 DEF Last
<1> QED BY <1>2, <1>4, <1>5, <1>6, <1>7, <1>8 DEF Fits, Nested

(* ... and it may give way to another region of its owner, for a function  *)
(* body too.                                                               *)
LEMMA SwapFits ==
  ASSUME NEW f, NEW c, Fits(f, c), NEW r, r.owner = Last(f.regions).owner
  PROVE  Fits(PushRegion(PopRegion(f), r), c)
<1>1. PICK rs : rs = f.regions /\ IsSeq(rs) /\ Len(rs) > 0
  BY DEF Fits, Nested
<1>2. PICK n \in Nat : n = Len(rs) /\ (n = 1 \/ n > 1)
  BY <1>1, LenIs
<1>3. CASE n > 1
  BY <1>1, <1>2, <1>3, PopFits, PushFits
<1>4. CASE n = 1
  <2>1. PICK low : low = ButLast(rs)
    OBVIOUS
  <2>2. Shortened(low, rs)
    BY <1>1, <2>1, ButLastIs
  <2>3. IsSeq(low) /\ Len(low) = 0
    <3>1. IsSeq(low) /\ Len(low) = n - 1
      BY <1>2, <2>2 DEF Shortened
    <3>2. n - 1 = 0
      BY <1>4
    <3> QED BY <3>1, <3>2
  <2>4. PICK new : new = Append(low, r)
    OBVIOUS
  <2>5. Appended(new, low, r)
    BY <2>3, <2>4, AppendIs
  <2>6. IsSeq(new) /\ Len(new) = 1
    BY <2>3, <2>5 DEF Appended
  <2>7. PopRegion(f).regions = low /\ PopRegion(f).callOp = c
    BY <1>1, <2>1, WithRegionsIs DEF PopRegion, Fits
  <2>8. PushRegion(PopRegion(f), r).regions = new /\ PushRegion(PopRegion(f), r).callOp = c
    BY <2>4, <2>7, WithRegionsIs DEF PushRegion
  <2>9. 2 .. 1 = {}
    OBVIOUS
  <2>10. Nested(new)
    BY <2>6, <2>9 DEF Nested
  <2> QED BY <2>8, <2>10 DEF Fits
<1> QED BY <1>2, <1>3, <1>4

-----------------------------------------------------------------------------
(* The stack as a whole: every frame fits, and below a frame stands the    *)
(* operation that called it.                                               *)
Chained(st) ==
  /\ IsSeq(st)
  /\ \A k \in 1 .. Len(st) : Nested(st[k].regions)
  /\ \A k \in 2 .. Len(st) : st[k].callOp = StandsAt(Last(st[k - 1].regions))

(* A running core has a frame.                                             *)
NestInv == Chained(stack) /\ (status = "running" => Len(stack) > 0)

(* This says all NestedOnOwners does.                                      *)
LEMMA NestSuffices == NestInv => NestedOnOwners
<1> SUFFICES ASSUME NestInv, NEW k \in 1 .. Len(stack)
             PROVE  /\ k > 1 => stack[k].callOp = StandsAt(Last(stack[k - 1].regions))
                    /\ \A j \in 2 .. Len(stack[k].regions) :
                         stack[k].regions[j].owner = StandsAt(stack[k].regions[j - 1])
  BY DEF NestedOnOwners
<1>1. Len(stack) \in Nat
  BY LenIs DEF NestInv, Chained
<1>2. k > 1 => k \in 2 .. Len(stack)
  BY <1>1
<1> QED BY <1>2 DEF NestInv, Chained, Nested

(* The top frame becomes another of the same caller: Continue              *)
LEMMA ReplaceTop ==
  ASSUME NEW st, Chained(st), Len(st) > 0, NEW g, Fits(g, st[Len(st)].callOp)
  PROVE  Chained(Append(ButLast(st), g)) /\ Len(Append(ButLast(st), g)) > 0
<1>1. PICK n \in Nat : n = Len(st) /\ n > 0 /\ IsSeq(st)
  BY LenIs DEF Chained
<1>2. PICK low : low = ButLast(st)
  OBVIOUS
<1>3. IsSeq(low) /\ Len(low) = n - 1 /\ \A i \in 1 .. n - 1 : low[i] = st[i]
  BY <1>1, <1>2, ButLastIs DEF Shortened
<1>4. PICK new : new = Append(low, g)
  OBVIOUS
<1>5. /\ IsSeq(new) /\ Len(new) = n /\ new[n] = g /\ \A i \in 1 .. n - 1 : new[i] = st[i]
  BY <1>1, <1>3, <1>4, AppendIs DEF Appended
<1>6. \A k \in 1 .. n : k = n \/ k \in 1 .. n - 1
  BY <1>1
<1>7. \A k \in 1 .. n : Nested(new[k].regions) /\ new[k].callOp = st[k].callOp
  BY <1>1, <1>5, <1>6 DEF Chained, Fits
<1>8. ASSUME NEW k \in 2 .. n PROVE new[k].callOp = StandsAt(Last(new[k - 1].regions))
  <2>1. k \in 1 .. n /\ k - 1 \in 1 .. n - 1
    BY <1>1
  <2>2. new[k].callOp = st[k].callOp /\ new[k - 1] = st[k - 1]
    BY <1>5, <1>7, <2>1
  <2>3. st[k].callOp = StandsAt(Last(st[k - 1].regions))
    BY <1>1 DEF Chained
  <2> QED BY <2>2, <2>3
<1> QED BY <1>1, <1>2, <1>4, <1>5, <1>7, <1>8 DEF Chained

(* A frame is pushed by the operation the top frame stands on: pushCall    *)
LEMMA PushFrame ==
  ASSUME NEW st, Chained(st), Len(st) > 0,
         NEW g, Fits(g, StandsAt(Last(st[Len(st)].regions)))
  PROVE  Chained(Append(st, g)) /\ Len(Append(st, g)) > 0
<1>1. PICK n \in Nat : n = Len(st) /\ n > 0 /\ IsSeq(st)
  BY LenIs DEF Chained
<1>2. PICK new : new = Append(st, g)
  OBVIOUS
<1>3. /\ IsSeq(new) /\ Len(new) = n + 1 /\ new[n + 1] = g /\ \A i \in 1 .. n : new[i] = st[i]
  BY <1>1, <1>2, AppendIs DEF Appended
<1>4. \A k \in 1 .. n + 1 : k = n + 1 \/ k \in 1 .. n
  BY <1>1
<1>5. \A k \in 1 .. n + 1 : Nested(new[k].regions)
  BY <1>1, <1>3, <1>4 DEF Chained, Fits
<1>6. ASSUME NEW k \in 2 .. n + 1 PROVE new[k].callOp = StandsAt(Last(new[k - 1].regions))
  <2>1. k - 1 \in 1 .. n /\ (k = n + 1 \/ k \in 2 .. n)
    BY <1>1
  <2>2. CASE k = n + 1
    <3>1. new[k] = g /\ new[k - 1] = st[n]
      BY <1>3, <2>1, <2>2
    <3> QED BY <1>1, <3>1 DEF Fits
  <2>3. CASE k \in 2 .. n
    <3>1. new[k] = st[k] /\ new[k - 1] = st[k - 1]
      BY <1>3, <2>1, <2>3
    <3> QED BY <1>1, <2>3, <3>1 DEF Chained
  <2> QED BY <2>1, <2>2, <2>3
<1>7. n + 1 > 0
  OBVIOUS
<1> QED BY <1>2, <1>3, <1>5, <1>6, <1>7 DEF Chained

(* A frame is popped: popCall                                              *)
LEMMA PopFrame ==
  ASSUME NEW st, Chained(st), Len(st) > 1
  PROVE  /\ Chained(ButLast(st)) /\ Len(ButLast(st)) > 0
         /\ ButLast(st)[Len(ButLast(st))] = Last(ButLast(st))
         /\ Fits(Last(ButLast(st)), Last(ButLast(st)).callOp)
<1>1. PICK n \in Nat : n = Len(st) /\ n > 1 /\ IsSeq(st)
  BY LenIs DEF Chained
<1>2. PICK low : low = ButLast(st)
  OBVIOUS
<1>3. IsSeq(low) /\ Len(low) = n - 1 /\ \A i \in 1 .. n - 1 : low[i] = st[i]
  BY <1>1, <1>2, ButLastIs DEF Shortened
<1>4. \A k \in 1 .. n - 1 : k \in 1 .. n /\ low[k] = st[k]
  BY <1>1, <1>3
<1>5. \A k \in 1 .. n - 1 : Nested(low[k].regions)
  BY <1>1, <1>4 DEF Chained
<1>6. ASSUME NEW k \in 2 .. n - 1 PROVE low[k].callOp = StandsAt(Last(low[k - 1].regions))
  <2>1. k \in 1 .. n - 1 /\ k - 1 \in 1 .. n - 1 /\ k \in 2 .. n
    BY <1>1
  <2> QED BY <1>1, <1>3, <2>1 DEF Chained
<1>7. n - 1 \in 1 .. n - 1 /\ n - 1 > 0 /\ Last(low) = low[n - 1]
  BY <1>1, <1>3 DEF Last
<1>8. Chained(low) /\ Len(low) > 0 /\ low[Len(low)] = Last(low)
  BY <1>3, <1>5, <1>6, <1>7 DEF Chained
<1>9. Fits(Last(low), Last(low).callOp)
  BY <1>5, <1>7 DEF Fits
<1> QED BY <1>2, <1>8, <1>9

-----------------------------------------------------------------------------
(* What the handlers make of the frame                                     *)
LEMMA FrameNow ==
  ASSUME NestInv, status = "running"
  PROVE  /\ Chained(stack) /\ Len(stack) > 0 /\ Frame = stack[Len(stack)]
         /\ Fits(Frame, Frame.callOp) /\ Here = StandsAt(Last(Frame.regions))
         /\ Region = Last(Frame.regions)
<1>1. Chained(stack) /\ Len(stack) > 0 /\ Len(stack) \in Nat
  BY LenIs DEF NestInv, Chained
<1>2. Frame = stack[Len(stack)]
  BY DEF Frame, Last
<1>3. Nested(Frame.regions)
  BY <1>1, <1>2 DEF Chained
<1> QED BY <1>1, <1>2, <1>3 DEF Fits, Here, Region, StandsAt

(* A handler that goes on in a frame that fits keeps the nesting.          *)
LEMMA ContinueKeeps ==
  ASSUME NestInv, status = "running", NEW g, Fits(g, Frame.callOp), Continue(g)
  PROVE  NestInv'
<1>1. Chained(stack) /\ Len(stack) > 0 /\ Frame = stack[Len(stack)]
  BY FrameNow
<1>2. stack' = Append(ButLast(stack), g)
  BY DEF Continue
<1>3. Chained(Append(ButLast(stack), g)) /\ Len(Append(ButLast(stack), g)) > 0
  BY <1>1, ReplaceTop
<1> QED BY <1>2, <1>3 DEF NestInv

(* One that fails keeps the stack.                                         *)
LEMMA FailKeeps ==
  ASSUME NestInv, Fail
  PROVE  NestInv'
BY DEF NestInv, Fail

(* A region has the owner it is made with.                                 *)
LEMMA RegionOwner ==
  ASSUME NEW owner, NEW block, NEW ip, NEW loop
  PROVE  MakeRegion(owner, block, ip, loop).owner = owner
BY DEF MakeRegion

(* A region entered by the operation the frame stands on                   *)
LEMMA EnterFits ==
  ASSUME NEW f, NEW c, Fits(f, c), NEW owner, owner = StandsAt(Last(f.regions)),
         NEW block, NEW loop, NEW values
  PROVE  Fits(Enter(f, owner, block, loop, values), c)
<1>1. PICK r : r = MakeRegion(owner, block, 1, loop)
  OBVIOUS
<1>2. Fits(PushRegion(f, r), c)
  BY <1>1, PushFits, RegionOwner
<1> QED BY <1>1, <1>2, BindFits DEF Enter

(* A region entered again, or another one of the same operation            *)
LEMMA ReenterFits ==
  ASSUME NEW f, NEW c, Fits(f, c), NEW owner, owner = Last(f.regions).owner,
         NEW block, NEW loop, NEW values
  PROVE  Fits(Enter(PopRegion(f), owner, block, loop, values), c)
<1>1. PICK r : r = MakeRegion(owner, block, 1, loop)
  OBVIOUS
<1>2. Fits(PushRegion(PopRegion(f), r), c)
  BY <1>1, SwapFits, RegionOwner
<1> QED BY <1>1, <1>2, BindFits DEF Enter

(* A region closed for good: its parent gets the results and moves on.     *)
LEMMA LeaveFits ==
  ASSUME NEW f, NEW c, Fits(f, c), Len(f.regions) > 1, NEW names, NEW values
  PROVE  Fits(AdvanceIp(Bind(PopRegion(f), names, values)), c)
BY PopFits, BindFits, AdvanceFits

(* A frame as it is called                                                 *)
LEMMA NewFrameFits ==
  ASSUME NEW c, NEW block, NEW values
  PROVE  Fits(NewFrame(c, block, values), c)
<1>1. PICK rs : rs = <<MakeRegion(NoPlace, block, 1, NoLoop)>>
  OBVIOUS
<1>2. IsSeq(rs) /\ Len(rs) = 1
  <2>1. rs \in Seq({MakeRegion(NoPlace, block, 1, NoLoop)}) /\ Len(rs) = 1
    BY <1>1
  <2> QED BY <2>1 DEF IsSeq
<1>3. 2 .. 1 = {}
  OBVIOUS
<1>4. Nested(rs)
  BY <1>2, <1>3 DEF Nested
<1>5. PICK f : f = MakeFrame(c, [x \in {} |-> None], rs)
  OBVIOUS
<1>6. Fits(f, c)
  BY <1>4, <1>5, FrameFields DEF Fits
<1> QED BY <1>1, <1>5, <1>6, BindFits DEF NewFrame

-----------------------------------------------------------------------------
(* Handlers that open no region                                            *)
Scalars == Constant \/ Binary \/ Compare \/ Select
Memory == AllocAgain \/ AllocFresh \/ AllocUnbound \/ Dealloc \/ Load \/ Store

(* They move past themselves, or fail.                                     *)
LEMMA StraightKeeps ==
  ASSUME NestInv, Scalars \/ Memory
  PROVE  NestInv'
<1>1. status = "running"
  BY DEF Scalars, Memory, Constant, Binary, Compare, Select, AllocAgain, AllocFresh, AllocUnbound,
    Dealloc, Load, Store, Executes, Counted
<1>2. Fits(Frame, Frame.callOp)
  BY <1>1, FrameNow
<1>3. ASSUME NEW names, NEW values, Advance(Bind(Frame, names, values)) PROVE NestInv'
  BY <1>1, <1>2, <1>3, BindFits, AdvanceFits, ContinueKeeps DEF Advance
<1>4. ASSUME Advance(Frame) PROVE NestInv'
  BY <1>1, <1>2, <1>4, AdvanceFits, ContinueKeeps DEF Advance
<1>5. CASE Scalars
  <2>1. Fail \/ \E names, values : Advance(Bind(Frame, names, values))
    BY <1>5 DEF Scalars, Constant, Binary, Compare, Select
  <2> QED BY <1>3, <2>1, FailKeeps
<1>6. CASE Memory
  <2>1. Fail \/ Advance(Frame) \/ \E names, values : Advance(Bind(Frame, names, values))
    BY <1>6 DEF Memory, AllocAgain, AllocFresh, AllocUnbound, Dealloc, Load, Store
  <2> QED BY <1>3, <1>4, <2>1, FailKeeps
<1> QED BY <1>5, <1>6

(* Handlers that open a region                                             *)
LEMMA OpenKeeps ==
  ASSUME NestInv, For \/ If \/ While \/ ExecuteRegion \/ IndexSwitch
  PROVE  NestInv'
<1>1. status = "running"
  BY DEF For, If, While, ExecuteRegion, IndexSwitch, Executes, Counted
<1>2. Fits(Frame, Frame.callOp) /\ Here = StandsAt(Last(Frame.regions))
  BY <1>1, FrameNow
<1>3. ASSUME NEW block, NEW loop, NEW values, Continue(Enter(Frame, Here, block, loop, values))
      PROVE  NestInv'
  BY <1>1, <1>2, <1>3, EnterFits, ContinueKeeps
<1>4. ASSUME NEW names, NEW values, Advance(Bind(Frame, names, values)) PROVE NestInv'
  BY <1>1, <1>2, <1>4, BindFits, AdvanceFits, ContinueKeeps DEF Advance
<1>5. ASSUME Advance(Frame) PROVE NestInv'
  BY <1>1, <1>2, <1>5, AdvanceFits, ContinueKeeps DEF Advance
<1>6. \/ Fail \/ Advance(Frame) \/ \E names, values : Advance(Bind(Frame, names, values))
      \/ \E block, loop, values : Continue(Enter(Frame, Here, block, loop, values))
  BY DEF For, If, While, ExecuteRegion, IndexSwitch
<1> QED BY <1>3, <1>4, <1>5, <1>6, FailKeeps

(* Terminators                                                             *)
LEMMA EndKeeps ==
  ASSUME NestInv, Condition \/ YieldFor \/ YieldAfter \/ YieldPlain
  PROVE  NestInv'
<1>1. status = "running" /\ Len(Frame.regions) > 1
  BY DEF Condition, YieldFor, YieldAfter, YieldPlain, Ends, Executes, Counted
<1>2. Fits(Frame, Frame.callOp) /\ Region = Last(Frame.regions)
  BY <1>1, FrameNow
<1>3. ASSUME NEW block, NEW loop, NEW values,
             Continue(Enter(PopRegion(Frame), Region.owner, block, loop, values))
      PROVE  NestInv'
  BY <1>1, <1>2, <1>3, ReenterFits, ContinueKeeps
<1>4. ASSUME NEW names, NEW values, Advance(Bind(PopRegion(Frame), names, values))
      PROVE  NestInv'
  BY <1>1, <1>2, <1>4, LeaveFits, ContinueKeeps DEF Advance
<1>5. \/ Fail \/ \E names, values : Advance(Bind(PopRegion(Frame), names, values))
      \/ \E block, loop, values :
           Continue(Enter(PopRegion(Frame), Region.owner, block, loop, values))
  BY DEF Condition, YieldFor, YieldAfter, YieldPlain
<1> QED BY <1>3, <1>4, <1>5, FailKeeps

(* Branches                                                                *)
LEMMA JumpKeeps ==
  ASSUME NestInv, Branch \/ CondBranch
  PROVE  NestInv'
<1>1. status = "running"
  BY DEF Branch, CondBranch, Executes, Counted
<1>2. Fits(Frame, Frame.callOp) /\ Region = Last(Frame.regions)
  BY <1>1, FrameNow
<1>3. ASSUME NEW dest, NEW values, JumpTo(dest, values) PROVE NestInv'
  <2>1. PICK r : r = MakeRegion(Region.owner, dest, 1, Region.loop)
    OBVIOUS
  <2>2. Fits(PushRegion(PopRegion(Frame), r), Frame.callOp)
    BY <1>2, <2>1, SwapFits, RegionOwner
  <2>3. Continue(Bind(PushRegion(PopRegion(Frame), r), Blocks[dest].args, values))
    BY <1>3, <2>1 DEF JumpTo
  <2> QED BY <1>1, <2>2, <2>3, BindFits, ContinueKeeps
<1>4. Fail \/ \E dest, values : JumpTo(dest, values)
  BY DEF Branch, CondBranch
<1> QED BY <1>3, <1>4, FailKeeps

(* Calls and returns                                                       *)
LEMMA CallKeeps ==
  ASSUME NestInv, Call
  PROVE  NestInv'
<1>1. status = "running" /\ status' = status
  BY DEF Call, Executes, Counted
<1>2. /\ Chained(stack) /\ Len(stack) > 0 /\ Frame = stack[Len(stack)]
      /\ Here = StandsAt(Last(Frame.regions))
  BY <1>1, FrameNow
<1>3. PICK g : g = NewFrame(Here, CurrentOp.callee, Gather(CurrentOp.args))
  OBVIOUS
<1>4. Fits(g, StandsAt(Last(stack[Len(stack)].regions)))
  BY <1>2, <1>3, NewFrameFits
<1>5. stack' = Append(stack, g)
  BY <1>3 DEF Call
<1> QED BY <1>2, <1>4, <1>5, PushFrame DEF NestInv

(* func.return binds its values in the caller, which stands on the call.   *)
LEMMA ReturnKeeps ==
  ASSUME NestInv, Return
  PROVE  NestInv'
<1>1. status = "running"
  BY DEF Return, Executes, Counted
<1>2. Chained(stack) /\ Len(stack) > 0 /\ Len(stack) \in Nat
  BY <1>1, FrameNow, LenIs DEF Chained
<1>3. CASE Len(stack) = 1
  <2>1. stack' = <<>> /\ status' = "done"
    BY <1>3 DEF Return
  <2>2. IsSeq(<<>>) /\ Len(<<>>) = 0
    <3>1. <<>> \in Seq({}) /\ Len(<<>>) = 0
      OBVIOUS
    <3> QED BY <3>1 DEF IsSeq
  <2> QED BY <2>1, <2>2 DEF NestInv, Chained
<1>4. CASE Len(stack) # 1
  <2>1. PICK low : low = ButLast(stack)
    OBVIOUS
  <2>2. /\ Chained(low) /\ Len(low) > 0 /\ low[Len(low)] = Last(low)
        /\ Fits(Last(low), Last(low).callOp)
    <3>1. Len(stack) > 1
      <4>1. PICK n \in Nat : n = Len(stack) /\ n > 0 /\ n # 1
        BY <1>2, <1>4
      <4>2. n > 1
        BY <4>1
      <4> QED BY <4>1, <4>2
    <3> QED BY <1>2, <2>1, <3>1, PopFrame
  <2>3. PICK g : g = AdvanceIp(Bind(Last(low), Op(Frame.callOp).results, Gather(CurrentOp.args)))
    OBVIOUS
  <2>4. Fits(g, low[Len(low)].callOp)
    BY <2>2, <2>3, BindFits, AdvanceFits
  <2>5. stack' = Append(ButLast(low), g)
    BY <1>4, <2>1, <2>3 DEF Return
  <2> QED BY <2>2, <2>4, <2>5, ReplaceTop DEF NestInv
<1> QED BY <1>3, <1>4

(* Every step keeps the nesting.                                           *)
LEMMA NextNest == NestInv /\ [Next]_vars => NestInv'
<1> SUFFICES ASSUME NestInv, [Next]_vars PROVE NestInv'
  OBVIOUS
<1>1. CASE Scalars \/ Memory
  BY <1>1, StraightKeeps
<1>2. CASE For \/ If \/ While \/ ExecuteRegion \/ IndexSwitch
  BY <1>2, OpenKeeps
<1>3. CASE Condition \/ YieldFor \/ YieldAfter \/ YieldPlain
  BY <1>3, EndKeeps
<1>4. CASE Branch \/ CondBranch
  BY <1>4, JumpKeeps
<1>5. CASE Call
  BY <1>5, CallKeeps
<1>6. CASE Return
  BY <1>6, ReturnKeeps
<1>7. CASE RunsOff \/ Unsupported
  BY <1>7, FailKeeps DEF RunsOff, Unsupported
<1>8. CASE StepLimit
  BY <1>8 DEF StepLimit, NestInv
<1>9. CASE UNCHANGED vars
  BY <1>9 DEF vars, flow, NestInv
<1> QED BY <1>1, <1>2, <1>3, <1>4, <1>5, <1>6, <1>7, <1>8, <1>9 DEF Next, Scalars, Memory

(* Whoever pops a region or a call finds the parent standing on the        *)
(* operation that opened it: advanceIp after popRegion and popCall relies  *)
(* on it, and so do the results bound there ("the parent instruction       *)
(* pointer is still on the scf.while").                                    *)
THEOREM ParentsStandOnOwners == Spec => []NestedOnOwners
<1>1. Init => NestInv
  <2> SUFFICES ASSUME Init PROVE NestInv
    OBVIOUS
  <2>1. PICK f : f = NewFrame(NoPlace, 1, Programs[program].args)
    OBVIOUS
  <2>2. Nested(f.regions) /\ stack = <<f>>
    BY <2>1, NewFrameFits DEF Fits, Init
  <2>3. IsSeq(stack) /\ Len(stack) = 1 /\ stack[1] = f
    <3>1. stack \in Seq({f}) /\ Len(stack) = 1 /\ stack[1] = f
      BY <2>2
    <3> QED BY <3>1 DEF IsSeq
  <2>4. 1 .. 1 = {1} /\ 2 .. 1 = {}
    OBVIOUS
  <2>5. Chained(stack)
    BY <2>2, <2>3, <2>4 DEF Chained
  <2> QED BY <2>3, <2>5 DEF NestInv
<1> QED BY <1>1, NextNest, NestSuffices, PTL DEF Spec
=============================================================================
