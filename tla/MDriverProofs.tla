--------------------------- MODULE MDriverProofs ---------------------------
(***************************************************************************)
(* Theorems about mdriver over the allocator, for every region, every set  *)
(* of ids and of sizes, traces of any length and any number of speed runs: *)
(* what the driver believes it holds is what the allocator handed out, in  *)
(* every pass, no check of the correctness pass ever fails, and the total  *)
(* of the utilization pass fits into the heap.                             *)
(***************************************************************************)
EXTENDS MDriver, MMProofs, ListLemmas

\* The pattern of an id fits into the char it is read back as. With an id whose
\* low byte is 128 or more the comparison fails, as the run driver_char shows.
PatternsFit ==
  \A id \in Ids : Checks!Pattern(id) \in Tags /\ Checks!Pattern(id) < 128

-----------------------------------------------------------------------------
(* What the driver keeps true.                                             *)

Requests ==
  [type : {"ALLOC", "REALLOC"}, index : Ids, size : Sizes \ {0}]
  \union [type : {"FREE"}, index : Ids, size : {0}]

\* The ids allocated after the first n operations of a trace.
UsedAt(t, n) ==
  { id \in Ids :
      \E j \in 1 .. n :
        /\ t[j].type = "ALLOC" /\ t[j].index = id
        /\ \A k \in j + 1 .. n : ~ (t[k].type = "FREE" /\ t[k].index = id) }

MakesSense(op, used) ==
  IF op.type = "ALLOC" THEN op.index \notin used ELSE op.index \in used

Sensible(t) == \A n \in DOMAIN t : MakesSense(t[n], UsedAt(t, n - 1))

\* The trace can be replayed from the start, and where the pass stands in it.
Script ==
  /\ trace \in Seq(Requests) /\ Len(trace) <= MaxOps /\ Sensible(trace)
  /\ i \in 0 .. Len(trace)
  /\ phase = "valid" /\ step = "init" => i = 0 /\ trace = << >>
  /\ phase = "valid" /\ step = "next" => i = Len(trace)
  /\ phase = "valid" /\ step \in {"called", "fill"} => i + 1 = Len(trace)
  /\ step \in {"called", "fill"} => i < Len(trace) /\ Op.type # "FREE"
  /\ step \in {"next", "called"} => inuse = UsedAt(trace, i)
  /\ step = "fill" => inuse = UsedAt(trace, i) \union {Op.index}

\* The ids that the pass has met, and in the later passes all of the trace, have
\* an entry in the arrays.
Met == \A n \in DOMAIN trace : n <= i \/ phase # "valid" => trace[n].index \in DOMAIN blocks

Figures ==
  /\ total_size \in Int /\ max_total_size \in Nat /\ total_size <= max_total_size
  /\ repeat \in Nat /\ repeat <= Repeats
  /\ phase # "done" => repeat < Repeats

Modes ==
  /\ phase \in {"valid", "util", "speed", "done"}
  /\ step \in {"init", "next", "called", "fill", "stop"}
  /\ verdict \in {"ok", "refused", "exited"}
  /\ step = "fill" => phase = "valid"
  /\ phase = "done" => step = "stop"

\* What the driver has noted of its payloads is what the allocator gave it.
Tied ==
  /\ inuse \subseteq DOMAIN blocks /\ DOMAIN blocks = DOMAIN block_sizes
  /\ block_sizes \in [DOMAIN blocks -> Nat]
  /\ step # "init" => DOMAIN live = { blocks[id] : id \in inuse }
  /\ \A x, y \in inuse : blocks[x] = blocks[y] => x = y
  /\ phase = "valid" => \A id \in inuse : live[blocks[id]] = block_sizes[id]
  /\ step = "called" =>
       /\ call.size = Op.size
       /\ call.old = IF Op.type = "ALLOC" THEN NULL ELSE blocks[Op.index]

Filled(m, p, size, tag) == \A a \in Words : p <= a /\ a < p + size => m[a] = tag

\* The range list has one record at most for a payload, and it is that payload's.
Listed(list, held) ==
  /\ list \in Seq([lo : Int, hi : Int])
  /\ \A k \in DOMAIN list :
       list[k].lo \in DOMAIN held /\ list[k] = Checks!Extent(list[k].lo, held[list[k].lo])
  /\ \A j, k \in DOMAIN list : list[j].lo = list[k].lo => j = k

\* What the correctness pass relies on when it checks the next payload.
Checked ==
  phase = "valid" /\ step \in {"next", "called", "fill"} =>
    /\ Listed(ranges, live)
    /\ \A id \in inuse :
         step # "fill" \/ id # Op.index
           => Filled(mem, blocks[id], live[blocks[id]], Checks!Pattern(id))

\* The inductive invariant of the driver over the allocator.
DInv == IInv /\ Script /\ Met /\ Figures /\ Modes /\ Tied /\ Checked

-----------------------------------------------------------------------------
(* The trace.                                                              *)

\* What is allocated depends on the operations so far and on no later one.
LEMMA UsedPrefix ==
  ASSUME NEW t, NEW u, NEW n \in Nat, \A j \in 1 .. n : t[j] = u[j]
  PROVE  UsedAt(t, n) = UsedAt(u, n)
  BY DEF UsedAt

\* How one more operation changes it.
LEMMA UsedNext ==
  ASSUME NEW t, NEW n \in Nat, NEW op \in Requests, t[n + 1] = op
  PROVE  /\ op.index \in Ids
         /\ op.type = "ALLOC" => UsedAt(t, n + 1) = UsedAt(t, n) \union {op.index}
         /\ op.type = "REALLOC" => UsedAt(t, n + 1) = UsedAt(t, n)
         /\ op.type = "FREE" => UsedAt(t, n + 1) = UsedAt(t, n) \ {op.index}
<1> DEFINE Since(id, j, m) ==
             /\ t[j].type = "ALLOC" /\ t[j].index = id
             /\ \A k \in j + 1 .. m : ~ (t[k].type = "FREE" /\ t[k].index = id)
<1>1. op.index \in Ids
  BY DEF Requests
<1>2. \A m : UsedAt(t, m) = { id \in Ids : \E j \in 1 .. m : Since(id, j, m) }
  BY DEF UsedAt
<1>3. ASSUME NEW j \in 1 .. n, NEW id
      PROVE  Since(id, j, n + 1) <=>
               Since(id, j, n) /\ ~ (op.type = "FREE" /\ op.index = id)
  <2>1. j + 1 .. n + 1 = (j + 1 .. n) \union {n + 1}
    OBVIOUS
  <2> QED
    BY <2>1
<1>4. \A id : Since(id, n + 1, n + 1) <=> op.type = "ALLOC" /\ op.index = id
  <2>1. n + 1 + 1 .. n + 1 = {}
    OBVIOUS
  <2> QED
    BY <2>1
<1>5. 1 .. n + 1 = (1 .. n) \union {n + 1}
  OBVIOUS
<1> HIDE DEF Since
<1>6. \A id \in Ids :
        id \in UsedAt(t, n + 1) <=>
          \/ id \in UsedAt(t, n) /\ ~ (op.type = "FREE" /\ op.index = id)
          \/ op.type = "ALLOC" /\ op.index = id
  BY <1>2, <1>3, <1>4, <1>5
<1>7. UsedAt(t, n) \subseteq Ids /\ UsedAt(t, n + 1) \subseteq Ids
  BY <1>2
<1> HIDE DEF Requests
<1>8. CASE op.type = "ALLOC"
  BY <1>1, <1>6, <1>7, <1>8
<1>9. CASE op.type = "REALLOC"
  BY <1>1, <1>6, <1>7, <1>9
<1>10. CASE op.type = "FREE"
  BY <1>1, <1>6, <1>7, <1>10
<1> QED
  BY <1>1, <1>8, <1>9, <1>10

\* A trace that makes sense still does with one more operation that does.
LEMMA SensibleGrows ==
  ASSUME NEW t \in Seq(Requests), Sensible(t), NEW op \in Requests,
         MakesSense(op, UsedAt(t, Len(t)))
  PROVE  /\ Append(t, op) \in Seq(Requests) /\ Len(Append(t, op)) = Len(t) + 1
         /\ Append(t, op)[Len(t) + 1] = op
         /\ \A j \in 1 .. Len(t) : Append(t, op)[j] = t[j]
         /\ Sensible(Append(t, op))
<1>1. PICK u : u = Append(t, op)
  OBVIOUS
<1>2. Len(t) \in Nat /\ DOMAIN t = 1 .. Len(t)
  BY LenProperties
<1>3. /\ u \in Seq(Requests) /\ Len(u) = Len(t) + 1 /\ u[Len(t) + 1] = op
      /\ \A j \in 1 .. Len(t) : u[j] = t[j]
  BY <1>1, AppendProperties
<1>4. DOMAIN u = 1 .. Len(t) + 1
  BY <1>3, LenProperties
<1>5. ASSUME NEW n \in DOMAIN u
      PROVE  MakesSense(u[n], UsedAt(u, n - 1))
  <2>1. n \in 1 .. Len(t) + 1 /\ n - 1 \in Nat /\ \A j \in 1 .. n - 1 : u[j] = t[j]
    BY <1>2, <1>3, <1>4
  <2>2. UsedAt(u, n - 1) = UsedAt(t, n - 1)
    BY <2>1, UsedPrefix
  <2>3. CASE n = Len(t) + 1
    BY <1>2, <1>3, <2>2, <2>3
  <2>4. CASE n # Len(t) + 1
    BY <1>2, <1>3, <2>1, <2>2, <2>4 DEF Sensible
  <2> QED
    BY <2>3, <2>4
<1> QED
  BY <1>1, <1>3, <1>5 DEF Sensible

\* The operation at hand, whether made up or replayed, makes sense, and the trace
\* with it can be replayed up to it.
LEMMA OperationAtHand ==
  ASSUME Script, Modes, step = "next", NEW op \in NextOps
  PROVE  LET t == Recorded(op)
         IN  /\ op \in Requests /\ MakesSense(op, inuse)
             /\ t \in Seq(Requests) /\ Len(t) <= MaxOps /\ Sensible(t)
             /\ i \in Nat /\ i < Len(t) /\ t[i + 1] = op
             /\ phase = "valid" => i + 1 = Len(t)
             /\ inuse = UsedAt(t, i)
             /\ \A j \in DOMAIN t : j <= i => j \in DOMAIN trace /\ t[j] = trace[j]
<1>1. /\ trace \in Seq(Requests) /\ Len(trace) <= MaxOps /\ Sensible(trace)
      /\ i \in 0 .. Len(trace)
      /\ phase = "valid" => i = Len(trace)
      /\ inuse = UsedAt(trace, i)
  BY DEF Script
<1>2. Len(trace) \in Nat /\ DOMAIN trace = 1 .. Len(trace) /\ MaxOps \in Nat /\ i \in Nat
  BY <1>1, LenProperties, MDriverAssumption
<1>3. inuse \subseteq Ids
  BY <1>1 DEF UsedAt
<1>4. CASE phase = "valid"
  <2>1. i < MaxOps /\ op \in Ops
    BY <1>4 DEF NextOps
  <2>2. op \in Requests /\ MakesSense(op, inuse)
    BY <1>3, <2>1 DEF Ops, Requests, MakesSense
  <2>3. PICK t : t = Append(trace, op)
    OBVIOUS
  <2>4. /\ t \in Seq(Requests) /\ Len(t) = Len(trace) + 1 /\ t[Len(trace) + 1] = op
        /\ \A j \in 1 .. Len(trace) : t[j] = trace[j]
        /\ Sensible(t)
    BY <1>1, <1>4, <2>2, <2>3, SensibleGrows
  <2>5. UsedAt(t, i) = UsedAt(trace, i)
    BY <1>1, <1>2, <1>4, <2>4, UsedPrefix
  <2>6. Recorded(op) = t
    BY <1>4, <2>3 DEF Recorded
  <2>7. DOMAIN t = 1 .. Len(trace) + 1
    BY <2>4, LenProperties
  <2>8. \A j \in DOMAIN t : j <= i => j \in DOMAIN trace /\ t[j] = trace[j]
    BY <1>1, <1>2, <1>4, <2>4, <2>7
  <2> QED
    BY <1>1, <1>2, <1>4, <2>1, <2>2, <2>4, <2>5, <2>6, <2>8
<1>5. CASE phase # "valid"
  <2>1. i < Len(trace) /\ op = trace[i + 1]
    BY <1>5 DEF NextOps
  <2>2. i + 1 \in DOMAIN trace /\ i + 1 - 1 = i
    BY <1>2, <2>1
  <2>3. op \in Requests /\ MakesSense(op, inuse)
    BY <1>1, <2>1, <2>2, ElementOfSeq, LenProperties DEF Sensible
  <2>4. Recorded(op) = trace
    BY <1>5 DEF Recorded
  <2> QED
    BY <1>1, <1>2, <1>5, <2>1, <2>3, <2>4
<1> QED
  BY <1>4, <1>5

-----------------------------------------------------------------------------
(* The range list.                                                         *)

LEMMA RemoveRange ==
  ASSUME NEW R, NEW list \in Seq(R), NEW lo
  PROVE  \/ /\ Checks!remove_range(list, lo) = list
            /\ \A k \in DOMAIN list : list[k].lo # lo
         \/ \E k \in DOMAIN list :
              list[k].lo = lo /\ Checks!remove_range(list, lo) = RemoveAt(list, k)
<1> DEFINE I == { k \in 1 .. Len(list) : list[k].lo = lo }
           found == Checks!SelectInSeq(list, LAMBDA r : r.lo = lo)
<1>1. DOMAIN list = 1 .. Len(list) /\ Len(list) \in Nat
  BY LenProperties
<1>2. found = IF I # {} THEN Min(I) ELSE 0
  BY DEF Checks!SelectInSeq, Checks!Min, Min
<1>3. Checks!remove_range(list, lo) = IF found = 0 THEN list ELSE RemoveAt(list, found)
  BY DEF Checks!remove_range, Checks!RemoveAt, RemoveAt
<1> HIDE DEF found
<1>4. CASE I = {}
  BY <1>1, <1>2, <1>3, <1>4
<1>5. CASE I # {}
  <2>1. Min(I) \in I
    <3>1. I \in SUBSET Nat
      BY <1>1
    <3> HIDE DEF I
    <3> QED
      BY <1>5, <3>1, MinIsLeast
  <2>2. Min(I) \in DOMAIN list /\ list[Min(I)].lo = lo /\ Min(I) # 0
    BY <1>1, <2>1
  <2> HIDE DEF I
  <2> QED
    BY <1>2, <1>3, <1>5, <2>2
<1> QED
  BY <1>4, <1>5

\* A payload is given up: its record goes, the others stay.
LEMMA ListedRemove ==
  ASSUME NEW list, NEW held, Listed(list, held), NEW p
  PROVE  Listed(Checks!remove_range(list, p), [q \in DOMAIN held \ {p} |-> held[q]])
<1> DEFINE rest == [q \in DOMAIN held \ {p} |-> held[q]]
           R == [lo : Int, hi : Int]
<1>1. /\ list \in Seq(R)
      /\ \A k \in DOMAIN list :
           list[k].lo \in DOMAIN held /\ list[k] = Checks!Extent(list[k].lo, held[list[k].lo])
      /\ \A j, k \in DOMAIN list : list[j].lo = list[k].lo => j = k
  BY DEF Listed
<1>2. DOMAIN rest = DOMAIN held \ {p} /\ \A q \in DOMAIN rest : rest[q] = held[q]
  OBVIOUS
<1>3. PICK out : out = Checks!remove_range(list, p)
  OBVIOUS
<1> HIDE DEF rest, R
<1>4. CASE out = list /\ \A k \in DOMAIN list : list[k].lo # p
  BY <1>1, <1>2, <1>3, <1>4 DEF Listed, R, rest
<1>5. CASE \E k \in DOMAIN list : list[k].lo = p /\ out = RemoveAt(list, k)
  <2>1. PICK k \in DOMAIN list : list[k].lo = p /\ out = RemoveAt(list, k)
    BY <1>5
  <2>2. /\ out \in Seq(R) /\ Len(out) = Len(list) - 1
        /\ \A j \in 1 .. Len(list) - 1 : out[j] = list[Skip(k, j)]
    BY <1>1, <2>1, RemoveAtParts
  <2>3. DOMAIN out = 1 .. Len(list) - 1 /\ DOMAIN list = 1 .. Len(list) /\ Len(list) \in Nat
    BY <1>1, <2>2, LenProperties
  <2>4. \A j \in DOMAIN out : Skip(k, j) \in DOMAIN list /\ Skip(k, j) # k
    BY <2>3 DEF Skip
  <2>5. \A j, l \in DOMAIN out : Skip(k, j) = Skip(k, l) => j = l
    BY <2>3 DEF Skip
  <2>6. \A j \in DOMAIN out : out[j] = list[Skip(k, j)]
    BY <2>2, <2>3
  <2>7. ASSUME NEW j \in DOMAIN out
        PROVE  out[j].lo \in DOMAIN rest /\ out[j] = Checks!Extent(out[j].lo, rest[out[j].lo])
    BY <1>1, <1>2, <2>1, <2>4, <2>6
  <2>8. \A j, l \in DOMAIN out : out[j].lo = out[l].lo => j = l
    BY <1>1, <2>4, <2>5, <2>6
  <2> QED
    BY <1>3, <2>2, <2>7, <2>8 DEF Listed, R, rest
<1> QED
  BY <1>1, <1>3, <1>4, <1>5, RemoveRange

\* A new payload: its record goes in front.
LEMMA ListedAdd ==
  ASSUME NEW list, NEW held, Listed(list, held),
         NEW p \in Int, p \notin DOMAIN held, NEW size \in Int
  PROVE  Listed(<<Checks!Extent(p, size)>> \o list, With(held, p, size))
<1> DEFINE more == With(held, p, size)
           R == [lo : Int, hi : Int]
<1>1. PICK r : r = Checks!Extent(p, size)
  OBVIOUS
<1>2. r.lo = p /\ r \in R
  BY <1>1 DEF Checks!Extent
<1>3. /\ list \in Seq(R)
      /\ \A k \in DOMAIN list :
           list[k].lo \in DOMAIN held /\ list[k] = Checks!Extent(list[k].lo, held[list[k].lo])
      /\ \A j, k \in DOMAIN list : list[j].lo = list[k].lo => j = k
  BY DEF Listed
<1>4. /\ DOMAIN more = DOMAIN held \union {p} /\ more[p] = size
      /\ \A q \in DOMAIN held : more[q] = held[q]
  BY DEF With
<1>5. PICK out : out = <<r>> \o list
  OBVIOUS
<1> HIDE DEF more, R
<1>6. /\ out \in Seq(R) /\ Len(out) = Len(list) + 1
      /\ \A j \in 1 .. Len(list) + 1 : out[j] = IF j = 1 THEN r ELSE list[j - 1]
  BY <1>2, <1>3, <1>5, Prepended
<1>7. DOMAIN out = 1 .. Len(list) + 1 /\ DOMAIN list = 1 .. Len(list) /\ Len(list) \in Nat
  BY <1>3, <1>6, LenProperties
<1>8. \A j \in DOMAIN out : j # 1 => j - 1 \in DOMAIN list /\ out[j] = list[j - 1]
  BY <1>6, <1>7
<1>9. out[1] = r
  BY <1>6, <1>7
<1>10. ASSUME NEW j \in DOMAIN out
       PROVE  out[j].lo \in DOMAIN more /\ out[j] = Checks!Extent(out[j].lo, more[out[j].lo])
  <2>1. CASE j = 1
    BY <1>1, <1>2, <1>4, <1>9, <2>1
  <2>2. CASE j # 1
    BY <1>3, <1>4, <1>8, <2>2
  <2> QED
    BY <2>1, <2>2
<1>11. ASSUME NEW j \in DOMAIN out, NEW k \in DOMAIN out, out[j].lo = out[k].lo
       PROVE  j = k
  <2>1. \A l \in DOMAIN out : out[l].lo = p <=> l = 1
    BY <1>2, <1>3, <1>8, <1>9
  <2>2. CASE j # 1 /\ k # 1
    <3>1. j - 1 = k - 1
      BY <1>3, <1>8, <1>11, <2>2
    <3> QED
      BY <1>7, <3>1
  <2> QED
    BY <1>2, <1>9, <1>11, <2>1, <2>2
<1> QED
  BY <1>1, <1>5, <1>6, <1>10, <1>11 DEF Listed, R, more

\* add_range accepts a payload that lies in the heap and apart from the others.
LEMMA RangeAccepted ==
  ASSUME NEW list, NEW held, Listed(list, held), NEW brk \in Int,
         NEW p \in Int, NEW size \in Nat, size > 0,
         p % 8 = 0, MEM_START <= p, p + size <= brk,
         \A q \in DOMAIN held :
           /\ q \in Int /\ held[q] \in Nat /\ held[q] > 0
           /\ p + size <= q \/ q + held[q] <= p
  PROVE  Checks!add_range_accepts(list, Checks!Extent(p, size), brk)
<1>1. MEM_START \in Int
  BY Region
<1>2. PICK r : r = Checks!Extent(p, size)
  OBVIOUS
<1>3. r.lo = p /\ r.hi = p + size - 1
  BY <1>2 DEF Checks!Extent
<1>4. ASSUME NEW k \in DOMAIN list
      PROVE  ~ Checks!Overlaps(r, list[k])
  <2>1. PICK q \in DOMAIN held : list[k] = Checks!Extent(q, held[q])
    BY DEF Listed
  <2>2. list[k].lo = q /\ list[k].hi = q + held[q] - 1
    BY <2>1 DEF Checks!Extent
  <2>3. /\ q \in Int /\ held[q] \in Nat /\ held[q] > 0
        /\ p + size <= q \/ q + held[q] <= p
    OBVIOUS
  <2> QED
    BY <1>3, <2>2, <2>3 DEF Checks!Overlaps
<1>5. Checks!InHeap(r, brk)
  BY <1>1, <1>3 DEF Checks!InHeap
<1>6. r.lo % Checks!ALIGNMENT = 0
  BY <1>3 DEF Checks!ALIGNMENT
<1> QED
  BY <1>2, <1>4, <1>5, <1>6 DEF Checks!add_range_accepts

-----------------------------------------------------------------------------
(* The beginning and the end of a pass.                                    *)

LEMMA NothingUsed == \A t : UsedAt(t, 0) = {}
  BY DEF UsedAt

LEMMA DriverInit == DInit => DInv
<1> SUFFICES ASSUME DInit PROVE DInv
  OBVIOUS
<1>1. IInv
  BY InitStep DEF DInit
<1>2. Script
  BY MDriverAssumption DEF DInit, Script, Sensible
<1>3. Figures /\ Modes
  BY MDriverAssumption DEF DInit, Figures, Modes
<1>4. Tied
  BY DEF DInit, Tied, Empty
<1>5. Checked
  BY DEF DInit, Checked
<1>6. Met
  BY DEF DInit, Met
<1> QED
  BY <1>1, <1>2, <1>3, <1>4, <1>5, <1>6 DEF DInv

LEMMA BeginKeeps ==
  ASSUME RequestsDoNotWrap, DInv, begin
  PROVE  DInv'
<1>1. /\ step = "init" /\ mm_init
      /\ i' = 0 /\ inuse' = {}
      /\ ranges' = IF phase = "valid" THEN << >> ELSE ranges
      /\ total_size' = 0 /\ max_total_size' = 0
      /\ step' \in {"next", "stop"} /\ verdict' \in {verdict, "refused", "exited"}
      /\ phase' = phase /\ trace' = trace /\ blocks' = blocks
      /\ block_sizes' = block_sizes /\ repeat' = repeat
  BY DEF begin, Failure
<1>2. DOMAIN live' = {}
  BY <1>1 DEF mm_init
<1>3. IInv'
  BY <1>1, RestartStep DEF DInv
<1>4. Script'
  <2>1. trace \in Seq(Requests) /\ Len(trace) <= MaxOps /\ Sensible(trace)
    BY DEF DInv, Script
  <2>2. phase = "valid" => Len(trace) = 0
    BY <1>1 DEF DInv, Script
  <2>3. 0 \in 0 .. Len(trace)
    BY <2>1, LenProperties
  <2> QED
    BY <1>1, <2>1, <2>2, <2>3, NothingUsed DEF Script, Sensible
<1>5. Figures' /\ Modes'
  BY <1>1 DEF DInv, Figures, Modes
<1>6. Tied'
  BY <1>1, <1>2 DEF DInv, Tied
<1>7. Checked'
  BY <1>1, <1>2 DEF Checked, Listed
<1>8. Met'
  <2>1. phase = "valid" => trace = << >>
    BY <1>1 DEF DInv, Script
  <2> QED
    BY <1>1, <2>1 DEF DInv, Met
<1> QED
  BY <1>3, <1>4, <1>5, <1>6, <1>7, <1>8 DEF DInv

LEMMA EndKeeps ==
  ASSUME RequestsDoNotWrap, DInv, end_of_pass
  PROVE  DInv'
<1>1. /\ step = "next" /\ phase' \in {"util", "speed", "done"}
      /\ \/ step' = "init" /\ phase' # "done"
         \/ step' = "stop"
      /\ repeat \in Nat /\ repeat < Repeats
      /\ \/ repeat' = repeat
         \/ repeat + 1 < Repeats /\ repeat' = repeat + 1
         \/ repeat + 1 = Repeats /\ repeat' = repeat + 1 /\ phase' = "done"
      /\ UNCHANGED <<verdict, trace, i, inuse, blocks, block_sizes, ranges,
                     total_size, max_total_size>>
      /\ UNCHANGED vars
  <2>1. repeat \in Nat /\ step = "next" /\ phase # "done" /\ repeat < Repeats
    BY DEF DInv, Figures, Modes, end_of_pass
  <2> QED
    BY <2>1 DEF end_of_pass
<1>2. IInv'
  BY <1>1, NextKeepsIInv DEF DInv
<1>3. Script'
  BY <1>1 DEF DInv, Script, Sensible
<1>4. Figures' /\ Modes'
  <2>1. Repeats \in Nat
    BY MDriverAssumption
  <2> QED
    BY <1>1, <2>1 DEF DInv, Figures, Modes
<1>5. Tied'
  BY <1>1 DEF DInv, Tied, vars
<1>6. Checked'
  BY <1>1 DEF Checked
<1>7. Met'
  <2>1. trace \in Seq(Requests)
    BY DEF DInv, Script
  <2>2. \A n \in DOMAIN trace : n <= Len(trace)
    BY <2>1, LenProperties
  <2>3. phase = "valid" => i = Len(trace)
    BY <1>1 DEF DInv, Script
  <2> QED
    BY <1>1, <2>2, <2>3 DEF DInv, Met
<1> QED
  BY <1>2, <1>3, <1>4, <1>5, <1>6, <1>7 DEF DInv

LEMMA StutterKeeps ==
  ASSUME RequestsDoNotWrap, DInv, UNCHANGED <<vars, driver>>
  PROVE  DInv'
<1>1. UNCHANGED vars /\ UNCHANGED driver
  OBVIOUS
<1>2. IInv'
  BY <1>1, NextKeepsIInv DEF DInv
<1>3. Script'
  BY <1>1 DEF DInv, Script, Sensible, driver, Op
<1>4. Figures' /\ Modes'
  BY <1>1 DEF DInv, Figures, Modes, driver
<1>5. Tied'
  BY <1>1 DEF DInv, Tied, driver, vars, Op
<1>6. Checked'
  BY <1>1 DEF DInv, Checked, driver, vars, Op
<1>7. Met'
  BY <1>1 DEF DInv, Met, driver
<1> QED
  BY <1>2, <1>3, <1>4, <1>5, <1>6, <1>7 DEF DInv

-----------------------------------------------------------------------------
(* An operation begins.                                                    *)

\* The blocks of the ids in use are what the client holds.
LEMMA InUseIsHeld ==
  ASSUME Tied, step # "init", NEW id \in inuse
  PROVE  blocks[id] \in DOMAIN live
  BY DEF Tied

\* mm_malloc or mm_realloc is called with the request of the trace.
LEMMA CallKeeps ==
  ASSUME RequestsDoNotWrap, DInv, NEW op \in NextOps, call_allocator(op)
  PROVE  DInv'
<1> DEFINE old == IF op.type = "ALLOC" THEN NULL ELSE blocks[op.index]
<1>1. /\ step = "next" /\ step' = "called" /\ trace' = Recorded(op)
      /\ UNCHANGED <<phase, verdict, i, inuse, blocks, block_sizes, ranges,
                     total_size, max_total_size, repeat>>
      /\ op.type \in {"ALLOC", "REALLOC"}
  BY DEF call_allocator
<1>2. /\ op \in Requests /\ MakesSense(op, inuse)
      /\ trace' \in Seq(Requests) /\ Len(trace') <= MaxOps /\ Sensible(trace')
      /\ i \in Nat /\ i < Len(trace') /\ trace'[i + 1] = op
      /\ phase = "valid" => i + 1 = Len(trace')
  BY <1>1, OperationAtHand DEF DInv
<1>3. inuse = UsedAt(trace', i)
  BY <1>1, OperationAtHand DEF DInv
<1>4. op.size \in Sizes \ {0} /\ op.size # 0
  BY <1>1, <1>2 DEF Requests
<1>5. old \in DOMAIN live \union {NULL}
  BY <1>1, <1>2, InUseIsHeld DEF DInv, MakesSense
<1>6. pc = "idle" /\ StartSearch(op.size, old)
  BY <1>1, <1>4 DEF call_allocator, mm_malloc, mm_realloc
<1>7. Op' = op
  BY <1>1, <1>2 DEF Op
<1>8. IInv'
  BY <1>4, <1>5, <1>6, SearchStarts DEF DInv
<1>9. mem' = mem /\ live' = live /\ call'.size = op.size /\ call'.old = old
  BY <1>6 DEF StartSearch
<1> HIDE DEF old
<1>10. Script'
  <2>1. i \in 0 .. Len(trace')
    BY <1>2, LenProperties
  <2> QED
    BY <1>1, <1>2, <1>3, <1>7, <2>1 DEF Script, Sensible
<1>11. Figures' /\ Modes'
  BY <1>1 DEF DInv, Figures, Modes
<1>12. Tied'
  <2>1. call'.old = IF Op'.type = "ALLOC" THEN NULL ELSE blocks'[Op'.index]
    BY <1>1, <1>7, <1>9 DEF old
  <2> QED
    BY <1>1, <1>7, <1>9, <2>1 DEF DInv, Tied
<1>13. Checked'
  BY <1>1, <1>9 DEF DInv, Checked
<1>14. Met'
  <2>1. \A j \in DOMAIN trace' : j <= i => j \in DOMAIN trace /\ trace'[j] = trace[j]
    BY <1>1, OperationAtHand DEF DInv
  <2>2. phase # "valid" => trace' = trace
    BY <1>1 DEF Recorded
  <2> QED
    BY <1>1, <2>1, <2>2 DEF DInv, Met
<1> QED
  BY <1>8, <1>10, <1>11, <1>12, <1>13, <1>14 DEF DInv

-----------------------------------------------------------------------------
(* The search, which moves nothing that is held.                           *)

\* What fills a payload still does when its block is untouched.
LEMMA FilledStays ==
  ASSUME RequestsDoNotWrap, NEW m, NEW n, NEW brk, NEW held, NEW B,
         Sound(m, brk, held, B), HeldOK(held, brk), NEW p \in DOMAIN held,
         Untouched(m, n, p), NEW tag, Filled(m, p, held[p], tag)
  PROVE  Filled(n, p, held[p], tag)
<1>1. p \in Nat /\ held[p] \in Nat /\ held[p] + 8 <= Size(m, p) /\ p + Size(m, p) <= brk
  BY SoundFacts
<1>2. Size(m, p) \in Nat
  BY SoundFacts, RowFacts
<1>3. \A a \in Words : a \in Int
  BY Region DEF Words
<1>4. ASSUME NEW a \in Words, p <= a, a < p + held[p]
      PROVE  n[a] = m[a]
  <2>1. p - 4 <= a /\ a < p + Size(m, p) - 4
    BY <1>1, <1>2, <1>3, <1>4
  <2> QED
    BY <2>1 DEF Untouched
<1> QED
  BY <1>4 DEF Filled

LEMMA SearchKeeps ==
  ASSUME RequestsDoNotWrap, DInv, search
  PROVE  DInv'
<1>1. /\ step = "called" /\ pc = "find_fit" /\ UNCHANGED driver
      /\ find_fit_next \/ find_fit_hit \/ find_fit_miss
  BY DEF search, find_fit_next, find_fit_hit, find_fit_miss
<1>2. IInv'
  BY <1>1, NextStep, HitStep, MissStep DEF DInv
<1>3. HeldOK(live, mem_brk)
  BY <1>1, SoundNow DEF DInv
<1>4. PICK B \in SUBSET Candidates(mem, mem_brk) : Sound(mem, mem_brk, live, B)
  BY <1>1, SoundNow DEF DInv
<1>5. /\ live' = live
      /\ mem' = mem \/ \A b \in DOMAIN live : Untouched(mem, mem', b)
  <2>1. CASE find_fit_next \/ find_fit_hit
    BY <2>1 DEF find_fit_next, find_fit_hit
  <2>2. CASE find_fit_miss
    BY <2>2, MissCases DEF DInv
  <2> QED
    BY <1>1, <2>1, <2>2
<1>6. pc' = "idle" \/ (call'.size = call.size /\ call'.old = call.old)
  <2>1. Pending(call, live)
    BY <1>1 DEF DInv, IInv, StateOK
  <2>2. \A b : [call EXCEPT !.bp = b].size = call.size /\ [call EXCEPT !.bp = b].old = call.old
    BY <2>1 DEF Pending
  <2> QED
    BY <1>1, <2>2 DEF find_fit_next, find_fit_hit, find_fit_miss
<1>7. pc' # "idle"
  BY <1>1 DEF search, find_fit_next, find_fit_hit, find_fit_miss
<1>8. Script'
  BY <1>1 DEF DInv, Script, Sensible, driver, Op
<1>9. Figures' /\ Modes'
  BY <1>1 DEF DInv, Figures, Modes, driver
<1>10. Tied'
  BY <1>1, <1>5, <1>6, <1>7 DEF DInv, Tied, driver, Op
<1>11. Checked'
  <2> SUFFICES ASSUME phase = "valid"
               PROVE  /\ Listed(ranges, live)
                      /\ \A id \in inuse :
                           Filled(mem', blocks[id], live[blocks[id]], Checks!Pattern(id))
    BY <1>1, <1>5 DEF Checked, driver
  <2>1. Listed(ranges, live)
    BY <1>1 DEF DInv, Checked
  <2>2. ASSUME NEW id \in inuse
        PROVE  Filled(mem', blocks[id], live[blocks[id]], Checks!Pattern(id))
    <3>1. Filled(mem, blocks[id], live[blocks[id]], Checks!Pattern(id))
      BY <1>1 DEF DInv, Checked
    <3>2. blocks[id] \in DOMAIN live
      BY <1>1, InUseIsHeld DEF DInv
    <3>3. CASE mem' = mem
      BY <3>1, <3>3
    <3>4. CASE Untouched(mem, mem', blocks[id])
      BY <1>3, <1>4, <3>1, <3>2, <3>4, FilledStays
    <3> QED
      BY <1>5, <3>2, <3>3, <3>4
  <2> QED
    BY <2>1, <2>2
<1>12. Met'
  BY <1>1 DEF DInv, Met, driver
<1> QED
  BY <1>2, <1>8, <1>9, <1>10, <1>11, <1>12 DEF DInv

\* The region is exhausted: the pass is given up with everything as it was.
LEMMA FailedKeeps ==
  ASSUME RequestsDoNotWrap, DInv, failed
  PROVE  DInv'
<1>1. /\ step = "called" /\ find_fit_miss /\ step' = "stop"
      /\ verdict' \in {"refused", "exited"}
      /\ UNCHANGED <<phase, trace, i, inuse, blocks, block_sizes, ranges,
                     total_size, max_total_size, repeat>>
  BY DEF failed, Failure
<1>2. IInv'
  BY <1>1, MissStep DEF DInv
<1>3. live' = live
  BY <1>1 DEF find_fit_miss
<1>4. Script'
  BY <1>1 DEF DInv, Script, Sensible
<1>5. Figures' /\ Modes'
  BY <1>1 DEF DInv, Figures, Modes
<1>6. Tied'
  BY <1>1, <1>3 DEF DInv, Tied
<1>7. Checked'
  BY <1>1 DEF Checked
<1>8. Met'
  BY <1>1 DEF DInv, Met
<1> QED
  BY <1>2, <1>4, <1>5, <1>6, <1>7, <1>8 DEF DInv

-----------------------------------------------------------------------------
(* A payload is filled, or given up.                                       *)

LEMMA FillKeeps ==
  ASSUME RequestsDoNotWrap, PatternsFit, DInv, fill
  PROVE  DInv'
<1> DEFINE id == Op.index
           p == blocks[id]
           tag == Checks!Pattern(id)
<1>1. /\ step = "fill" /\ step' = "next" /\ i' = i + 1 /\ phase = "valid"
      /\ pc = "idle" /\ write(p, tag) /\ live' = live
      /\ UNCHANGED <<phase, verdict, trace, inuse, blocks, block_sizes, ranges,
                     total_size, max_total_size, repeat>>
  BY DEF fill, write, DInv, Modes
<1>2. /\ trace \in Seq(Requests) /\ Len(trace) \in Nat /\ i \in Nat /\ i + 1 = Len(trace)
      /\ Op \in Requests /\ Op.type # "FREE" /\ MakesSense(Op, UsedAt(trace, i))
      /\ inuse = UsedAt(trace, i) \union {id}
  <2>1. /\ trace \in Seq(Requests) /\ Sensible(trace) /\ i \in 0 .. Len(trace)
        /\ i + 1 = Len(trace) /\ Op.type # "FREE"
        /\ inuse = UsedAt(trace, i) \union {id}
    BY <1>1 DEF DInv, Script
  <2>2. i \in Nat /\ Len(trace) \in Nat /\ i + 1 \in DOMAIN trace /\ i + 1 - 1 = i
    BY <2>1, LenProperties
  <2>3. Op \in Requests /\ MakesSense(Op, UsedAt(trace, i))
    BY <2>1, <2>2, ElementOfSeq, LenProperties DEF Sensible, Op
  <2> QED
    BY <2>1, <2>2, <2>3
<1>3. id \in Ids /\ id \in inuse /\ inuse = UsedAt(trace, i + 1)
  <2>1. Op.type \in {"ALLOC", "REALLOC"} /\ Op.index \in Ids
    BY <1>2 DEF Requests
  <2>2. trace[i + 1] = Op
    BY DEF Op
  <2>3. CASE Op.type = "ALLOC"
    BY <1>2, <2>1, <2>2, <2>3, UsedNext
  <2>4. CASE Op.type = "REALLOC"
    BY <1>2, <2>1, <2>2, <2>4, UsedNext DEF MakesSense
  <2> QED
    BY <2>1, <2>3, <2>4
<1>4. p \in DOMAIN live /\ tag \in Tags
  BY <1>1, <1>3, InUseIsHeld DEF DInv, PatternsFit
<1>5. IInv'
  BY <1>1, <1>4, WriteStep DEF DInv
<1>6. HeldOK(live, mem_brk) /\ mem' = Memset(mem, p, live[p], tag)
  BY <1>1, SoundNow DEF DInv, write
<1>7. PICK B \in SUBSET Candidates(mem, mem_brk) : Sound(mem, mem_brk, live, B)
  BY <1>1, SoundNow DEF DInv
<1>8. Filled(mem', p, live[p], tag)
  BY <1>6 DEF Filled, Memset
<1>9. ASSUME NEW x \in inuse, x # id
      PROVE  Filled(mem', blocks[x], live[blocks[x]], Checks!Pattern(x))
  <2> DEFINE q == blocks[x]
  <2>1. q \in DOMAIN live /\ q # p
    BY <1>1, <1>3, <1>9, InUseIsHeld DEF DInv, Tied
  <2>2. Filled(mem, q, live[q], Checks!Pattern(x))
    BY <1>1, <1>9 DEF DInv, Checked
  <2>3. p + live[p] <= q \/ q + live[q] <= p
    BY <1>4, <1>6, <1>7, <2>1, SoundApart
  <2>4. p \in Nat /\ q \in Nat /\ live[p] \in Nat /\ live[q] \in Nat
    BY <1>4, <1>6, <1>7, <2>1, SoundFacts
  <2>5. \A a \in Words : a \in Int
    BY Region DEF Words
  <2> HIDE DEF q, p, tag
  <2>6. \A a \in Words : q <= a /\ a < q + live[q] => mem'[a] = mem[a]
    BY <1>6, <2>3, <2>4, <2>5 DEF Memset
  <2> QED
    BY <2>2, <2>6 DEF Filled, q
<1> HIDE DEF id, p, tag
<1>10. Script'
  <2>1. trace \in Seq(Requests) /\ Len(trace) <= MaxOps /\ Sensible(trace)
    BY DEF DInv, Script
  <2> QED
    BY <1>1, <1>2, <1>3, <2>1 DEF Script, Sensible
<1>11. Figures' /\ Modes'
  BY <1>1 DEF DInv, Figures, Modes
<1>12. Tied'
  BY <1>1 DEF DInv, Tied
<1>13. Checked'
  <2>1. Listed(ranges, live)
    BY <1>1 DEF DInv, Checked
  <2>2. \A x \in inuse : Filled(mem', blocks[x], live[blocks[x]], Checks!Pattern(x))
    BY <1>8, <1>9 DEF p, tag
  <2> QED
    BY <1>1, <2>1, <2>2 DEF Checked
<1>14. Met'
  <2>1. \A n \in DOMAIN trace : n <= i \/ n = i + 1
    BY <1>2, LenProperties
  <2>2. trace[i + 1].index \in DOMAIN blocks
    BY <1>3 DEF DInv, Tied, Op, id
  <2> QED
    BY <1>1, <2>1, <2>2 DEF DInv, Met
<1> QED
  BY <1>5, <1>10, <1>11, <1>12, <1>13, <1>14 DEF DInv

\* Without one payload, the client holds what the other ids have.
LEMMA OthersAreHeld ==
  ASSUME Tied, step # "init", NEW id \in inuse
  PROVE  /\ DOMAIN live \ {blocks[id]} = { blocks[x] : x \in inuse \ {id} }
         /\ \A x \in inuse \ {id} : blocks[x] \in DOMAIN live \ {blocks[id]}
<1>1. \A x \in inuse \ {id} : blocks[x] # blocks[id]
  BY DEF Tied
<1> QED
  BY <1>1 DEF Tied

LEMMA FreeKeeps ==
  ASSUME RequestsDoNotWrap, DInv, NEW op \in NextOps, free(op)
  PROVE  DInv'
<1> DEFINE id == op.index
           p == blocks[id]
           rest == [q \in DOMAIN live \ {p} |-> live[q]]
<1>1. /\ step = "next" /\ step' = "next" /\ op.type = "FREE" /\ mm_free(p)
      /\ trace' = Recorded(op) /\ inuse' = inuse \ {id} /\ i' = i + 1
      /\ ranges' = IF phase = "valid" THEN Checks!remove_range(ranges, p) ELSE ranges
      /\ total_size' = IF phase = "util" THEN total_size - block_sizes[id] ELSE total_size
      /\ UNCHANGED <<phase, verdict, blocks, block_sizes, max_total_size, repeat>>
  BY DEF free
<1>2. /\ op \in Requests /\ MakesSense(op, inuse)
      /\ trace' \in Seq(Requests) /\ Len(trace') <= MaxOps /\ Sensible(trace')
      /\ i \in Nat /\ i < Len(trace') /\ trace'[i + 1] = op
      /\ phase = "valid" => i + 1 = Len(trace')
  BY <1>1, OperationAtHand DEF DInv
<1>3. inuse = UsedAt(trace', i) /\ inuse' = UsedAt(trace', i + 1)
  <2>1. inuse = UsedAt(trace', i)
    BY <1>1, OperationAtHand DEF DInv
  <2> QED
    BY <1>1, <1>2, <2>1, UsedNext
<1>4. id \in inuse /\ p \in DOMAIN live
  BY <1>1, <1>2, InUseIsHeld DEF DInv, MakesSense
<1>5. IInv'
  BY <1>1, <1>4, FreeStep DEF DInv
<1>6. pc = "idle" /\ mem' = Release(mem, p) /\ live' = rest
  BY <1>1 DEF mm_free, Without
<1>7. HeldOK(live, mem_brk)
  BY <1>6, SoundNow DEF DInv
<1>8. PICK B \in SUBSET Candidates(mem, mem_brk) : Sound(mem, mem_brk, live, B)
  BY <1>6, SoundNow DEF DInv
<1>9. \A q \in DOMAIN rest : Untouched(mem, mem', q)
  BY <1>4, <1>6, <1>7, <1>8, ReleaseSound
<1>10. /\ DOMAIN rest = { blocks[x] : x \in inuse' }
       /\ \A x \in inuse' : blocks[x] \in DOMAIN rest /\ rest[blocks[x]] = live[blocks[x]]
  <2>1. DOMAIN rest = DOMAIN live \ {p} /\ \A q \in DOMAIN rest : rest[q] = live[q]
    OBVIOUS
  <2> QED
    BY <1>1, <1>4, <2>1, OthersAreHeld DEF DInv
<1> HIDE DEF rest
<1>11. Script'
  <2>1. i + 1 \in 0 .. Len(trace')
    BY <1>2, LenProperties
  <2> QED
    BY <1>1, <1>2, <1>3, <2>1 DEF Script, Sensible
<1>12. Figures' /\ Modes'
  <2>1. block_sizes[id] \in Nat
    BY <1>4 DEF DInv, Tied
  <2> QED
    BY <1>1, <2>1 DEF DInv, Figures, Modes
<1>13. Tied'
  BY <1>1, <1>6, <1>10 DEF DInv, Tied
<1>14. Checked'
  <2> SUFFICES ASSUME phase = "valid"
               PROVE  /\ Listed(ranges', rest)
                      /\ \A x \in inuse' :
                           Filled(mem', blocks[x], rest[blocks[x]], Checks!Pattern(x))
    BY <1>1, <1>6 DEF Checked
  <2>1. Listed(ranges', rest)
    <3>1. Listed(ranges, live)
      BY <1>1 DEF DInv, Checked
    <3> QED
      BY <1>1, <3>1, ListedRemove DEF rest
  <2>2. ASSUME NEW x \in inuse'
        PROVE  Filled(mem', blocks[x], live[blocks[x]], Checks!Pattern(x))
    <3>1. Filled(mem, blocks[x], live[blocks[x]], Checks!Pattern(x))
      BY <1>1 DEF DInv, Checked
    <3>2. blocks[x] \in DOMAIN live /\ Untouched(mem, mem', blocks[x])
      BY <1>1, <1>9, <1>10, InUseIsHeld DEF DInv
    <3> QED
      BY <1>7, <1>8, <3>1, <3>2, FilledStays
  <2> QED
    BY <1>10, <2>1, <2>2
<1>15. Met'
  <2>1. \A j \in DOMAIN trace' : j <= i => j \in DOMAIN trace /\ trace'[j] = trace[j]
    BY <1>1, OperationAtHand DEF DInv
  <2>2. phase # "valid" => trace' = trace
    BY <1>1 DEF Recorded
  <2>3. \A n \in DOMAIN trace' : n <= i + 1 => n <= i \/ n = i + 1
    BY <1>2, LenProperties
  <2>4. trace'[i + 1].index \in DOMAIN blocks
    BY <1>2, <1>4 DEF DInv, Tied
  <2> QED
    BY <1>1, <2>1, <2>2, <2>3, <2>4 DEF DInv, Met
<1> QED
  BY <1>5, <1>11, <1>12, <1>13, <1>14, <1>15 DEF DInv

-----------------------------------------------------------------------------
(* An allocation returns.                                                  *)

\* What the client holds besides the payload that mm_malloc or mm_realloc is
\* about to return.
Kept == IF Op.type = "ALLOC" THEN live ELSE [q \in DOMAIN live \ {blocks[Op.index]} |-> live[q]]

\* What is known of the operation when the allocator returns from it.
LEMMA OpFacts ==
  ASSUME DInv, step = "called"
  PROVE  /\ trace \in Seq(Requests) /\ Len(trace) <= MaxOps /\ Sensible(trace)
         /\ i \in Nat /\ Len(trace) \in Nat /\ i < Len(trace) /\ trace[i + 1] = Op
         /\ phase = "valid" => i + 1 = Len(trace)
         /\ Op \in Requests /\ Op.type \in {"ALLOC", "REALLOC"}
         /\ Op.index \in Ids /\ Op.size \in Sizes \ {0}
         /\ MakesSense(Op, inuse) /\ inuse = UsedAt(trace, i)
         /\ inuse \union {Op.index} = UsedAt(trace, i + 1)
<1>1. /\ trace \in Seq(Requests) /\ Len(trace) <= MaxOps /\ Sensible(trace)
      /\ i \in 0 .. Len(trace) /\ i < Len(trace) /\ Op.type # "FREE"
      /\ phase = "valid" => i + 1 = Len(trace)
      /\ inuse = UsedAt(trace, i)
  BY DEF DInv, Script
<1>2. /\ i \in Nat /\ Len(trace) \in Nat /\ i + 1 \in DOMAIN trace /\ i + 1 - 1 = i
      /\ trace[i + 1] = Op
  BY <1>1, LenProperties DEF Op
<1>3. Op \in Requests /\ MakesSense(Op, inuse)
  BY <1>1, <1>2, ElementOfSeq, LenProperties DEF Sensible
<1>4. Op.type \in {"ALLOC", "REALLOC"} /\ Op.index \in Ids /\ Op.size \in Sizes \ {0}
  BY <1>1, <1>3 DEF Requests
<1>5. inuse \union {Op.index} = UsedAt(trace, i + 1)
  <2>1. PICK op, t, n : op = Op /\ t = trace /\ n = i
    OBVIOUS
  <2>2. /\ op.type = "ALLOC" => UsedAt(t, n + 1) = UsedAt(t, n) \union {op.index}
        /\ op.type = "REALLOC" => UsedAt(t, n + 1) = UsedAt(t, n)
    <3>1. n \in Nat /\ op \in Requests /\ t[n + 1] = op
      BY <1>2, <1>3, <2>1
    <3> QED
      BY <3>1, UsedNext
  <2>3. op.type = "REALLOC" => op.index \in inuse
    BY <1>3, <2>1 DEF MakesSense
  <2> QED
    BY <1>1, <1>4, <2>1, <2>2, <2>3
<1> QED
  BY <1>1, <1>2, <1>3, <1>4, <1>5

\* What the client holds when place is done, and how the ids account for it.
LEMMA PlacedAndTied ==
  ASSUME RequestsDoNotWrap, DInv, step = "called", place
  PROVE  LET p == call.bp
             id == Op.index
             size == Op.size
         IN  /\ p \notin DOMAIN live /\ p \notin DOMAIN Kept
             /\ live' = With(Kept, p, size)
             /\ DOMAIN Kept = { blocks[x] : x \in inuse \ {id} }
             /\ \A x \in inuse \ {id} :
                  /\ blocks[x] \in DOMAIN Kept /\ blocks[x] \in DOMAIN live
                  /\ Kept[blocks[x]] = live[blocks[x]]
             /\ \A q \in DOMAIN Kept : Untouched(mem, mem', q)
             /\ Op.type = "REALLOC" =>
                  /\ id \in inuse /\ blocks[id] \in DOMAIN live
                  /\ \A j \in Nat : j % 4 = 0 /\ j < size /\ j < live[blocks[id]]
                                    => mem'[p + j] = mem[blocks[id] + j]
<1> DEFINE p == call.bp
           id == Op.index
           old == blocks[id]
<1>1. /\ call.size = Op.size
      /\ call.old = IF Op.type = "ALLOC" THEN NULL ELSE old
  BY DEF DInv, Tied
<1>2. /\ Op.type \in {"ALLOC", "REALLOC"} /\ MakesSense(Op, inuse)
  BY OpFacts
<1>3. /\ p \notin DOMAIN live
      /\ \/ call.old = NULL /\ live' = With(live, p, Op.size)
         \/ call.old \in DOMAIN live /\ live' = With(Without(call.old), p, Op.size)
      /\ \A q \in DOMAIN live' \ {p} : Untouched(mem, mem', q)
      /\ call.old # NULL =>
           \A j \in Nat : j % 4 = 0 /\ j < Op.size /\ j < live[call.old]
                          => mem'[p + j] = mem[call.old + j]
  BY <1>1, PlaceResult DEF DInv
<1>4. NULL \notin DOMAIN live
  BY Region DEF DInv, IInv, StateOK, HeldOK, NULL
<1>5. CASE Op.type = "ALLOC"
  <2>1. Kept = live /\ live' = With(Kept, p, Op.size) /\ id \notin inuse
    BY <1>1, <1>2, <1>3, <1>4, <1>5 DEF Kept, MakesSense
  <2>2. DOMAIN live' = DOMAIN Kept \union {p}
    BY <2>1 DEF With
  <2>3. inuse \ {id} = inuse
    BY <2>1
  <2>4. DOMAIN live = { blocks[x] : x \in inuse }
    BY DEF DInv, Tied
  <2> QED
    BY <1>3, <1>5, <2>1, <2>2, <2>3, <2>4
<1>6. CASE Op.type = "REALLOC"
  <2>1. id \in inuse /\ old \in DOMAIN live /\ call.old = old /\ old # NULL
    BY <1>1, <1>2, <1>4, <1>6, InUseIsHeld DEF DInv, MakesSense
  <2>2. Kept = [q \in DOMAIN live \ {old} |-> live[q]] /\ live' = With(Kept, p, Op.size)
    BY <1>3, <1>6, <2>1 DEF Kept, Without
  <2>3. DOMAIN live' = DOMAIN Kept \union {p}
    BY <2>2 DEF With
  <2>4. /\ DOMAIN live \ {old} = { blocks[x] : x \in inuse \ {id} }
        /\ \A x \in inuse \ {id} : blocks[x] \in DOMAIN live \ {old}
    BY <2>1, OthersAreHeld DEF DInv
  <2>5. DOMAIN Kept = DOMAIN live \ {old} /\ \A q \in DOMAIN Kept : Kept[q] = live[q]
    BY <2>2
  <2>6. \A q \in DOMAIN Kept : Untouched(mem, mem', q)
    BY <1>3, <2>3, <2>5
  <2>7. /\ p \notin DOMAIN Kept
        /\ \A x \in inuse \ {id} : blocks[x] \in DOMAIN Kept /\ Kept[blocks[x]] = live[blocks[x]]
    BY <1>3, <2>4, <2>5
  <2> HIDE DEF p, id, old
  <2> QED
    BY <1>3, <1>6, <2>1, <2>2, <2>4, <2>5, <2>6, <2>7 DEF p, id, old
<1> QED
  BY <1>2, <1>5, <1>6

\* The new payload is noted: the speed pass does not note its size.
LEMMA NotedIsTied ==
  ASSUME RequestsDoNotWrap, DInv, step = "called", place,
         phase' = phase, phase # "done", trace' = trace, step' \in {"next", "fill"},
         blocks' = Extend(blocks, Op.index, call.bp),
         inuse' = inuse \union {Op.index},
         \/ block_sizes' = Extend(block_sizes, Op.index, Op.size)
         \/ phase = "speed" /\ block_sizes' = block_sizes
  PROVE  /\ Tied'
         /\ DOMAIN blocks' = DOMAIN blocks \union {Op.index}
         /\ blocks'[Op.index] = call.bp /\ live'[call.bp] = Op.size
         /\ \A x \in inuse \ {Op.index} :
              blocks'[x] = blocks[x] /\ live'[blocks[x]] = live[blocks[x]]
<1> DEFINE p == call.bp
           id == Op.index
           size == Op.size
<1>1. /\ p \notin DOMAIN live /\ p \notin DOMAIN Kept
      /\ live' = With(Kept, p, size)
      /\ DOMAIN Kept = { blocks[x] : x \in inuse \ {id} }
      /\ \A x \in inuse \ {id} :
           /\ blocks[x] \in DOMAIN Kept /\ blocks[x] \in DOMAIN live
           /\ Kept[blocks[x]] = live[blocks[x]]
  BY PlacedAndTied
<1>2. /\ DOMAIN live' = DOMAIN Kept \union {p} /\ live'[p] = size
      /\ \A q \in DOMAIN Kept : live'[q] = Kept[q]
  BY <1>1 DEF With
<1>3. /\ inuse \subseteq DOMAIN blocks /\ DOMAIN blocks = DOMAIN block_sizes
      /\ block_sizes \in [DOMAIN blocks -> Nat]
      /\ \A x, y \in inuse : blocks[x] = blocks[y] => x = y
      /\ phase = "valid" => \A x \in inuse : live[blocks[x]] = block_sizes[x]
  BY DEF DInv, Tied
<1>4. size \in Nat
  <2>1. size \in Sizes \ {0}
    BY OpFacts
  <2> QED
    BY <2>1, RequestIsRounded
<1>5. /\ DOMAIN blocks' = DOMAIN blocks \union {id} /\ blocks'[id] = p
      /\ \A x \in DOMAIN blocks \ {id} : blocks'[x] = blocks[x]
  BY DEF Extend
<1>6. phase = "speed" => id \in DOMAIN blocks
  <2>1. i + 1 \in DOMAIN trace
    BY OpFacts, LenProperties
  <2> QED
    BY <2>1 DEF DInv, Met, Op
<1> HIDE DEF p, id, size
<1>7. /\ DOMAIN block_sizes' = DOMAIN blocks' /\ block_sizes' \in [DOMAIN blocks' -> Nat]
      /\ phase = "valid" => /\ block_sizes'[id] = size
                            /\ \A x \in DOMAIN blocks \ {id} : block_sizes'[x] = block_sizes[x]
  <2>1. CASE block_sizes' = Extend(block_sizes, Op.index, Op.size)
    <3>1. block_sizes' = [z \in DOMAIN blocks' |-> IF z = id THEN size ELSE block_sizes[z]]
      BY <1>3, <1>5, <2>1 DEF Extend, id, size
    <3>2. ASSUME NEW z \in DOMAIN blocks'
          PROVE  (IF z = id THEN size ELSE block_sizes[z]) \in Nat
      BY <1>3, <1>4, <1>5
    <3> QED
      BY <1>5, <3>1, <3>2
  <2>2. CASE phase = "speed" /\ block_sizes' = block_sizes
    <3>1. DOMAIN blocks' = DOMAIN blocks
      BY <1>5, <1>6, <2>2
    <3> QED
      BY <1>3, <2>2, <3>1
  <2> QED
    BY <2>1, <2>2
<1>8. \A x \in inuse \ {id} : blocks'[x] = blocks[x] /\ live'[blocks[x]] = live[blocks[x]]
  BY <1>1, <1>2, <1>3, <1>5
<1>9. inuse' = (inuse \ {id}) \union {id}
  BY DEF id
<1>10. DOMAIN live' = { blocks'[x] : x \in inuse' }
  BY <1>1, <1>2, <1>5, <1>8, <1>9
<1>11. \A x, y \in inuse' : blocks'[x] = blocks'[y] => x = y
  <2>1. \A x \in inuse \ {id} : blocks'[x] # p
    BY <1>1, <1>8
  <2> QED
    BY <1>3, <1>5, <1>8, <1>9, <2>1
<1>12. phase = "valid" => \A x \in inuse' : live'[blocks'[x]] = block_sizes'[x]
  BY <1>2, <1>3, <1>5, <1>7, <1>8, <1>9
<1>13. inuse' \subseteq DOMAIN blocks'
  BY <1>3, <1>5, <1>9
<1>14. Tied'
  BY <1>7, <1>10, <1>11, <1>12, <1>13 DEF Tied
<1> QED
  BY <1>2, <1>5, <1>8, <1>14 DEF p, id, size

\* No check of the correctness pass fails: the new payload lies apart from those
\* in the list, and after mm_realloc it begins with the pattern.
LEMMA CheckPasses ==
  ASSUME RequestsDoNotWrap, PatternsFit, DInv, step = "called", place, phase = "valid",
         check_payload(call.bp)
  PROVE  /\ step' = "fill" /\ Remember(call.bp) /\ verdict' = verdict
         /\ Listed(ranges', live')
<1> DEFINE p == call.bp
           id == Op.index
           size == Op.size
           old == IF Op.type = "REALLOC" THEN block_sizes[id] ELSE 0
           list == IF Op.type = "REALLOC"
                   THEN Checks!remove_range(ranges, blocks[id]) ELSE ranges
           new == Checks!Extent(p, size)
           accepted == Checks!add_range_accepts(list, new, mem_brk)
           preserved == \A a \in Words :
                          p <= a /\ a < p + Checks!Compared(size, old)
                            => Checks!Char(mem'[a]) = Checks!Pattern(id)
<1>1. /\ ranges' = IF accepted THEN <<new>> \o list ELSE list
      /\ accepted /\ preserved => step' = "fill" /\ Remember(p) /\ verdict' = verdict
  BY DEF check_payload
<1>2. /\ p \notin DOMAIN Kept /\ live' = With(Kept, p, size)
      /\ Op.type = "REALLOC" =>
           /\ id \in inuse /\ blocks[id] \in DOMAIN live
           /\ \A j \in Nat : j % 4 = 0 /\ j < size /\ j < live[blocks[id]]
                             => mem'[p + j] = mem[blocks[id] + j]
  BY PlacedAndTied
<1>3. /\ Op.type \in {"ALLOC", "REALLOC"} /\ id \in Ids
      /\ size \in Sizes \ {0} /\ size \in Nat /\ size > 0
  <2>1. Op.type \in {"ALLOC", "REALLOC"} /\ id \in Ids /\ size \in Sizes \ {0}
    BY OpFacts
  <2> HIDE DEF size
  <2>2. size \in Nat
    BY <2>1, RequestIsRounded
  <2> QED
    BY <2>1, <2>2
<1>4. /\ pc = "place" /\ HeldOK(live, mem_brk) /\ HeldOK(live', mem_brk)
      /\ \E C \in SUBSET Candidates(mem', mem_brk) : Sound(mem', mem_brk, live', C)
  BY PlaceResult, SoundNow DEF DInv, place
<1>5. PICK C \in SUBSET Candidates(mem', mem_brk) : Sound(mem', mem_brk, live', C)
  BY <1>4
<1>6. PICK B \in SUBSET Candidates(mem, mem_brk) : Sound(mem, mem_brk, live, B)
  BY <1>4, SoundNow DEF DInv
<1>7. /\ DOMAIN live' = DOMAIN Kept \union {p} /\ live'[p] = size
      /\ \A q \in DOMAIN Kept : live'[q] = Kept[q]
  BY <1>2 DEF With
<1>8. mem_brk \in Nat /\ mem_brk <= mem_max_addr
  BY Region DEF DInv, IInv, StateOK
<1>9. /\ p \in Nat /\ p % 8 = 0 /\ MEM_START <= p /\ p + size <= mem_brk
      /\ \A q \in DOMAIN Kept :
           /\ q \in Nat /\ Kept[q] \in Nat /\ Kept[q] > 0
           /\ p + size <= q \/ q + Kept[q] <= p
  <2>1. p \in DOMAIN live'
    BY <1>7
  <2>2. /\ p % 8 = 0 /\ MEM_START <= p /\ p + live'[p] <= mem_brk
        /\ \A q \in DOMAIN live' \ {p} : p + live'[p] <= q \/ q + live'[q] <= p
    BY <1>4, <1>5, <2>1, SoundApart
  <2>3. \A q \in DOMAIN live' : q \in Nat /\ live'[q] \in Nat /\ live'[q] > 0
    BY <1>4, <1>5, SoundFacts
  <2> QED
    BY <1>2, <1>7, <2>1, <2>2, <2>3
<1>10. Listed(list, Kept)
  <2>1. Listed(ranges, live)
    BY DEF DInv, Checked
  <2>2. CASE Op.type = "ALLOC"
    BY <2>1, <2>2 DEF Kept
  <2>3. CASE Op.type = "REALLOC"
    BY <2>1, <2>3, ListedRemove DEF Kept
  <2> QED
    BY <1>3, <2>2, <2>3
<1>11. accepted
  <2>1. PICK l : l = list
    OBVIOUS
  <2> HIDE DEF list, p, size
  <2>2. Checks!add_range_accepts(l, Checks!Extent(p, size), mem_brk)
    BY <1>3, <1>8, <1>9, <1>10, <2>1, RangeAccepted
  <2> QED
    BY <2>1, <2>2
<1>12. Listed(<<new>> \o list, live')
  <2>1. PICK l : l = list
    OBVIOUS
  <2>2. p \in Int /\ size \in Int
    BY <1>3, <1>9
  <2> HIDE DEF list, p, size
  <2>3. Listed(<<Checks!Extent(p, size)>> \o l, With(Kept, p, size))
    BY <1>2, <1>10, <2>1, <2>2, ListedAdd
  <2> QED
    BY <1>2, <2>1, <2>3
<1>13. preserved
  <2> SUFFICES ASSUME NEW a \in Words, p <= a, a < p + Checks!Compared(size, old)
               PROVE  Checks!Char(mem'[a]) = Checks!Pattern(id)
    OBVIOUS
  <2>1. a \in Nat /\ a % 4 = 0
    BY Region DEF Words, WSIZE
  <2>2. CASE Op.type = "ALLOC"
    <3>1. old = 0
      BY <2>2
    <3> HIDE DEF old, size, p
    <3>2. Checks!Compared(size, old) = 0
      BY <1>3, <3>1 DEF Checks!Compared
    <3> QED
      BY <1>9, <2>1, <3>2
  <2>3. CASE Op.type = "REALLOC"
    <3> DEFINE q == blocks[id]
               j == a - p
    <3>1. q \in DOMAIN live /\ old = live[q] /\ id \in inuse
      BY <1>2, <2>3 DEF DInv, Tied
    <3>2. /\ q \in Nat /\ live[q] \in Nat /\ q % 8 = 0 /\ MEM_START <= q
          /\ q + live[q] <= mem_brk
      BY <1>4, <1>6, <3>1, SoundFacts, SoundApart
    <3> HIDE DEF q, old, p, size
    <3>3. a < p + size /\ a < p + live[q]
      BY <1>3, <1>9, <2>1, <3>1, <3>2 DEF Checks!Compared
    <3>4. j \in Nat /\ j < size /\ j < live[q] /\ p + j = a /\ j % 4 = 0
      BY <1>3, <1>9, <2>1, <3>2, <3>3
    <3> HIDE DEF j
    <3>5. mem'[a] = mem[q + j]
      BY <1>2, <2>3, <3>4 DEF q
    <3>6. q + j \in Words
      BY <1>8, <3>2, <3>4, Region DEF Words, WSIZE
    <3>7. Filled(mem, q, live[q], Checks!Pattern(id))
      BY <3>1 DEF DInv, Checked, q
    <3>8. mem[q + j] = Checks!Pattern(id)
      BY <3>2, <3>4, <3>6, <3>7 DEF Filled
    <3>9. Checks!Pattern(id) < 128
      BY <1>3 DEF PatternsFit
    <3> QED
      BY <3>5, <3>8, <3>9 DEF Checks!Char
  <2> QED
    BY <1>3, <2>2, <2>3
<1> HIDE DEF accepted, preserved, new, list
<1> QED
  BY <1>1, <1>11, <1>12, <1>13

LEMMA ReturnedKeeps ==
  ASSUME RequestsDoNotWrap, PatternsFit, DInv, returned
  PROVE  DInv'
<1> DEFINE p == call.bp
           id == Op.index
<1>1. /\ step = "called" /\ place /\ phase \in {"valid", "util", "speed"}
      /\ UNCHANGED <<phase, trace, repeat>>
  BY DEF returned
\* whatever the pass does with it, the payload is noted and no check has failed
<1>2. /\ verdict' = verdict
      /\ blocks' = Extend(blocks, id, p) /\ inuse' = inuse \union {id}
      /\ \/ block_sizes' = Extend(block_sizes, id, Op.size)
         \/ phase = "speed" /\ block_sizes' = block_sizes
      /\ \/ phase = "valid" /\ step' = "fill" /\ i' = i
         \/ phase # "valid" /\ step' = "next" /\ i' = i + 1
      /\ phase = "valid" => Listed(ranges', live')
  <2>1. CASE phase = "valid" /\ check_payload(p) /\ UNCHANGED i
    <3>1. step' = "fill" /\ Remember(p) /\ verdict' = verdict /\ Listed(ranges', live')
      BY <1>1, <2>1, CheckPasses
    <3> QED
      BY <2>1, <3>1 DEF Remember
  <2>2. CASE phase # "valid"
    BY <1>1, <2>2 DEF returned, Remember
  <2> QED
    BY <1>1, <2>1, <2>2 DEF returned
<1>3. IInv'
  BY <1>1, PlaceStep DEF DInv
<1>4. /\ Tied'
      /\ DOMAIN blocks' = DOMAIN blocks \union {id}
      /\ blocks'[id] = p /\ live'[p] = Op.size
      /\ \A x \in inuse \ {id} : blocks'[x] = blocks[x] /\ live'[blocks[x]] = live[blocks[x]]
  BY <1>1, <1>2, NotedIsTied
<1>5. /\ trace \in Seq(Requests) /\ Len(trace) <= MaxOps /\ Sensible(trace)
      /\ i \in Nat /\ Len(trace) \in Nat /\ i < Len(trace) /\ trace[i + 1] = Op
      /\ phase = "valid" => i + 1 = Len(trace)
      /\ Op.type \in {"ALLOC", "REALLOC"} /\ Op.size \in Sizes \ {0}
      /\ MakesSense(Op, inuse) /\ inuse = UsedAt(trace, i)
      /\ inuse \union {id} = UsedAt(trace, i + 1)
  BY <1>1, OpFacts
<1>6. Script'
  <2>1. CASE phase = "valid"
    <3>1. Op' = Op
      BY <1>1, <1>2, <2>1 DEF Op
    <3> QED
      BY <1>1, <1>2, <1>5, <2>1, <3>1 DEF Script, Sensible
  <2>2. CASE phase # "valid"
    BY <1>1, <1>2, <1>5, <2>2 DEF Script, Sensible
  <2> QED
    BY <2>1, <2>2
<1>7. Met'
  <2>1. \A n \in DOMAIN trace : n <= i + 1 => n <= i \/ n = i + 1
    BY <1>5, LenProperties
  <2>2. trace[i + 1].index = id
    BY <1>5
  <2> QED
    BY <1>1, <1>2, <1>4, <2>1, <2>2 DEF DInv, Met
<1>8. Modes'
  BY <1>1, <1>2 DEF DInv, Modes
<1>9. Figures'
  <2>1. CASE phase = "util"
    <3>1. /\ total_size' = total_size + ResizeDelta(Op)
          /\ max_total_size' = Greater(total_size', max_total_size)
      BY <1>1, <2>1 DEF returned
    <3>2. Op.size \in Int
      BY <1>5, RequestIsRounded
    <3>3. Op.type = "REALLOC" => block_sizes[id] \in Nat
      BY <1>5 DEF DInv, Tied, MakesSense
    <3>4. ResizeDelta(Op) \in Int
      BY <3>2, <3>3 DEF ResizeDelta
    <3> HIDE DEF id
    <3> QED
      BY <1>1, <3>1, <3>4 DEF DInv, Figures, Greater
  <2>2. CASE phase # "util"
    BY <1>1, <2>2 DEF returned, DInv, Figures
  <2> QED
    BY <2>1, <2>2
<1>10. Checked'
  <2> SUFFICES ASSUME phase = "valid"
               PROVE  /\ Listed(ranges', live')
                      /\ \A x \in inuse' :
                           x # Op'.index
                             => Filled(mem', blocks'[x], live'[blocks'[x]], Checks!Pattern(x))
    BY <1>1, <1>2 DEF Checked
  <2>1. Op' = Op
    BY <1>1, <1>2 DEF Op
  <2>2. /\ pc = "place" /\ HeldOK(live, mem_brk)
    BY <1>1, SoundNow DEF DInv, place
  <2>3. PICK B \in SUBSET Candidates(mem, mem_brk) : Sound(mem, mem_brk, live, B)
    BY <2>2, SoundNow DEF DInv
  <2>4. ASSUME NEW x \in inuse', x # id
        PROVE  Filled(mem', blocks'[x], live'[blocks'[x]], Checks!Pattern(x))
    <3>1. x \in inuse \ {id}
      BY <1>2, <2>4
    <3>2. blocks'[x] = blocks[x] /\ live'[blocks[x]] = live[blocks[x]]
      BY <1>4, <3>1
    <3>3. Filled(mem, blocks[x], live[blocks[x]], Checks!Pattern(x))
      BY <1>1, <3>1 DEF DInv, Checked
    <3>4. blocks[x] \in DOMAIN live /\ Untouched(mem, mem', blocks[x])
      BY <1>1, <3>1, PlacedAndTied
    <3>5. Filled(mem', blocks[x], live[blocks[x]], Checks!Pattern(x))
      BY <2>2, <2>3, <3>3, <3>4, FilledStays
    <3> QED
      BY <3>2, <3>5
  <2> QED
    BY <1>2, <2>1, <2>4
<1> QED
  BY <1>3, <1>4, <1>6, <1>7, <1>8, <1>9, <1>10 DEF DInv

-----------------------------------------------------------------------------

LEMMA DriverStep ==
  ASSUME RequestsDoNotWrap, PatternsFit, DInv, [DNext]_<<vars, driver>>
  PROVE  DInv'
<1>1. CASE begin
  BY <1>1, BeginKeeps
<1>2. ASSUME NEW op \in NextOps, call_allocator(op) \/ free(op)
      PROVE  DInv'
  BY <1>2, CallKeeps, FreeKeeps
<1>3. CASE search \/ failed
  BY <1>3, SearchKeeps, FailedKeeps
<1>4. CASE returned
  BY <1>4, ReturnedKeeps
<1>5. CASE fill
  BY <1>5, FillKeeps
<1>6. CASE end_of_pass
  BY <1>6, EndKeeps
<1>7. CASE UNCHANGED <<vars, driver>>
  BY <1>7, StutterKeeps
<1> QED
  BY <1>1, <1>2, <1>3, <1>4, <1>5, <1>6, <1>7 DEF DNext

\* The driver and the allocator agree on what is held, in every pass and within
\* every call (mdriver.c:577-830).
THEOREM DriverInvariantHolds ==
  ASSUME RequestsDoNotWrap, PatternsFit
  PROVE  DSpec => []DInv
<1>1. DInv /\ [DNext]_<<vars, driver>> => DInv'
  BY DriverStep
<1> QED
  BY <1>1, DriverInit, PTL DEF DSpec

\* The driver's variables keep their types, and outside the start of a pass the
\* blocks of the ids in use are exactly the payloads of the allocator
\* (mdriver.c:577-830).
THEOREM DriverTypesHold ==
  ASSUME RequestsDoNotWrap, PatternsFit
  PROVE  DSpec => []DTypeOK
<1>1. DInv => DTypeOK
  BY DEF DInv, Script, Figures, Modes, Tied, DTypeOK
<1> QED
  BY <1>1, DriverInvariantHolds, PTL

-----------------------------------------------------------------------------
(* The utilization pass.                                                   *)

\* What the utilization pass has added up: the sizes it noted are those of the
\* payloads, and it has never noted more than the heap holds.
Added ==
  phase = "util" /\ step \in {"next", "called"} =>
    /\ \A id \in inuse : live[blocks[id]] = block_sizes[id]
    /\ total_size = SumOver(block_sizes, inuse)
    /\ max_total_size <= mem_brk - MEM_START

UInv == IsFiniteSet(inuse) /\ Added

\* Payloads that lie apart in the heap are together no longer than the heap.
LEMMA HeldFitsHeap ==
  ASSUME RequestsDoNotWrap, NEW m, NEW brk, NEW held, NEW B,
         Sound(m, brk, held, B), HeldOK(held, brk), brk \in MEM_START .. mem_max_addr,
         NEW ids, IsFiniteSet(ids), NEW b, NEW z,
         \A x \in ids : b[x] \in DOMAIN held /\ z[x] = held[b[x]],
         \A x, y \in ids : b[x] = b[y] => x = y
  PROVE  SumOver(z, ids) <= brk - MEM_START
<1>1. ASSUME NEW x \in ids
      PROVE  /\ z[x] \in Nat /\ z[x] > 0 /\ b[x] \in Int
             /\ MEM_START <= b[x] /\ b[x] + z[x] <= brk
  <2>1. b[x] \in Nat /\ held[b[x]] \in Nat /\ held[b[x]] > 0
    BY SoundFacts
  <2>2. MEM_START <= b[x] /\ b[x] + held[b[x]] <= brk
    BY SoundApart
  <2> QED
    BY <2>1, <2>2
<1>2. ASSUME NEW x \in ids, NEW y \in ids, x # y
      PROVE  b[x] + z[x] <= b[y] \/ b[y] + z[y] <= b[x]
  <2>1. b[x] \in DOMAIN held /\ b[y] \in DOMAIN held \ {b[x]}
    BY <1>2
  <2>2. b[x] + held[b[x]] <= b[y] \/ b[y] + held[b[y]] <= b[x]
    BY <2>1, SoundApart
  <2> QED
    BY <2>2
<1>3. MEM_START \in Int /\ brk \in Int /\ MEM_START <= brk
  BY Region
<1> QED
  BY <1>1, <1>2, <1>3, ApartFitIn

LEMMA UtilBegins ==
  ASSUME RequestsDoNotWrap, DInv, begin
  PROVE  UInv'
<1>1. inuse' = {} /\ total_size' = 0 /\ max_total_size' = 0
  BY DEF begin
<1>2. SumOver(block_sizes', {}) = 0 /\ IsFiniteSet({})
  BY FS_EmptySet, SumOverStep
<1>3. mem_brk' \in MEM_START .. mem_max_addr
  BY BeginKeeps DEF DInv, IInv, StateOK
<1>4. 0 <= mem_brk' - MEM_START
  <2>1. PICK brk : brk = mem_brk'
    OBVIOUS
  <2>2. brk \in MEM_START .. mem_max_addr
    BY <1>3, <2>1
  <2>3. 0 <= brk - MEM_START
    BY <2>2, Region
  <2> QED
    BY <2>1, <2>3
<1> QED
  BY <1>1, <1>2, <1>4 DEF UInv, Added

LEMMA UtilSearches ==
  ASSUME RequestsDoNotWrap, DInv, UInv, search
  PROVE  UInv'
<1>1. /\ step = "called" /\ UNCHANGED driver
      /\ find_fit_next \/ find_fit_hit \/ find_fit_miss
  BY DEF search
<1>2. live' = live /\ mem_brk' \in Int /\ mem_brk \in Int /\ mem_brk <= mem_brk'
  <2>1. mem_brk \in Int
    BY Region DEF DInv, IInv, StateOK
  <2>2. CASE find_fit_next \/ find_fit_hit
    BY <2>1, <2>2 DEF find_fit_next, find_fit_hit
  <2>3. CASE find_fit_miss
    <3>1. PICK size : size = RoundUp(Greater(call.asize, CHUNKSIZE), 16)
      OBVIOUS
    <3>2. live' = live /\ (mem_brk' = mem_brk \/ (mem_brk' = mem_brk + size /\ size \in Nat))
      BY <2>3, <3>1, MissCases DEF DInv
    <3> QED
      BY <2>1, <3>2
  <2> QED
    BY <1>1, <2>2, <2>3
<1>3. max_total_size \in Int /\ MEM_START \in Int
  BY Region DEF DInv, Figures
<1> QED
  BY <1>1, <1>2, <1>3 DEF UInv, Added, driver

\* One more payload, or another size of one.
LEMMA UtilNotes ==
  ASSUME RequestsDoNotWrap, PatternsFit, DInv, UInv, returned
  PROVE  UInv'
<1> DEFINE id == Op.index
           p == call.bp
<1>1. step = "called" /\ place /\ phase' = phase /\ trace' = trace
  BY DEF returned
<1>2. IsFiniteSet(inuse')
  <2>1. inuse' = inuse \/ inuse' = inuse \union {id}
    BY DEF returned, check_payload, Remember
  <2> QED
    BY <2>1, FS_AddElement DEF UInv
<1>3. CASE phase # "util"
  BY <1>1, <1>2, <1>3 DEF UInv, Added
<1>4. CASE phase = "util"
  <2>1. /\ step' = "next"
        /\ blocks' = Extend(blocks, id, p) /\ inuse' = inuse \union {id}
        /\ block_sizes' = Extend(block_sizes, id, Op.size)
        /\ total_size' = total_size + ResizeDelta(Op)
        /\ max_total_size' = Greater(total_size', max_total_size)
    BY <1>4 DEF returned, Remember
  <2>2. /\ Tied' /\ blocks'[id] = p /\ live'[p] = Op.size
        /\ \A x \in inuse \ {id} :
             blocks'[x] = blocks[x] /\ live'[blocks[x]] = live[blocks[x]]
    BY <1>1, <1>4, <2>1, NotedIsTied
  <2>3. /\ Op.type \in {"ALLOC", "REALLOC"} /\ MakesSense(Op, inuse) /\ Op.size \in Nat
        /\ inuse \subseteq DOMAIN block_sizes /\ block_sizes \in [DOMAIN blocks -> Nat]
        /\ DOMAIN blocks = DOMAIN block_sizes
    BY <1>1, OpFacts, RequestIsRounded DEF DInv, Tied
  <2>4. block_sizes'[id] = Op.size /\ \A x \in inuse \ {id} : block_sizes'[x] = block_sizes[x]
    BY <2>1, <2>3 DEF Extend
  <2>5. /\ IsFiniteSet(inuse) /\ total_size = SumOver(block_sizes, inuse)
        /\ max_total_size <= mem_brk - MEM_START
        /\ \A x \in inuse : live[blocks[x]] = block_sizes[x]
    BY <1>1, <1>4 DEF UInv, Added
  <2>6. \A x \in inuse' : live'[blocks'[x]] = block_sizes'[x]
    <3>1. \A x \in inuse \ {id} : live'[blocks'[x]] = block_sizes'[x]
      BY <2>2, <2>4, <2>5
    <3>2. live'[blocks'[id]] = block_sizes'[id]
      BY <2>2, <2>4
    <3> QED
      BY <2>1, <3>1, <3>2
  <2>7. total_size' = SumOver(block_sizes', inuse')
    <3>1. PICK T, s : T = inuse \ {id} /\ s = block_sizes'
      OBVIOUS
    <3>2. IsFiniteSet(T) /\ \A x \in T : block_sizes[x] \in Int /\ s[x] = block_sizes[x]
      BY <2>3, <2>4, <2>5, <3>1, FS_Subset
    <3>3. SumOver(s, T) = SumOver(block_sizes, T) /\ SumOver(s, T) \in Int
      <4>1. SumOver(s, T) = SumOver(block_sizes, T)
        BY <3>2, SumOverSame
      <4>2. SumOver(s, T) \in Int
        BY <3>2, SumOverStep
      <4> QED
        BY <4>1, <4>2
    <3>4. SumOver(s, inuse') = Op.size + SumOver(s, T)
      <4>1. id \in inuse' /\ inuse' \ {id} = T /\ s[id] = Op.size
        BY <2>1, <2>4, <3>1
      <4>2. \A x \in inuse' : s[x] \in Int
        BY <2>1, <2>3, <3>1, <3>2, <4>1
      <4> QED
        BY <1>2, <4>1, <4>2, SumOverTakesAny
    <3>5. CASE Op.type = "ALLOC"
      <4>1. T = inuse /\ ResizeDelta(Op) = Op.size
        BY <2>3, <3>1, <3>5 DEF MakesSense, ResizeDelta
      <4>2. SumOver(s, inuse') = Op.size + total_size /\ total_size \in Int
        BY <2>5, <3>3, <3>4, <4>1
      <4> QED
        BY <2>1, <2>3, <3>1, <4>1, <4>2
    <3>6. CASE Op.type = "REALLOC"
      <4>1. id \in inuse /\ ResizeDelta(Op) = Op.size - block_sizes[id]
        BY <2>3, <3>6 DEF MakesSense, ResizeDelta
      <4>2. \A x \in inuse : block_sizes[x] \in Int
        BY <2>3
      <4>3. SumOver(block_sizes, T) = total_size - block_sizes[id]
        BY <2>5, <3>1, <4>1, <4>2, SumOverWithout
      <4>4. block_sizes[id] \in Int /\ total_size \in Int
        BY <4>1, <4>2 DEF DInv, Figures
      <4> QED
        BY <2>1, <2>3, <3>1, <3>3, <3>4, <4>1, <4>3, <4>4
    <3> QED
      BY <2>3, <3>5, <3>6
  <2>8. total_size' <= mem_brk' - MEM_START
    <3>1. PICK m, brk, held, ids, b, z :
            /\ m = mem' /\ brk = mem_brk' /\ held = live' /\ ids = inuse'
            /\ b = blocks' /\ z = block_sizes'
      OBVIOUS
    <3>2. \A x \in ids : b[x] \in DOMAIN held /\ z[x] = held[b[x]]
      BY <2>1, <2>2, <2>6, <3>1 DEF Tied
    <3>3. \A x, y \in ids : b[x] = b[y] => x = y
      BY <2>2, <3>1 DEF Tied
    <3>4. HeldOK(held, brk) /\ brk \in MEM_START .. mem_max_addr
      BY <1>1, <3>1, PlaceStep DEF DInv, IInv, StateOK
    <3>5. \E C : Sound(m, brk, held, C)
      BY <1>1, <3>1, PlaceResult DEF DInv, place
    <3>6. SumOver(z, ids) <= brk - MEM_START
      BY <1>2, <3>1, <3>2, <3>3, <3>4, <3>5, HeldFitsHeap
    <3> QED
      BY <2>7, <3>1, <3>6
  <2>9. max_total_size' <= mem_brk' - MEM_START
    <3>1. mem_brk' = mem_brk
      BY <1>1 DEF place
    <3> QED
      BY <2>1, <2>5, <2>8, <3>1 DEF Greater
  <2> QED
    BY <1>2, <2>6, <2>7, <2>9 DEF UInv, Added
<1> QED
  BY <1>3, <1>4

LEMMA UtilFrees ==
  ASSUME RequestsDoNotWrap, DInv, UInv, NEW op \in NextOps, free(op)
  PROVE  UInv'
<1> DEFINE id == op.index
<1>1. /\ step = "next" /\ op.type = "FREE" /\ mm_free(blocks[id])
      /\ inuse' = inuse \ {id}
      /\ total_size' = IF phase = "util" THEN total_size - block_sizes[id] ELSE total_size
      /\ phase' = phase /\ blocks' = blocks /\ block_sizes' = block_sizes
      /\ max_total_size' = max_total_size
  BY DEF free
<1>2. id \in inuse
  BY <1>1, OperationAtHand DEF DInv, MakesSense
<1>3. IsFiniteSet(inuse')
  BY <1>1, FS_Subset DEF UInv
<1>4. mem_brk' = mem_brk /\ live' = Without(blocks[id])
  BY <1>1 DEF mm_free
<1>5. CASE phase = "util"
  <2>1. /\ IsFiniteSet(inuse) /\ total_size = SumOver(block_sizes, inuse)
        /\ max_total_size <= mem_brk - MEM_START
        /\ \A x \in inuse : live[blocks[x]] = block_sizes[x]
    BY <1>1, <1>5 DEF UInv, Added
  <2>2. \A x \in inuse : block_sizes[x] \in Int
    BY DEF DInv, Tied
  <2>3. total_size' = SumOver(block_sizes, inuse')
    BY <1>1, <1>2, <1>5, <2>1, <2>2, SumOverWithout
  <2>4. \A x \in inuse' : live'[blocks[x]] = block_sizes[x]
    <3>1. \A x \in inuse' : blocks[x] \in DOMAIN live \ {blocks[id]}
      BY <1>1, <1>2, OthersAreHeld DEF DInv
    <3> QED
      BY <1>1, <1>4, <2>1, <3>1 DEF Without
  <2> QED
    BY <1>1, <1>3, <1>4, <2>1, <2>3, <2>4 DEF UInv, Added
<1>6. CASE phase # "util"
  BY <1>1, <1>3, <1>6 DEF UInv, Added
<1> QED
  BY <1>5, <1>6

LEMMA UtilStep ==
  ASSUME RequestsDoNotWrap, PatternsFit, DInv, UInv, [DNext]_<<vars, driver>>
  PROVE  UInv'
<1>1. CASE begin
  BY <1>1, UtilBegins
<1>2. ASSUME NEW op \in NextOps, call_allocator(op)
      PROVE  UInv'
  <2>1. /\ step = "next"
        /\ UNCHANGED <<phase, inuse, blocks, block_sizes, total_size, max_total_size>>
    BY <1>2 DEF call_allocator
  <2>2. mem_brk' = mem_brk /\ live' = live
    <3>1. op.type \in {"ALLOC", "REALLOC"} => op.size # 0
      BY <2>1, OperationAtHand DEF DInv, Requests
    <3> QED
      BY <1>2, <3>1 DEF call_allocator, mm_malloc, mm_realloc, StartSearch
  <2> QED
    BY <2>1, <2>2 DEF UInv, Added
<1>3. ASSUME NEW op \in NextOps, free(op)
      PROVE  UInv'
  BY <1>3, UtilFrees
<1>4. CASE search
  BY <1>4, UtilSearches
<1>5. CASE failed
  BY <1>5 DEF failed, UInv, Added
<1>6. CASE returned
  BY <1>6, UtilNotes
<1>7. CASE fill
  BY <1>7 DEF fill, UInv, Added, DInv, Modes
<1>8. CASE end_of_pass
  BY <1>8 DEF end_of_pass, UInv, Added
<1>9. CASE UNCHANGED <<vars, driver>>
  BY <1>9 DEF vars, driver, UInv, Added
<1> QED
  BY <1>1, <1>2, <1>3, <1>4, <1>5, <1>6, <1>7, <1>8, <1>9 DEF DNext

\* The total that eval_mm_util keeps is the sum of the sizes the trace holds, and its
\* high water mark is at most the heap, in every trace: what main reports as the
\* utilization is a fraction (mdriver.c:727-777).
THEOREM UtilizationHolds ==
  ASSUME RequestsDoNotWrap, PatternsFit
  PROVE  DSpec => []UtilizationIsAFraction
<1>1. DInit => UInv
  BY FS_EmptySet DEF DInit, UInv, Added
<1>2. DInv /\ UInv /\ [DNext]_<<vars, driver>> => UInv'
  BY UtilStep
<1>3. UInv => UtilizationIsAFraction
  BY DEF UInv, Added, UtilizationIsAFraction, SumOver, mem_heapsize
<1> QED
  BY <1>1, <1>2, <1>3, DriverInvariantHolds, PTL DEF DSpec

=============================================================================
