-------------------------- MODULE TraceFilesProofs --------------------------
(***************************************************************************)
(* What holds of every trace file, of any length, with any ids and any     *)
(* header, on its way through checktrace and mdriver; and that every file  *)
(* a script generates, for any number of iterations, is in order.          *)
(***************************************************************************)
EXTENDS TraceFiles, ListLemmas

\* The ids in use behind the first n requests.
IdsInUse(ls, n) == { ls[j].id : j \in { k \in 1 .. n : InUse(ls, n, ls[k].id) } }

\* The n-th request makes sense where it is.
InOrder(ls, n) ==
  /\ ls[n].cmd = "a" => ls[n].id \notin IdsInUse(ls, n - 1)
  /\ ls[n].cmd \in {"r", "f"} => ls[n].id \in IdsInUse(ls, n - 1)

\* The ids that the header has to be right about.
Allocated(ls) == { l.id : l \in { m \in ToSet(ls) : m.cmd \in {"a", "r"} } }

Entries == [cmd : {"a", "r", "f", "x"}, id : Nat]
FileType == [num_ids : Nat, num_ops : Nat, lines : Seq(Entries \union {Blank})]

Reqs == Requests(Given.lines)

-----------------------------------------------------------------------------
(* The inductive invariant.                                                *)

Types ==
  /\ file \in FileType
  /\ checked \in BOOLEAN /\ opt_s \in BOOLEAN
  /\ step \in {"start", "check", "read", "run", "died", "balanced", "unbalanced",
               "exited", "aborted", "done", "wild"}
  /\ pos \in 0 .. Len(Given.lines)
  /\ \A id \in DOMAIN HASH : HASH[id] \in {"a", "x"}
  /\ Len(lines) <= Len(Given.lines)
  /\ max_index \in Nat /\ Len(ops) <= Given.num_ops
  /\ package \in {"libc", "mm"} /\ pass \in 0 .. Passes
  /\ leaked \in Nat
  /\ step \in {"start", "check"} => ops = << >>
  /\ step \in {"start", "check", "read"} => inuse = {} /\ leaked = 0

\* What checktrace printed, and what it keeps of the file it was given.
Printed ==
  checked =>
    /\ output \in FileType
    /\ \A k \in DOMAIN output.lines : output.lines[k] # Blank
    /\ Known(output.lines) =>
         /\ \A n \in DOMAIN output.lines : InOrder(output.lines, n)
         /\ IdsInUse(output.lines, Len(output.lines)) = {}
    /\ Known(file.lines) => Known(output.lines)
    /\ Known(file.lines) /\ HeaderRight(file) => HeaderRight(output)

\* checktrace at its work: the hash has the ids in use.
Checking ==
  step = "check" =>
    /\ lines = RequestsIn(Given.lines, pos)
    /\ checked => opt_s
    /\ IsFiniteSet(DOMAIN HASH) /\ DOMAIN HASH \subseteq Nat
    /\ Known(Reqs) =>
         /\ \A n \in DOMAIN lines : InOrder(Reqs, n)
         /\ DOMAIN HASH = IdsInUse(Reqs, Len(lines))
         /\ \A id \in DOMAIN HASH : HASH[id] = "a"

\* read_trace at its work.
Reading ==
  step = "read" =>
    /\ ops = RequestsIn(Given.lines, pos)
    /\ Known(ops)
    /\ max_index \in Allocated(ops) \union {0}
    /\ \A id \in Allocated(ops) : id <= max_index

\* The passes: an id that is in use has its payload.
Running ==
  step = "run" =>
    /\ ops = Reqs /\ Known(ops)
    /\ pos <= Len(ops) /\ Len(ops) = Given.num_ops
    /\ \A id \in Allocated(ops) : id < Given.num_ids
    /\ IdsInUse(ops, pos) \subseteq inuse
    /\ checked => inuse = IdsInUse(ops, pos) /\ leaked = 0

\* How it may have ended.
Ended ==
  LET right == Known(Given.lines) /\ HeaderRight(Given)
      sensible == \A n \in DOMAIN Reqs : InOrder(Reqs, n)
  IN  /\ step = "died" => ~ (Known(Reqs) /\ sensible)
      /\ step \in {"balanced", "unbalanced"} /\ Known(Reqs) =>
           sensible /\ (step = "balanced" <=> IdsInUse(Reqs, Len(Reqs)) = {})
      /\ step \in {"exited", "aborted"} => ~ right
      /\ step = "wild" => ~ (HeaderRight(Given) /\ sensible)
      /\ step = "done" /\ checked => inuse = {} /\ leaked = 0

TraceInv == Types /\ Printed /\ Checking /\ Reading /\ Running /\ Ended

-----------------------------------------------------------------------------
(* The lines that are not blank.                                           *)

LEMMA RequestsStep ==
  ASSUME NEW R, NEW ls \in Seq(R)
  PROVE  /\ RequestsIn(ls, 0) = << >>
         /\ \A n \in 1 .. Len(ls) :
              RequestsIn(ls, n) = IF ls[n] = Blank THEN RequestsIn(ls, n - 1)
                                  ELSE Append(RequestsIn(ls, n - 1), ls[n])
<1> DEFINE Body(h) == [k \in 0 .. Len(ls) |->
                         IF k = 0 THEN << >>
                         ELSE IF ls[k] = Blank THEN h[k - 1]
                              ELSE Append(h[k - 1], ls[k])]
<1>1. Len(ls) \in Nat /\ \A k \in 1 .. Len(ls) : ls[k] \in R
  BY LenProperties, ElementOfSeq
<1>2. \A n : RequestsIn(ls, n) = (CHOOSE h : h = Body(h))[n]
  BY DEF RequestsIn
<1>3. \E h : h = Body(h)
  <2>1. PICK D, first : D = Seq(R) /\ first = << >>
    OBVIOUS
  <2> DEFINE g == [k \in 1 .. Len(ls) |->
                     [s \in D |-> IF ls[k] = Blank THEN s ELSE Append(s, ls[k])]]
  <2>2. \A k \in 1 .. Len(ls) : g[k] \in [D -> D]
    BY <1>1, <2>1, AppendProperties
  <2>3. PICK h \in [0 .. Len(ls) -> D] :
          h[0] = first /\ \A k \in 1 .. Len(ls) : h[k] = g[k][h[k - 1]]
    <3>1. first \in D
      BY <2>1
    <3>2. StepsIn(g, Len(ls), D)
      BY <2>2 DEF StepsIn
    <3> HIDE DEF g
    <3>3. PICK h : Recursion(h, first, g, Len(ls), D)
      BY <1>1, <3>1, <3>2, RecursionExists
    <3> QED
      BY <3>3 DEF Recursion
  <2>4. \A k \in 1 .. Len(ls) :
          h[k] = IF ls[k] = Blank THEN h[k - 1] ELSE Append(h[k - 1], ls[k])
    <3> TAKE k \in 1 .. Len(ls)
    <3>1. h[k - 1] \in D
      BY <1>1
    <3> QED
      BY <2>3, <3>1
  <2>5. ASSUME NEW k \in 0 .. Len(ls)
        PROVE  h[k] = Body(h)[k]
    <3>1. CASE k = 0
      BY <2>1, <2>3, <3>1
    <3>2. CASE k # 0
      <4>1. k \in 1 .. Len(ls) /\ k > 0
        BY <1>1, <3>2
      <4>2. Body(h)[k] = IF ls[k] = Blank THEN h[k - 1] ELSE Append(h[k - 1], ls[k])
        BY <3>2
      <4> QED
        <5> HIDE DEF Body
        <5> QED
          BY <2>4, <4>1, <4>2
    <3> QED
      BY <3>1, <3>2
  <2>6. h = Body(h)
    <3> HIDE DEF g
    <3> QED
      BY <2>5
  <2> QED
    BY <2>6
<1>4. PICK u : u = CHOOSE h : h = Body(h)
  OBVIOUS
<1>5. u = Body(u)
  <2> HIDE DEF Body
  <2> QED
    BY <1>3, <1>4
<1>6. u[0] = << >>
  BY <1>1, <1>5
<1>7. ASSUME NEW n \in 1 .. Len(ls)
      PROVE  u[n] = IF ls[n] = Blank THEN u[n - 1] ELSE Append(u[n - 1], ls[n])
  <2>1. n > 0 /\ n # 0 /\ n \in 0 .. Len(ls)
    BY <1>1
  <2> QED
    BY <1>5, <2>1
<1>8. \A n : RequestsIn(ls, n) = u[n]
  BY <1>2, <1>4
<1> HIDE DEF Body
<1> QED
  BY <1>6, <1>7, <1>8

\* What is done up to a line is done to the end of the file and is not done over.
LEMMA RequestsFacts ==
  ASSUME NEW R, NEW ls \in Seq(R)
  PROVE  \A n \in 0 .. Len(ls) :
           LET now == RequestsIn(ls, n)
           IN  /\ now \in Seq(R) /\ Len(now) <= n
               /\ \A k \in DOMAIN now : now[k] # Blank
               /\ \A x : x \in ToSet(now) <=> x # Blank /\ \E k \in 1 .. n : ls[k] = x
<1> DEFINE Good(n) ==
             /\ RequestsIn(ls, n) \in Seq(R) /\ Len(RequestsIn(ls, n)) <= n
             /\ \A k \in DOMAIN RequestsIn(ls, n) : RequestsIn(ls, n)[k] # Blank
             /\ \A x : x \in ToSet(RequestsIn(ls, n)) <=>
                         x # Blank /\ \E k \in 1 .. n : ls[k] = x
           S == { n \in Nat : n <= Len(ls) => Good(n) }
<1>1. Len(ls) \in Nat /\ \A k \in 1 .. Len(ls) : ls[k] \in R
  BY LenProperties, ElementOfSeq
<1>2. Good(0)
  <2>1. RequestsIn(ls, 0) = << >>
    BY RequestsStep
  <2>2. PICK s : s = << >>
    OBVIOUS
  <2>3. s \in Seq(R) /\ Len(s) = 0 /\ DOMAIN s = {}
    BY <2>2
  <2>4. ToSet(s) = {} /\ 1 .. 0 = {}
    BY <2>3 DEF ToSet
  <2>5. RequestsIn(ls, 0) = s
    BY <2>1, <2>2
  <2>6. s \in Seq(R) /\ Len(s) <= 0 /\ \A k \in DOMAIN s : s[k] # Blank
    BY <2>3
  <2>7. \A x : x \in ToSet(s) <=> x # Blank /\ \E k \in 1 .. 0 : ls[k] = x
    BY <2>4
  <2> QED
    BY <2>5, <2>6, <2>7, Zenon
<1>3. ASSUME NEW n \in Nat, n + 1 <= Len(ls), Good(n)
      PROVE  Good(n + 1)
  <2>1. PICK s : s = RequestsIn(ls, n)
    OBVIOUS
  <2>2. PICK t : t = RequestsIn(ls, n + 1)
    OBVIOUS
  <2>3. n + 1 \in 1 .. Len(ls) /\ ls[n + 1] \in R
    BY <1>1, <1>3
  <2>4. t = IF ls[n + 1] = Blank THEN s ELSE Append(s, ls[n + 1])
    <3>1. n + 1 - 1 = n
      OBVIOUS
    <3>2. PICK m : m = n + 1
      OBVIOUS
    <3>3. m \in 1 .. Len(ls) /\ m - 1 = n
      BY <2>3, <3>1, <3>2
    <3>4. RequestsIn(ls, m) = IF ls[m] = Blank THEN RequestsIn(ls, m - 1)
                              ELSE Append(RequestsIn(ls, m - 1), ls[m])
      BY <3>3, RequestsStep
    <3> QED
      BY <2>1, <2>2, <3>2, <3>3, <3>4
  <2>5. /\ s \in Seq(R) /\ Len(s) <= n /\ \A k \in DOMAIN s : s[k] # Blank
        /\ \A x : x \in ToSet(s) <=> x # Blank /\ \E k \in 1 .. n : ls[k] = x
    BY <1>3, <2>1
  <2>6. Len(s) \in Nat /\ DOMAIN s = 1 .. Len(s)
    BY <2>5, LenProperties
  <2>7. 1 .. n + 1 = (1 .. n) \union {n + 1}
    OBVIOUS
  <2>8. CASE ls[n + 1] = Blank
    BY <2>2, <2>4, <2>5, <2>6, <2>7, <2>8
  <2>9. CASE ls[n + 1] # Blank
    <3>1. /\ t \in Seq(R) /\ Len(t) = Len(s) + 1
          /\ \A k \in 1 .. Len(s) : t[k] = s[k]
          /\ t[Len(s) + 1] = ls[n + 1]
      BY <2>3, <2>4, <2>5, <2>9, AppendProperties
    <3>2. DOMAIN t = (1 .. Len(s)) \union {Len(s) + 1}
      BY <2>6, <3>1, LenProperties
    <3>3. ToSet(t) = ToSet(s) \union {ls[n + 1]}
      BY <2>6, <3>1, <3>2 DEF ToSet
    <3>4. \A k \in DOMAIN t : t[k] # Blank
      BY <2>5, <2>6, <2>9, <3>1, <3>2
    <3>5. Len(t) <= n + 1
      BY <2>5, <2>6, <3>1
    <3>6. ASSUME NEW x
          PROVE  x \in ToSet(t) <=> x # Blank /\ \E k \in 1 .. n + 1 : ls[k] = x
      BY <2>5, <2>7, <2>9, <3>3
    <3> QED
      BY <2>2, <3>1, <3>4, <3>5, <3>6
  <2> HIDE DEF Good
  <2> QED
    BY <2>8, <2>9
<1>4. Nat \subseteq S
  <2>1. 0 \in S /\ \A n \in Nat : n \in S => n + 1 \in S
    <3> HIDE DEF Good
    <3> QED
      BY <1>1, <1>2, <1>3
  <2> HIDE DEF S
  <2> QED
    BY <2>1, SetInduction
<1> QED
  BY <1>1, <1>4

LEMMA RequestsPrefix ==
  ASSUME NEW R, NEW ls \in Seq(R), NEW n \in 0 .. Len(ls), NEW m \in n .. Len(ls)
  PROVE  /\ Len(RequestsIn(ls, n)) <= Len(RequestsIn(ls, m))
         /\ \A k \in 1 .. Len(RequestsIn(ls, n)) : RequestsIn(ls, m)[k] = RequestsIn(ls, n)[k]
<1>1. PICK s : s = RequestsIn(ls, n)
  OBVIOUS
<1>2. Len(ls) \in Nat /\ \A k \in 1 .. Len(ls) : ls[k] \in R
  BY LenProperties, ElementOfSeq
<1>3. s \in Seq(R) /\ Len(s) \in Nat
  BY <1>1, RequestsFacts, LenProperties
<1> DEFINE Begins(t) == Len(s) <= Len(t) /\ \A k \in 1 .. Len(s) : t[k] = s[k]
           S == { d \in Nat : n + d <= Len(ls) => Begins(RequestsIn(ls, n + d)) }
<1>4. 0 \in S
  <2>1. n + 0 = n
    BY <1>2
  <2> QED
    BY <1>1, <1>3, <2>1
<1>5. ASSUME NEW d \in Nat, d \in S
      PROVE  d + 1 \in S
  <2> SUFFICES ASSUME n + (d + 1) <= Len(ls) PROVE Begins(RequestsIn(ls, n + (d + 1)))
    OBVIOUS
  <2>1. PICK i : i = n + (d + 1)
    OBVIOUS
  <2>2. i \in 1 .. Len(ls) /\ i - 1 = n + d /\ i - 1 \in 0 .. Len(ls)
    BY <1>2, <2>1
  <2>3. PICK t : t = RequestsIn(ls, i - 1)
    OBVIOUS
  <2>4. PICK u : u = RequestsIn(ls, i)
    OBVIOUS
  <2>5. Begins(t)
    BY <1>5, <2>2, <2>3
  <2>6. t \in Seq(R) /\ Len(t) \in Nat
    BY <2>2, <2>3, RequestsFacts, LenProperties
  <2>7. u = IF ls[i] = Blank THEN t ELSE Append(t, ls[i])
    BY <2>2, <2>3, <2>4, RequestsStep
  <2>8. Begins(u)
    <3>1. CASE ls[i] = Blank
      BY <2>5, <2>7, <3>1
    <3>2. CASE ls[i] # Blank
      <4>1. Len(u) = Len(t) + 1 /\ \A k \in 1 .. Len(t) : u[k] = t[k]
        BY <1>2, <2>2, <2>6, <2>7, <3>2, AppendProperties
      <4> QED
        BY <1>3, <2>5, <2>6, <4>1
    <3> QED
      BY <3>1, <3>2
  <2> HIDE DEF Begins
  <2> QED
    BY <2>1, <2>4, <2>8
<1>6. Nat \subseteq S
  <2> HIDE DEF S
  <2> QED
    BY <1>4, <1>5, SetInduction
<1>7. m - n \in Nat /\ n + (m - n) = m /\ m <= Len(ls)
  BY <1>2
<1>8. Begins(RequestsIn(ls, m))
  BY <1>6, <1>7
<1> QED
  BY <1>1, <1>8

\* The line at hand is the next request.
LEMMA NextRequest ==
  ASSUME NEW R, NEW ls \in Seq(R), NEW n \in Nat, n < Len(ls), ls[n + 1] # Blank
  PROVE  LET now == RequestsIn(ls, n)
             all == Requests(ls)
         IN  /\ Len(now) + 1 \in DOMAIN all /\ all[Len(now) + 1] = ls[n + 1]
             /\ RequestsIn(ls, n + 1) = Append(now, ls[n + 1])
             /\ now \in Seq(R) /\ ls[n + 1] \in R
             /\ all \in Seq(R)
             /\ \A k \in 1 .. Len(now) : all[k] = now[k]
<1>1. PICK i, t, u, w : /\ i = n + 1 /\ t = RequestsIn(ls, n) /\ u = RequestsIn(ls, i)
                        /\ w = Requests(ls)
  OBVIOUS
<1>2. /\ Len(ls) \in Nat /\ i \in 1 .. Len(ls) /\ i - 1 = n
      /\ n \in 0 .. Len(ls) /\ i \in 0 .. Len(ls)
      /\ Len(ls) \in 0 .. Len(ls) /\ Len(ls) \in i .. Len(ls)
  <2>1. Len(ls) \in Nat
    BY LenProperties
  <2> QED
    BY <1>1, <2>1
<1>3. ls[i] \in R
  BY <1>2, ElementOfSeq
<1>4. t \in Seq(R) /\ u \in Seq(R) /\ w \in Seq(R)
  BY <1>1, <1>2, RequestsFacts DEF Requests
<1>5. u = Append(t, ls[i])
  BY <1>1, <1>2, RequestsStep
<1>6. Len(u) = Len(t) + 1 /\ u[Len(t) + 1] = ls[i] /\ \A k \in 1 .. Len(t) : u[k] = t[k]
  BY <1>3, <1>4, <1>5, AppendProperties
<1>7. Len(u) <= Len(w) /\ \A k \in 1 .. Len(u) : w[k] = u[k]
  BY <1>1, <1>2, RequestsPrefix DEF Requests
<1>8. Len(t) \in Nat /\ Len(w) \in Nat /\ DOMAIN w = 1 .. Len(w)
  BY <1>4, LenProperties
<1>9. Len(t) + 1 \in DOMAIN w /\ w[Len(t) + 1] = ls[i] /\ \A k \in 1 .. Len(t) : w[k] = t[k]
  BY <1>6, <1>7, <1>8
<1> QED
  BY <1>1, <1>3, <1>4, <1>5, <1>9

\* A file without a blank line is its requests.
LEMMA NothingBlank ==
  ASSUME NEW R, NEW ls \in Seq(R), \A k \in DOMAIN ls : ls[k] # Blank
  PROVE  Requests(ls) = ls
<1>1. Len(ls) \in Nat /\ DOMAIN ls = 1 .. Len(ls) /\ \A k \in 1 .. Len(ls) : ls[k] \in R
  BY LenProperties, ElementOfSeq
<1> DEFINE Same(n, t) == Len(t) = n /\ \A k \in 1 .. n : t[k] = ls[k]
           S == { n \in Nat : n <= Len(ls) => Same(n, RequestsIn(ls, n)) }
<1>2. 0 \in S
  <2>1. PICK t : t = << >>
    OBVIOUS
  <2>2. Same(0, t)
    BY <2>1
  <2> HIDE DEF Same
  <2> QED
    BY <2>1, <2>2, RequestsStep
<1>3. ASSUME NEW n \in Nat, n \in S
      PROVE  n + 1 \in S
  <2> SUFFICES ASSUME n + 1 <= Len(ls) PROVE Same(n + 1, RequestsIn(ls, n + 1))
    OBVIOUS
  <2>1. PICK i, t, u : i = n + 1 /\ t = RequestsIn(ls, n) /\ u = RequestsIn(ls, i)
    OBVIOUS
  <2>2. i \in 1 .. Len(ls) /\ i - 1 = n /\ n \in 0 .. Len(ls) /\ ls[i] # Blank /\ ls[i] \in R
    BY <1>1, <2>1
  <2>3. t \in Seq(R) /\ Same(n, t)
    BY <1>1, <1>3, <2>1, <2>2, RequestsFacts
  <2>4. u = Append(t, ls[i])
    BY <2>1, <2>2, RequestsStep
  <2>5. Len(u) = n + 1 /\ u[n + 1] = ls[i] /\ \A k \in 1 .. n : u[k] = t[k]
    BY <2>2, <2>3, <2>4, AppendProperties
  <2>6. Same(i, u)
    BY <2>1, <2>3, <2>5
  <2> HIDE DEF Same
  <2> QED
    BY <2>1, <2>6
<1>4. Nat \subseteq S
  <2> HIDE DEF S
  <2> QED
    BY <1>2, <1>3, SetInduction
<1>5. PICK w : w = Requests(ls)
  OBVIOUS
<1>6. w \in Seq(R) /\ Len(ls) \in 0 .. Len(ls)
  BY <1>1, <1>5, RequestsFacts DEF Requests
<1>7. Same(Len(ls), w)
  BY <1>1, <1>4, <1>5 DEF Requests
<1>8. w \in [1 .. Len(ls) -> R] /\ ls \in [1 .. Len(ls) -> R]
  BY <1>1, <1>6, <1>7, LenProperties
<1> QED
  BY <1>5, <1>7, <1>8

\* What a file says of commands and of ids, its requests say.
LEMMA RequestsSayAll ==
  ASSUME NEW R, NEW ls \in Seq(R)
  PROVE  /\ Known(Requests(ls)) <=> Known(ls)
         /\ Allocated(Requests(ls)) = Allocated(ls)
         /\ Requests(ls) \in Seq(R)
         /\ Len(Requests(ls)) <= Len(ls)
<1>1. Len(ls) \in Nat /\ Len(ls) \in 0 .. Len(ls) /\ DOMAIN ls = 1 .. Len(ls)
  BY LenProperties
<1>2. PICK w : w = Requests(ls)
  OBVIOUS
<1>3. /\ w \in Seq(R) /\ Len(w) <= Len(ls)
      /\ \A x : x \in ToSet(w) <=> x # Blank /\ \E k \in 1 .. Len(ls) : ls[k] = x
  BY <1>1, <1>2, RequestsFacts DEF Requests
<1>4. \A x : x \in ToSet(w) <=> x # Blank /\ x \in ToSet(ls)
  BY <1>1, <1>3 DEF ToSet
<1>5. Blank.cmd = ""
  BY DEF Blank
<1>6. \A t : Known(t) <=> \A x \in ToSet(t) : x.cmd # "x"
  BY DEF Known, ToSet
<1>7. Known(w) <=> Known(ls)
  BY <1>4, <1>5, <1>6
<1>8. Allocated(w) = Allocated(ls)
  <2>1. { m \in ToSet(w) : m.cmd \in {"a", "r"} } = { m \in ToSet(ls) : m.cmd \in {"a", "r"} }
    BY <1>4, <1>5
  <2> QED
    BY <2>1, Zenon DEF Allocated
<1> QED
  BY <1>2, <1>3, <1>7, <1>8

-----------------------------------------------------------------------------
(* Ids in use.                                                             *)

LEMMA IdsAreInUse ==
  ASSUME NEW ls, NEW n, NEW id
  PROVE  id \in IdsInUse(ls, n) <=> InUse(ls, n, id)
<1>1. ASSUME InUse(ls, n, id)
      PROVE  id \in IdsInUse(ls, n)
  <2>1. PICK j \in 1 .. n : ls[j] = [cmd |-> "a", id |-> id]
    BY <1>1 DEF InUse
  <2>2. ls[j].id = id
    BY <2>1
  <2> QED
    BY <1>1, <2>2 DEF IdsInUse
<1> QED
  BY <1>1 DEF IdsInUse

\* A line is in order when it makes sense, or only reuses an id.
LEMMA InOrderIs ==
  ASSUME NEW ls, NEW n
  PROVE  InOrder(ls, n) <=> SensibleAt(ls, n) \/ ReusesAt(ls, n)
<1>1. \A id : id \in IdsInUse(ls, n - 1) <=> InUse(ls, n - 1, id)
  BY IdsAreInUse
<1>2. \A id : InUse(ls, n - 1, id) => AllocatedIn(ls, n - 1, id)
  BY DEF InUse, AllocatedIn
<1> QED
  BY <1>1, <1>2 DEF InOrder, SensibleAt, ReusesAt

LEMMA SensibleIs ==
  ASSUME NEW ls
  PROVE  /\ Sensible(ls) => \A n \in DOMAIN ls : InOrder(ls, n)
         /\ (\A n \in DOMAIN ls : InOrder(ls, n)) =>
               \A n \in DOMAIN ls : SensibleAt(ls, n) \/ ReusesAt(ls, n)
  BY InOrderIs DEF Sensible

\* They depend on the requests so far, and on no later one.
LEMMA InUsePrefix ==
  ASSUME NEW ls, NEW ms, NEW n \in Nat, \A j \in 1 .. n : ls[j] = ms[j]
  PROVE  IdsInUse(ls, n) = IdsInUse(ms, n)
<1>1. \A id : InUse(ls, n, id) <=> InUse(ms, n, id)
  BY DEF InUse
<1> QED
  BY <1>1, IdsAreInUse

LEMMA InOrderPrefix ==
  ASSUME NEW ls, NEW ms, NEW n \in Nat, \A j \in 1 .. n : ls[j] = ms[j],
         NEW k \in 1 .. n
  PROVE  InOrder(ls, k) <=> InOrder(ms, k)
<1>1. k - 1 \in Nat /\ (\A j \in 1 .. k - 1 : ls[j] = ms[j]) /\ ls[k] = ms[k]
  OBVIOUS
<1>2. IdsInUse(ls, k - 1) = IdsInUse(ms, k - 1)
  BY <1>1, InUsePrefix
<1> QED
  BY <1>1, <1>2 DEF InOrder

LEMMA InOrderNext ==
  ASSUME NEW ls, NEW n \in Nat, NEW l, ls[n + 1] = l
  PROVE  /\ l.cmd = "a" => (InOrder(ls, n + 1) <=> l.id \notin IdsInUse(ls, n))
         /\ l.cmd \in {"r", "f"} => (InOrder(ls, n + 1) <=> l.id \in IdsInUse(ls, n))
<1>1. PICK i, used : i = n + 1 /\ used = IdsInUse(ls, n)
  OBVIOUS
<1>2. i - 1 = n
  BY <1>1
<1>3. IdsInUse(ls, i - 1) = used /\ ls[i] = l
  BY <1>1, <1>2
<1>4. InOrder(ls, i) <=> /\ l.cmd = "a" => l.id \notin used
                         /\ l.cmd \in {"r", "f"} => l.id \in used
  BY <1>3 DEF InOrder
<1> QED
  BY <1>1, <1>4

LEMMA NoneInUse == ASSUME NEW ls PROVE IdsInUse(ls, 0) = {}
<1>1. 1 .. 0 = {}
  OBVIOUS
<1> QED
  BY <1>1 DEF IdsInUse

\* How one more request changes them.
LEMMA InUseNext ==
  ASSUME NEW ls, NEW n \in Nat, NEW l \in Entries, ls[n + 1] = l
  PROVE  /\ l.cmd = "a" => IdsInUse(ls, n + 1) = IdsInUse(ls, n) \union {l.id}
         /\ l.cmd = "f" => IdsInUse(ls, n + 1) = IdsInUse(ls, n) \ {l.id}
         /\ l.cmd \notin {"a", "f"} => IdsInUse(ls, n + 1) = IdsInUse(ls, n)
<1> DEFINE Since(id, j, m) ==
             /\ ls[j] = [cmd |-> "a", id |-> id]
             /\ \A k \in j + 1 .. m : ls[k] # [cmd |-> "f", id |-> id]
           Freed(id) == l.cmd = "f" /\ l.id = id
           Taken(id) == l.cmd = "a" /\ l.id = id
<1>1. \A id, m : id \in IdsInUse(ls, m) <=> \E j \in 1 .. m : Since(id, j, m)
  <2> TAKE id, m
  <2>1. id \in IdsInUse(ls, m) <=> InUse(ls, m, id)
    BY IdsAreInUse
  <2>2. InUse(ls, m, id) <=> \E j \in 1 .. m : Since(id, j, m)
    BY Zenon DEF InUse
  <2> QED
    BY <2>1, <2>2
<1>2. l = [cmd |-> l.cmd, id |-> l.id]
  BY DEF Entries
<1>3. \A id : /\ ls[n + 1] = [cmd |-> "f", id |-> id] <=> Freed(id)
              /\ ls[n + 1] = [cmd |-> "a", id |-> id] <=> Taken(id)
  BY <1>2
<1>4. ASSUME NEW j \in 1 .. n, NEW id
      PROVE  Since(id, j, n + 1) <=> Since(id, j, n) /\ ~ Freed(id)
  <2>1. j + 1 .. n + 1 = (j + 1 .. n) \union {n + 1}
    OBVIOUS
  <2> HIDE DEF Freed, Taken
  <2> QED
    BY <1>3, <2>1
<1>5. \A id : Since(id, n + 1, n + 1) <=> Taken(id)
  <2>1. n + 1 + 1 .. n + 1 = {}
    OBVIOUS
  <2> HIDE DEF Freed, Taken
  <2> QED
    BY <1>3, <2>1
<1>6. 1 .. n + 1 = (1 .. n) \union {n + 1}
  OBVIOUS
<1> HIDE DEF Since
<1>7. \A id :
        id \in IdsInUse(ls, n + 1) <=>
          (id \in IdsInUse(ls, n) /\ ~ Freed(id)) \/ Taken(id)
  <2> HIDE DEF Freed, Taken
  <2> QED
    BY <1>1, <1>4, <1>5, <1>6
<1>8. ASSUME l.cmd = "a" PROVE IdsInUse(ls, n + 1) = IdsInUse(ls, n) \union {l.id}
  BY <1>7, <1>8
<1>9. ASSUME l.cmd = "f" PROVE IdsInUse(ls, n + 1) = IdsInUse(ls, n) \ {l.id}
  BY <1>7, <1>9
<1>10. ASSUME l.cmd \notin {"a", "f"} PROVE IdsInUse(ls, n + 1) = IdsInUse(ls, n)
  BY <1>7, <1>10
<1> QED
  BY <1>8, <1>9, <1>10

\* An id in use has been allocated.
LEMMA InUseAllocated ==
  ASSUME NEW R, NEW ls \in Seq(R), NEW n \in 0 .. Len(ls)
  PROVE  IdsInUse(ls, n) \subseteq Allocated(ls)
<1>1. Len(ls) \in Nat /\ DOMAIN ls = 1 .. Len(ls)
  BY LenProperties
<1>2. ASSUME NEW id \in IdsInUse(ls, n)
      PROVE  id \in Allocated(ls)
  <2>1. InUse(ls, n, id)
    BY <1>2, IdsAreInUse
  <2>2. PICK j \in 1 .. n : ls[j] = [cmd |-> "a", id |-> id]
    BY <2>1 DEF InUse
  <2>3. j \in DOMAIN ls /\ ls[j].cmd = "a" /\ ls[j].id = id
    BY <1>1, <2>2
  <2>4. ls[j] \in ToSet(ls)
    BY <2>3 DEF ToSet
  <2> QED
    BY <2>3, <2>4 DEF Allocated
<1> QED
  BY <1>2

LEMMA RequestsAreEntries ==
  ASSUME NEW ls \in Seq(Entries \union {Blank}), NEW n \in 0 .. Len(ls)
  PROVE  RequestsIn(ls, n) \in Seq(Entries) /\ Len(RequestsIn(ls, n)) <= n
<1>1. PICK w : w = RequestsIn(ls, n)
  OBVIOUS
<1>2. /\ w \in Seq(Entries \union {Blank}) /\ Len(w) <= n
      /\ \A k \in DOMAIN w : w[k] # Blank
  BY <1>1, RequestsFacts
<1>3. /\ Len(w) \in Nat /\ DOMAIN w = 1 .. Len(w)
      /\ w \in [1 .. Len(w) -> Entries \union {Blank}]
  BY <1>2, LenProperties
<1>4. w \in [1 .. Len(w) -> Entries]
  BY <1>2, <1>3
<1>5. w \in Seq(Entries)
  BY <1>3, <1>4
<1> QED
  BY <1>1, <1>2, <1>5

-----------------------------------------------------------------------------
(* What checktrace prints.                                                 *)

\* The keys, in any order, are all there, and each once.
LEMMA KeysOnce ==
  ASSUME NEW D, IsFiniteSet(D), NEW keys \in SetToSeqs(D)
  PROVE  /\ Cardinality(D) \in Nat
         /\ keys \in [1 .. Cardinality(D) -> D]
         /\ \A j, k \in 1 .. Cardinality(D) : keys[j] = keys[k] => j = k
         /\ \A id \in D : \E k \in 1 .. Cardinality(D) : keys[k] = id
<1>1. PICK n : n = Cardinality(D)
  OBVIOUS
<1>2. n \in Nat
  BY <1>1, FS_CardinalityType
<1>3. /\ keys \in [1 .. n -> D]
      /\ \A j, k \in 1 .. n : keys[j] = keys[k] => j = k
  BY <1>1 DEF SetToSeqs
<1>4. keys \in Injection(1 .. n, D)
  BY <1>3 DEF Injection, IsInjective
<1>5. Cardinality(1 .. n) = n
  BY <1>2, FS_Interval
<1>6. keys \in Surjection(1 .. n, D)
  BY <1>1, <1>4, <1>5, FS_Injection
<1>7. \A id \in D : \E k \in 1 .. n : keys[k] = id
  BY <1>6 DEF Surjection
<1> QED
  BY <1>1, <1>2, <1>3, <1>7

LEMMA FreesAppended ==
  ASSUME NEW all \in Seq(Entries), NEW D \in SUBSET Nat, IsFiniteSet(D),
         NEW keys \in SetToSeqs(D)
  PROVE  LET out == all \o Frees(keys)
         IN  /\ out \in Seq(Entries) /\ Len(out) = Len(all) + Cardinality(D)
             /\ \A k \in 1 .. Len(all) : out[k] = all[k]
             /\ \A k \in 1 .. Cardinality(D) :
                  out[Len(all) + k] = [cmd |-> "f", id |-> keys[k]]
<1>1. PICK n, s : n = Cardinality(D) /\ s = Frees(keys)
  OBVIOUS
<1>2. n \in Nat /\ keys \in [1 .. n -> D]
  BY <1>1, KeysOnce
<1>3. s = [k \in 1 .. n |-> [cmd |-> "f", id |-> keys[k]]]
  BY <1>1, <1>2 DEF Frees, f, Line
<1>4. \A k \in 1 .. n : [cmd |-> "f", id |-> keys[k]] \in Entries
  BY <1>2 DEF Entries
<1>5. s \in [1 .. n -> Entries]
  BY <1>3, <1>4
<1>6. s \in Seq(Entries) /\ Len(s) = n
  BY <1>2, <1>5
<1>7. Len(all) \in Nat
  BY LenProperties
<1>8. PICK out : out = all \o s
  OBVIOUS
<1>9. /\ out \in Seq(Entries) /\ Len(out) = Len(all) + n
      /\ \A k \in 1 .. Len(all) + n :
           out[k] = IF k <= Len(all) THEN all[k] ELSE s[k - Len(all)]
  BY <1>6, <1>8, ConcatProperties
<1>10. \A k \in 1 .. Len(all) : out[k] = all[k]
  BY <1>2, <1>7, <1>9
<1>11. ASSUME NEW k \in 1 .. n
       PROVE  out[Len(all) + k] = [cmd |-> "f", id |-> keys[k]]
  <2>1. Len(all) + k \in 1 .. Len(all) + n /\ ~ (Len(all) + k <= Len(all))
        /\ (Len(all) + k) - Len(all) = k
    BY <1>2, <1>7
  <2>2. out[Len(all) + k] = s[k]
    BY <1>9, <2>1
  <2> QED
    BY <1>3, <2>2
<1> QED
  BY <1>1, <1>8, <1>9, <1>10, <1>11

\* With the frees of the ids in use appended, the requests are in order still and
\* nothing is in use behind them.
LEMMA FreesBalance ==
  ASSUME NEW all \in Seq(Entries), NEW D \in SUBSET Nat, IsFiniteSet(D),
         NEW keys \in SetToSeqs(D),
         D = IdsInUse(all, Len(all)), \A n \in DOMAIN all : InOrder(all, n)
  PROVE  LET out == all \o Frees(keys)
         IN  /\ \A n \in DOMAIN out : InOrder(out, n)
             /\ IdsInUse(out, Len(out)) = {}
<1>1. PICK c, n, out : c = Cardinality(D) /\ n = Len(all) /\ out = all \o Frees(keys)
  OBVIOUS
<1>2. /\ out \in Seq(Entries) /\ Len(out) = n + c
      /\ \A k \in 1 .. n : out[k] = all[k]
      /\ \A k \in 1 .. c : out[n + k] = [cmd |-> "f", id |-> keys[k]]
  <2>1. LET o == all \o Frees(keys)
        IN  /\ o \in Seq(Entries) /\ Len(o) = Len(all) + Cardinality(D)
            /\ \A k \in 1 .. Len(all) : o[k] = all[k]
            /\ \A k \in 1 .. Cardinality(D) :
                 o[Len(all) + k] = [cmd |-> "f", id |-> keys[k]]
    BY FreesAppended
  <2> QED
    BY <1>1, <2>1
<1>3. /\ c \in Nat /\ keys \in [1 .. c -> D]
      /\ \A j, k \in 1 .. c : keys[j] = keys[k] => j = k
      /\ \A id \in D : \E k \in 1 .. c : keys[k] = id
  <2>1. /\ Cardinality(D) \in Nat /\ keys \in [1 .. Cardinality(D) -> D]
        /\ \A j, k \in 1 .. Cardinality(D) : keys[j] = keys[k] => j = k
        /\ \A id \in D : \E k \in 1 .. Cardinality(D) : keys[k] = id
    BY KeysOnce
  <2> QED
    BY <1>1, <2>1
<1>4. n \in Nat /\ DOMAIN all = 1 .. n /\ DOMAIN out = 1 .. n + c
  BY <1>1, <1>2, LenProperties
<1> DEFINE Left(k) == D \ { keys[j] : j \in 1 .. k }
           S == { k \in Nat : k <= c => IdsInUse(out, n + k) = Left(k) }
<1>5. 0 \in S
  <2>1. IdsInUse(out, n) = D
    <3>1. n \in Nat /\ \A k \in 1 .. n : out[k] = all[k]
      BY <1>2, <1>4
    <3>2. IdsInUse(out, n) = IdsInUse(all, n)
      BY <3>1, InUsePrefix
    <3> QED
      BY <1>1, <3>2
  <2>2. Left(0) = D
    OBVIOUS
  <2>3. n + 0 = n
    BY <1>4
  <2> HIDE DEF Left
  <2> QED
    BY <2>1, <2>2, <2>3
<1>6. ASSUME NEW k \in Nat, k \in S
      PROVE  k + 1 \in S
  <2> SUFFICES ASSUME k + 1 <= c PROVE IdsInUse(out, n + (k + 1)) = Left(k + 1)
    OBVIOUS
  <2>1. IdsInUse(out, n + k) = Left(k)
    BY <1>3, <1>6
  <2>2. k + 1 \in 1 .. c /\ n + (k + 1) = (n + k) + 1 /\ n + k \in Nat
    BY <1>3, <1>4
  <2>3. PICK l : l = [cmd |-> "f", id |-> keys[k + 1]]
    OBVIOUS
  <2>4. l \in Entries /\ l.cmd = "f" /\ l.id = keys[k + 1]
    BY <1>3, <2>2, <2>3 DEF Entries
  <2>5. out[(n + k) + 1] = l
    BY <1>2, <2>2, <2>3
  <2>6. IdsInUse(out, (n + k) + 1) = IdsInUse(out, n + k) \ {l.id}
    BY <2>2, <2>4, <2>5, InUseNext
  <2>7. 1 .. k + 1 = (1 .. k) \union {k + 1}
    OBVIOUS
  <2>8. Left(k + 1) = Left(k) \ {keys[k + 1]}
    BY <2>7
  <2> HIDE DEF Left
  <2> QED
    BY <2>1, <2>2, <2>4, <2>6, <2>8
<1>7. Nat \subseteq S
  <2> HIDE DEF S
  <2> QED
    BY <1>5, <1>6, SetInduction
<1>8. \A k \in 0 .. c : IdsInUse(out, n + k) = Left(k)
  <2> HIDE DEF Left
  <2> QED
    BY <1>3, <1>7
<1>9. ASSUME NEW i \in 1 .. n + c
      PROVE  InOrder(out, i)
  <2>1. CASE i <= n
    <3>1. i \in 1 .. n /\ i \in DOMAIN all
      BY <1>4, <2>1
    <3>2. InOrder(out, i) <=> InOrder(all, i)
      BY <1>2, <1>4, <3>1, InOrderPrefix
    <3> QED
      BY <3>1, <3>2
  <2>2. CASE i > n
    <3>1. PICK k : k = i - n
      OBVIOUS
    <3>2. k \in 1 .. c /\ i = n + k /\ k - 1 \in 0 .. c /\ i - 1 = n + (k - 1)
      BY <1>3, <1>4, <2>2, <3>1
    <3>3. out[i].cmd = "f" /\ out[i].id = keys[k]
      <4>1. out[i] = [cmd |-> "f", id |-> keys[k]]
        BY <1>2, <3>2
      <4> QED
        BY <4>1
    <3>4. IdsInUse(out, i - 1) = Left(k - 1)
      <4> HIDE DEF Left
      <4> QED
        BY <1>8, <3>2
    <3>5. keys[k] \in Left(k - 1)
      <4>1. \A j \in 1 .. k - 1 : j \in 1 .. c /\ j # k
        BY <1>3, <3>2
      <4> QED
        BY <1>3, <3>2, <4>1
    <3> QED
      BY <3>3, <3>4, <3>5 DEF InOrder
  <2> QED
    BY <1>3, <1>4, <2>1, <2>2
<1>10. IdsInUse(out, n + c) = {}
  <2>1. Left(c) = {}
    BY <1>3
  <2> HIDE DEF Left
  <2> QED
    BY <1>3, <1>8, <2>1
<1> QED
  BY <1>1, <1>2, <1>4, <1>9, <1>10

\* What checktrace makes of a file, with the list of the keys that it has to free.
PrintedOf(F, D, keys) ==
  [F EXCEPT !.num_ops = @ + Cardinality(D), !.lines = Requests(F.lines) \o Frees(keys)]

LEMMA PrintedFile ==
  ASSUME NEW F \in FileType, NEW D \in SUBSET Nat, IsFiniteSet(D),
         NEW keys \in SetToSeqs(D), NEW out, out = PrintedOf(F, D, keys)
  PROVE  /\ out \in FileType
         /\ \A k \in DOMAIN out.lines : out.lines[k] # Blank
         /\ out.lines = Requests(F.lines) \o Frees(keys)
         /\ Known(out.lines) <=> Known(F.lines)
         /\ HeaderRight(F) => HeaderRight(out)
<1>1. PICK all, c : all = Requests(F.lines) /\ c = Cardinality(D)
  OBVIOUS
<1>2. F.lines \in Seq(Entries \union {Blank}) /\ F.num_ids \in Nat /\ F.num_ops \in Nat
  BY DEF FileType
<1>3. Len(F.lines) \in 0 .. Len(F.lines)
  BY <1>2, LenProperties
<1>4. all \in Seq(Entries)
  BY <1>1, <1>2, <1>3, RequestsAreEntries DEF Requests
<1>5. PICK t : t = all \o Frees(keys)
  OBVIOUS
<1>6. /\ t \in Seq(Entries) /\ Len(t) = Len(all) + c
      /\ \A k \in 1 .. Len(all) : t[k] = all[k]
      /\ \A k \in 1 .. c : t[Len(all) + k] = [cmd |-> "f", id |-> keys[k]]
  <2>1. LET o == all \o Frees(keys)
        IN  /\ o \in Seq(Entries) /\ Len(o) = Len(all) + Cardinality(D)
            /\ \A k \in 1 .. Len(all) : o[k] = all[k]
            /\ \A k \in 1 .. Cardinality(D) :
                 o[Len(all) + k] = [cmd |-> "f", id |-> keys[k]]
    BY <1>4, FreesAppended
  <2> QED
    BY <1>1, <1>5, <2>1
<1>7. /\ c \in Nat /\ Len(all) \in Nat
      /\ DOMAIN all = 1 .. Len(all) /\ DOMAIN t = 1 .. Len(all) + c
  BY <1>1, <1>4, <1>6, KeysOnce, LenProperties
<1>8. /\ out.num_ids = F.num_ids /\ out.num_ops = F.num_ops + c /\ out.lines = t
      /\ out = [num_ids |-> F.num_ids, num_ops |-> F.num_ops + c, lines |-> t]
  BY <1>1, <1>5 DEF FileType, PrintedOf
<1>9. \A k \in DOMAIN t : t[k] \in Entries /\ t[k] # Blank /\ t[k] \in Entries \union {Blank}
  <2>1. Blank \notin Entries
    BY DEF Blank, Entries
  <2> QED
    BY <1>6, <2>1, ElementOfSeq, LenProperties
<1>10. t \in Seq(Entries \union {Blank})
  <2>1. t \in [1 .. Len(t) -> Entries \union {Blank}]
    BY <1>6, LenProperties
  <2> QED
    BY <1>6, <1>7, <2>1
<1>11. out \in FileType
  <2>1. F.num_ops + c \in Nat
    BY <1>2, <1>7
  <2> QED
    BY <1>2, <1>8, <1>10, <2>1 DEF FileType
<1>12. ASSUME NEW k \in DOMAIN t
       PROVE  \/ k \in DOMAIN all /\ t[k] = all[k]
              \/ k \notin DOMAIN all /\ t[k].cmd = "f"
  <2>1. CASE k <= Len(all)
    BY <1>6, <1>7, <2>1
  <2>2. CASE k > Len(all)
    <3>1. PICK i : i = k - Len(all)
      OBVIOUS
    <3>2. i \in 1 .. c /\ k = Len(all) + i /\ k \notin DOMAIN all
      BY <1>7, <2>2, <3>1
    <3>3. t[k] = [cmd |-> "f", id |-> keys[i]]
      BY <1>6, <3>2
    <3> QED
      BY <3>2, <3>3
  <2> QED
    BY <1>7, <2>1, <2>2
<1>13. \A k \in DOMAIN all : k \in DOMAIN t /\ t[k] = all[k]
  BY <1>6, <1>7
<1>14. (Known(all) <=> Known(F.lines)) /\ Allocated(all) = Allocated(F.lines)
  BY <1>1, <1>2, RequestsSayAll
<1>15. Known(t) <=> Known(all)
  BY <1>12, <1>13 DEF Known
<1>16. Allocated(t) = Allocated(all)
  <2>1. { m \in ToSet(t) : m.cmd \in {"a", "r"} } = { m \in ToSet(all) : m.cmd \in {"a", "r"} }
    BY <1>12, <1>13 DEF ToSet
  <2> QED
    BY <2>1, Zenon DEF Allocated
<1>17. Requests(t) = t
  BY <1>6, <1>9, NothingBlank
<1>18. ASSUME HeaderRight(F)
       PROVE  HeaderRight(out)
  <2>1. \A G : HeaderRight(G) <=>
          /\ G.num_ops = Len(Requests(G.lines))
          /\ G.num_ids - 1 \in Allocated(G.lines) \union {0}
          /\ \A id \in Allocated(G.lines) : id < G.num_ids
    BY Zenon DEF HeaderRight, Allocated
  <2>2. F.num_ops = Len(all)
    BY <1>1, <1>18, <2>1
  <2>3. out.num_ops = Len(Requests(out.lines))
    BY <1>6, <1>8, <1>17, <2>2
  <2>4. Allocated(out.lines) = Allocated(F.lines)
    BY <1>8, <1>14, <1>16
  <2> QED
    BY <1>8, <1>18, <2>1, <2>3, <2>4
<1> QED
  BY <1>1, <1>5, <1>8, <1>9, <1>11, <1>14, <1>15, <1>18

-----------------------------------------------------------------------------
(* The steps.                                                              *)

\* The file at hand, and its requests.
LEMMA GivenFacts ==
  ASSUME Types, Printed
  PROVE  /\ Given \in FileType
         /\ Given.lines \in Seq(Entries \union {Blank})
         /\ Given.num_ids \in Nat /\ Given.num_ops \in Nat
         /\ Len(Given.lines) \in Nat /\ DOMAIN Given.lines = 1 .. Len(Given.lines)
         /\ Reqs \in Seq(Entries) /\ Len(Reqs) \in Nat /\ DOMAIN Reqs = 1 .. Len(Reqs)
         /\ Len(Reqs) <= Len(Given.lines)
         /\ Reqs = RequestsIn(Given.lines, Len(Given.lines))
         /\ Known(Reqs) <=> Known(Given.lines)
         /\ checked => Reqs = Given.lines
         /\ HeaderRight(Given) <=>
              /\ Given.num_ops = Len(Reqs)
              /\ Given.num_ids - 1 \in Allocated(Reqs) \union {0}
              /\ \A id \in Allocated(Reqs) : id < Given.num_ids
<1>1. PICK G : G = Given
  OBVIOUS
<1>2. G \in FileType
  BY <1>1 DEF Given, Types, Printed
<1>3. G.lines \in Seq(Entries \union {Blank}) /\ G.num_ids \in Nat /\ G.num_ops \in Nat
  BY <1>2 DEF FileType
<1>4. Len(G.lines) \in Nat /\ DOMAIN G.lines = 1 .. Len(G.lines)
      /\ Len(G.lines) \in 0 .. Len(G.lines)
  BY <1>3, LenProperties
<1>5. PICK w : w = Requests(G.lines)
  OBVIOUS
<1>6. w \in Seq(Entries) /\ Len(w) <= Len(G.lines)
  BY <1>3, <1>4, <1>5, RequestsAreEntries DEF Requests
<1>7. Len(w) \in Nat /\ DOMAIN w = 1 .. Len(w)
  BY <1>6, LenProperties
<1>8. (Known(w) <=> Known(G.lines)) /\ Allocated(w) = Allocated(G.lines)
  BY <1>3, <1>5, RequestsSayAll
<1>9. ASSUME checked PROVE w = G.lines
  <2>1. \A k \in DOMAIN G.lines : G.lines[k] # Blank
    BY <1>1, <1>9 DEF Given, Printed
  <2> QED
    BY <1>3, <1>5, <2>1, NothingBlank
<1>10. HeaderRight(G) <=>
         /\ G.num_ops = Len(w)
         /\ G.num_ids - 1 \in Allocated(w) \union {0}
         /\ \A id \in Allocated(w) : id < G.num_ids
  <2>1. HeaderRight(G) <=>
          /\ G.num_ops = Len(Requests(G.lines))
          /\ G.num_ids - 1 \in Allocated(G.lines) \union {0}
          /\ \A id \in Allocated(G.lines) : id < G.num_ids
    BY Zenon DEF HeaderRight, Allocated
  <2> QED
    BY <1>5, <1>8, <2>1
<1>11. w = Reqs /\ w = RequestsIn(G.lines, Len(G.lines))
  BY <1>1, <1>5 DEF Reqs, Requests
<1> QED
  BY <1>1, <1>2, <1>3, <1>4, <1>6, <1>7, <1>8, <1>9, <1>10, <1>11

LEMMA SameFile ==
  ASSUME UNCHANGED <<file, output, checked>>
  PROVE  Given' = Given /\ Reqs' = Reqs /\ (Printed => Printed')
  BY DEF Given, Reqs, Printed

LEMMA CheckBegins == TraceInv /\ checktrace => TraceInv'
<1> SUFFICES ASSUME TraceInv, checktrace PROVE TraceInv'
  OBVIOUS
<1> USE DEF TraceInv
<1>1. /\ step = "start" /\ step' = "check" /\ pos' = 0 /\ HASH' = Empty /\ lines' = << >>
      /\ UNCHANGED <<file, output, checked, ops, max_index, package, pass, inuse, leaked>>
      /\ opt_s' \in BOOLEAN /\ (checked => opt_s')
  BY DEF checktrace, trace, running, Types
<1>2. Given' = Given /\ Reqs' = Reqs /\ Printed'
  BY <1>1, SameFile
<1>3. Given.lines \in Seq(Entries \union {Blank}) /\ Len(Given.lines) \in Nat
  BY GivenFacts
<1>4. DOMAIN HASH' = {}
  BY <1>1 DEF Empty
<1>5. PICK none : none = << >>
  OBVIOUS
<1>6. Len(none) = 0 /\ DOMAIN none = {}
  BY <1>5
<1>7. Types'
  BY <1>1, <1>2, <1>3, <1>4, <1>5, <1>6 DEF Types
<1>8. Checking'
  <2>1. lines' = RequestsIn(Given.lines, 0)
    BY <1>1, <1>3, RequestsStep
  <2>2. IdsInUse(Reqs, Len(none)) = {}
    BY <1>6, NoneInUse
  <2>3. lines' = none /\ DOMAIN lines' = {}
    BY <1>1, <1>5, <1>6
  <2> QED
    BY <1>1, <1>2, <1>4, <2>1, <2>2, <2>3, FS_EmptySet DEF Checking
<1>9. Reading' /\ Running' /\ Ended'
  BY <1>1 DEF Reading, Running, Ended
<1> QED
  BY <1>2, <1>7, <1>8, <1>9

LEMMA BlankLineKeeps == TraceInv /\ blank_line => TraceInv'
<1> SUFFICES ASSUME TraceInv, blank_line PROVE TraceInv'
  OBVIOUS
<1> USE DEF TraceInv
<1>1. /\ step = "check" /\ pos < Len(Given.lines) /\ Given.lines[pos + 1] = Blank
      /\ pos' = pos + 1
      /\ UNCHANGED <<file, output, checked, opt_s, step, HASH, lines, ops, max_index,
                     package, pass, inuse, leaked>>
  BY DEF blank_line, script, trace, running
<1>2. Given' = Given /\ Reqs' = Reqs /\ Printed'
  BY <1>1, SameFile
<1>3. Given.lines \in Seq(Entries \union {Blank}) /\ Len(Given.lines) \in Nat
  BY GivenFacts
<1>4. pos \in Nat /\ pos + 1 \in 1 .. Len(Given.lines) /\ (pos + 1) - 1 = pos
  BY <1>1, <1>3 DEF Types
<1>5. Types'
  BY <1>1, <1>2, <1>3, <1>4 DEF Types
<1>6. RequestsIn(Given.lines, pos + 1) = RequestsIn(Given.lines, pos)
  BY <1>1, <1>3, <1>4, RequestsStep
<1>7. Checking'
  BY <1>1, <1>2, <1>6 DEF Checking
<1>8. Reading' /\ Running' /\ Ended'
  BY <1>1 DEF Reading, Running, Ended
<1> QED
  BY <1>2, <1>5, <1>7, <1>8

LEMMA SummaryKeeps == TraceInv /\ summary => TraceInv'
<1> SUFFICES ASSUME TraceInv, summary PROVE TraceInv'
  OBVIOUS
<1> USE DEF TraceInv
<1>1. /\ step = "check" /\ pos = Len(Given.lines)
      /\ step' = IF DOMAIN HASH = {} THEN "balanced" ELSE "unbalanced"
      /\ UNCHANGED <<file, output, checked, opt_s, pos, HASH, lines, ops, max_index,
                     package, pass, inuse, leaked>>
  BY DEF summary, script, trace, running
<1>2. Given' = Given /\ Reqs' = Reqs /\ Printed'
  BY <1>1, SameFile
<1>3. Types'
  BY <1>1, <1>2 DEF Types
<1>4. lines = Reqs
  BY <1>1, GivenFacts DEF Checking
<1>5. Checking' /\ Reading' /\ Running'
  BY <1>1 DEF Checking, Reading, Running
<1>6. ASSUME Known(Reqs)
      PROVE  /\ \A n \in DOMAIN Reqs : InOrder(Reqs, n)
             /\ DOMAIN HASH = IdsInUse(Reqs, Len(Reqs))
  BY <1>1, <1>4, <1>6 DEF Checking
<1>7. Ended'
  BY <1>1, <1>2, <1>6 DEF Ended
<1> QED
  BY <1>2, <1>3, <1>5, <1>7

LEMMA OpenKeeps == TraceInv /\ open => TraceInv'
<1> SUFFICES ASSUME TraceInv, open PROVE TraceInv'
  OBVIOUS
<1> USE DEF TraceInv
<1>1. /\ step = "start" /\ step' = "read"
      /\ pos' = 0 /\ ops' = << >> /\ max_index' = 0
      /\ UNCHANGED <<file, output, checked, opt_s, HASH, lines, package, pass, inuse,
                     leaked>>
  BY DEF open, script, running
<1>2. Given' = Given /\ Reqs' = Reqs /\ Printed'
  BY <1>1, SameFile
<1>3. /\ Given.lines \in Seq(Entries \union {Blank}) /\ Len(Given.lines) \in Nat
      /\ Given.num_ops \in Nat
  BY GivenFacts
<1>4. PICK none : none = << >>
  OBVIOUS
<1>5. Len(none) = 0 /\ DOMAIN none = {}
  BY <1>4
<1>6. Types'
  BY <1>1, <1>2, <1>3, <1>4, <1>5 DEF Types
<1>7. Reading'
  <2>1. ops' = RequestsIn(Given.lines, 0) /\ ops' = none
    BY <1>1, <1>3, <1>4, RequestsStep
  <2>2. Known(none) /\ Allocated(none) = {}
    BY <1>5 DEF Known, Allocated, ToSet
  <2> QED
    BY <1>1, <1>2, <2>1, <2>2 DEF Reading
<1>8. Checking' /\ Running' /\ Ended'
  BY <1>1 DEF Checking, Running, Ended
<1> QED
  BY <1>2, <1>6, <1>7, <1>8

\* checktrace dies of a request exactly when it is out of order, if the hash has
\* the ids in use; and the hash keeps them.
LEMMA DiesIs ==
  ASSUME NEW l \in Entries, l.cmd # "x", \A id \in DOMAIN HASH : HASH[id] = "a"
  PROVE  /\ Dies(l) <=> \/ l.cmd = "a" /\ l.id \in DOMAIN HASH
                        \/ l.cmd \in {"r", "f"} /\ l.id \notin DOMAIN HASH
  BY DEF Dies, Entry, Entries

LEMMA TallyIs ==
  ASSUME NEW l \in Entries, \A id \in DOMAIN HASH : HASH[id] \in {"a", "x"},
         IsFiniteSet(DOMAIN HASH), DOMAIN HASH \subseteq Nat
  PROVE  LET h == Tally(l)
         IN  /\ \A id \in DOMAIN h : h[id] \in {"a", "x"}
             /\ IsFiniteSet(DOMAIN h) /\ DOMAIN h \subseteq Nat
             /\ l.cmd \in {"a", "x"} => DOMAIN h = DOMAIN HASH \union {l.id}
             /\ l.cmd = "f" => DOMAIN h = DOMAIN HASH \ {l.id}
             /\ l.cmd = "r" => h = HASH
             /\ (l.cmd # "x" /\ \A id \in DOMAIN HASH : HASH[id] = "a")
                  => \A id \in DOMAIN h : h[id] = "a"
<1>1. PICK h : h = Tally(l)
  OBVIOUS
<1>2. l.cmd \in {"a", "r", "f", "x"} /\ l.id \in Nat
  BY DEF Entries
<1>3. CASE l.cmd = "r"
  <2>1. h = HASH
    BY <1>1, <1>3 DEF Tally
  <2> QED
    BY <1>1, <1>3, <2>1
<1>4. CASE l.cmd = "f"
  <2>1. h = [k \in DOMAIN HASH \ {l.id} |-> HASH[k]]
    BY <1>1, <1>4 DEF Tally, Without
  <2>2. DOMAIN h = DOMAIN HASH \ {l.id} /\ \A id \in DOMAIN h : h[id] = HASH[id]
    BY <2>1
  <2>3. IsFiniteSet(DOMAIN h)
    BY <2>2, FS_RemoveElement
  <2> QED
    BY <1>1, <1>4, <2>2, <2>3
<1>5. CASE l.cmd \in {"a", "x"}
  <2>1. h = [k \in DOMAIN HASH \union {l.id} |-> IF k = l.id THEN l.cmd ELSE HASH[k]]
    <3>1. l.cmd # "r" /\ l.cmd # "f"
      BY <1>5
    <3>2. Tally(l) = With(l.id, l.cmd)
      BY <3>1 DEF Tally
    <3> QED
      BY <1>1, <3>2 DEF With
  <2>2. /\ DOMAIN h = DOMAIN HASH \union {l.id}
        /\ \A id \in DOMAIN h : h[id] = IF id = l.id THEN l.cmd ELSE HASH[id]
    BY <2>1
  <2>3. IsFiniteSet(DOMAIN h)
    BY <2>2, FS_AddElement
  <2> QED
    BY <1>1, <1>2, <1>5, <2>2, <2>3
<1> QED
  BY <1>2, <1>3, <1>4, <1>5

LEMMA RequestLineKeeps == TraceInv /\ request_line => TraceInv'
<1> SUFFICES ASSUME TraceInv, request_line PROVE TraceInv'
  OBVIOUS
<1> USE DEF TraceInv
<1>1. PICK l, n, w : l = Given.lines[pos + 1] /\ n = Len(lines) /\ w = Reqs
  OBVIOUS
<1>2. /\ step = "check" /\ pos < Len(Given.lines) /\ l # Blank
      /\ lines' = Append(lines, l) /\ pos' = pos + 1
      /\ UNCHANGED <<file, output, checked, opt_s, ops, max_index, package, pass, inuse,
                     leaked>>
  BY <1>1 DEF request_line, trace, running
<1>3. Given' = Given /\ Reqs' = Reqs /\ Printed'
  BY <1>2, SameFile
<1>4. /\ Given.lines \in Seq(Entries \union {Blank}) /\ Len(Given.lines) \in Nat
      /\ Len(w) \in Nat /\ DOMAIN w = 1 .. Len(w) /\ w \in Seq(Entries)
  BY <1>1, GivenFacts
<1>5. pos \in Nat /\ pos + 1 \in 0 .. Len(Given.lines) /\ pos \in 0 .. Len(Given.lines)
  BY <1>2, <1>4 DEF Types
<1>6. lines = RequestsIn(Given.lines, pos) /\ lines \in Seq(Entries)
  BY <1>2, <1>4, <1>5, RequestsAreEntries DEF Checking
<1>7. n \in Nat /\ DOMAIN lines = 1 .. n
  BY <1>1, <1>6, LenProperties
<1>8. /\ n + 1 \in DOMAIN w /\ w[n + 1] = l
      /\ lines' = RequestsIn(Given.lines, pos + 1)
      /\ \A k \in 1 .. n : w[k] = lines[k]
      /\ l \in Entries
  <2>1. PICK R, L, p : R = Entries \union {Blank} /\ L = Given.lines /\ p = pos
    OBVIOUS
  <2>2. L \in Seq(R) /\ p \in Nat /\ p < Len(L) /\ L[p + 1] # Blank
    BY <1>1, <1>2, <1>4, <1>5, <2>1
  <2>3. LET now == RequestsIn(L, p)
            all == Requests(L)
        IN  /\ Len(now) + 1 \in DOMAIN all /\ all[Len(now) + 1] = L[p + 1]
            /\ RequestsIn(L, p + 1) = Append(now, L[p + 1])
            /\ now \in Seq(R) /\ L[p + 1] \in R
            /\ all \in Seq(R)
            /\ \A k \in 1 .. Len(now) : all[k] = now[k]
    BY <2>2, NextRequest
  <2>4. Requests(L) = w
    BY <1>1, <2>1 DEF Reqs
  <2> QED
    BY <1>1, <1>2, <1>6, <2>1, <2>3, <2>4
<1>9. PICK ls : ls = lines'
  OBVIOUS
<1>10. /\ ls \in Seq(Entries) /\ Len(ls) = n + 1 /\ DOMAIN ls = 1 .. n + 1
       /\ Len(ls) <= Len(Given.lines)
  <2>1. ls \in Seq(Entries) /\ Len(ls) = n + 1
    BY <1>1, <1>2, <1>6, <1>8, <1>9, AppendProperties
  <2>2. Len(ls) <= pos + 1
    BY <1>4, <1>5, <1>8, <1>9, RequestsAreEntries
  <2> QED
    BY <1>4, <1>5, <1>7, <2>1, <2>2, LenProperties
<1>11. Reading' /\ Running'
  <2>1. step' \in {"check", "died"}
    BY <1>2 DEF request_line
  <2> QED
    BY <2>1 DEF Reading, Running
<1>12. /\ \A id \in DOMAIN HASH : HASH[id] \in {"a", "x"}
       /\ IsFiniteSet(DOMAIN HASH) /\ DOMAIN HASH \subseteq Nat
  BY <1>2 DEF Types, Checking
<1>13. ASSUME Known(w)
       PROVE  /\ \A k \in 1 .. n : InOrder(w, k)
              /\ DOMAIN HASH = IdsInUse(w, n)
              /\ \A id \in DOMAIN HASH : HASH[id] = "a"
              /\ l.cmd # "x"
  BY <1>1, <1>2, <1>7, <1>8, <1>13 DEF Checking, Known
<1>14. ASSUME Known(w)
       PROVE  Dies(l) <=> ~ InOrder(w, n + 1)
  <2>1. /\ Dies(l) <=> \/ l.cmd = "a" /\ l.id \in DOMAIN HASH
                       \/ l.cmd \in {"r", "f"} /\ l.id \notin DOMAIN HASH
    BY <1>8, <1>13, <1>14, DiesIs
  <2>3. l.cmd \in {"a", "r", "f"}
    BY <1>8, <1>13, <1>14 DEF Entries
  <2>4. DOMAIN HASH = IdsInUse(w, n)
    BY <1>13, <1>14
  <2>5. CASE l.cmd = "a"
    <3>1. InOrder(w, n + 1) <=> l.id \notin IdsInUse(w, n)
      BY <1>7, <1>8, <2>5, InOrderNext
    <3> QED
      BY <2>1, <2>4, <2>5, <3>1
  <2>6. CASE l.cmd \in {"r", "f"}
    <3>1. InOrder(w, n + 1) <=> l.id \in IdsInUse(w, n)
      BY <1>7, <1>8, <2>6, InOrderNext
    <3> QED
      BY <2>1, <2>4, <2>6, <3>1
  <2> QED
    BY <2>3, <2>5, <2>6
<1>15. CASE Dies(l)
  <2>1. step' = "died" /\ HASH' = HASH
    BY <1>1, <1>15 DEF request_line
  <2>2. Types'
    BY <1>2, <1>3, <1>4, <1>5, <1>9, <1>10, <2>1 DEF Types
  <2>3. Checking'
    BY <2>1 DEF Checking
  <2>4. Ended'
    <3>1. ~ (Known(w) /\ \A k \in DOMAIN w : InOrder(w, k))
      BY <1>8, <1>14, <1>15
    <3> QED
      BY <1>1, <1>3, <2>1, <3>1 DEF Ended
  <2> QED
    BY <1>3, <1>11, <2>2, <2>3, <2>4
<1>16. CASE ~ Dies(l)
  <2>1. step' = "check" /\ HASH' = Tally(l)
    BY <1>1, <1>2, <1>16 DEF request_line
  <2>2. PICK h : h = HASH'
    OBVIOUS
  <2>3. /\ \A id \in DOMAIN h : h[id] \in {"a", "x"}
        /\ IsFiniteSet(DOMAIN h) /\ DOMAIN h \subseteq Nat
        /\ l.cmd \in {"a", "x"} => DOMAIN h = DOMAIN HASH \union {l.id}
        /\ l.cmd = "f" => DOMAIN h = DOMAIN HASH \ {l.id}
        /\ l.cmd = "r" => h = HASH
        /\ (l.cmd # "x" /\ \A id \in DOMAIN HASH : HASH[id] = "a")
             => \A id \in DOMAIN h : h[id] = "a"
    BY <1>8, <1>12, <2>1, <2>2, TallyIs
  <2>4. Types'
    BY <1>2, <1>3, <1>4, <1>5, <1>9, <1>10, <2>1, <2>2, <2>3 DEF Types
  <2>5. ASSUME Known(w)
        PROVE  /\ \A k \in 1 .. n + 1 : InOrder(w, k)
               /\ DOMAIN h = IdsInUse(w, n + 1)
               /\ \A id \in DOMAIN h : h[id] = "a"
    <3>1. \A k \in 1 .. n + 1 : InOrder(w, k)
      <4>1. InOrder(w, n + 1)
        BY <1>14, <1>16, <2>5
      <4>2. 1 .. n + 1 = (1 .. n) \union {n + 1}
        BY <1>7
      <4> QED
        BY <1>13, <2>5, <4>1, <4>2
    <3>2. l.cmd \in {"a", "r", "f"}
      BY <1>8, <1>13, <2>5 DEF Entries
    <3>3. DOMAIN h = IdsInUse(w, n + 1)
      <4>1. /\ l.cmd = "a" => IdsInUse(w, n + 1) = IdsInUse(w, n) \union {l.id}
            /\ l.cmd = "f" => IdsInUse(w, n + 1) = IdsInUse(w, n) \ {l.id}
            /\ l.cmd \notin {"a", "f"} => IdsInUse(w, n + 1) = IdsInUse(w, n)
        <5>1. n \in Nat /\ l \in Entries /\ w[n + 1] = l
          BY <1>7, <1>8
        <5> QED
          BY <5>1, InUseNext
      <4>2. DOMAIN HASH = IdsInUse(w, n)
        BY <1>13, <2>5
      <4> QED
        BY <2>3, <3>2, <4>1, <4>2
    <3>4. \A id \in DOMAIN h : h[id] = "a"
      <4>1. \A id \in DOMAIN HASH : HASH[id] = "a"
        BY <1>13, <2>5
      <4>2. l.cmd # "x"
        BY <3>2
      <4> QED
        BY <2>3, <4>1, <4>2
    <3> QED
      BY <3>1, <3>3, <3>4
  <2>6. Checking'
    BY <1>1, <1>2, <1>3, <1>8, <1>9, <1>10, <2>1, <2>2, <2>3, <2>5 DEF Checking
  <2>7. Ended'
    BY <2>1 DEF Ended
  <2> QED
    BY <1>3, <1>11, <2>4, <2>6, <2>7
<1> QED
  BY <1>15, <1>16

LEMMA PrintKeeps == TraceInv /\ print_balanced => TraceInv'
<1> SUFFICES ASSUME TraceInv, print_balanced PROVE TraceInv'
  OBVIOUS
<1> USE DEF TraceInv
<1>1. /\ step = "check" /\ pos = Len(Given.lines) /\ ~ opt_s
      /\ UNCHANGED <<file, opt_s, ops, max_index, package, pass, inuse, leaked>>
  BY DEF print_balanced, trace, running
<1>2. ~ checked /\ Given = file
  BY <1>1 DEF Checking, Given
<1>3. PICK w, n, D : w = Reqs /\ n = Len(w) /\ D = DOMAIN HASH
  OBVIOUS
<1>4. /\ Given.lines \in Seq(Entries \union {Blank}) /\ Len(Given.lines) \in Nat
      /\ n \in Nat /\ DOMAIN w = 1 .. n /\ w \in Seq(Entries)
      /\ Given.num_ops \in Nat /\ w = RequestsIn(Given.lines, Len(Given.lines))
  BY <1>3, GivenFacts
<1>5. lines = w
  BY <1>1, <1>4 DEF Checking
<1>6. IsFiniteSet(D) /\ D \in SUBSET Nat
  BY <1>1, <1>3 DEF Checking
<1>7. ASSUME Known(w)
      PROVE  /\ \A k \in DOMAIN w : InOrder(w, k)
             /\ D = IdsInUse(w, n)
             /\ \A id \in D : HASH[id] = "a"
  BY <1>1, <1>3, <1>5, <1>7 DEF Checking
<1>8. CASE /\ \E id \in DOMAIN HASH : HASH[id] \notin {"a", "r"}
           /\ step' = "died"
           /\ UNCHANGED <<output, checked, HASH, lines, pos>>
  <2>1. Given' = Given /\ Reqs' = Reqs /\ Printed'
    BY <1>1, <1>8, SameFile
  <2>2. Types'
    BY <1>1, <1>8, <2>1 DEF Types
  <2>3. ~ Known(w)
    BY <1>3, <1>7, <1>8
  <2>4. Ended'
    BY <1>3, <1>8, <2>1, <2>3 DEF Ended
  <2>5. Checking' /\ Reading' /\ Running'
    BY <1>8 DEF Checking, Reading, Running
  <2> QED
    BY <2>1, <2>2, <2>4, <2>5
<1>9. CASE /\ \E keys \in SetToSeqs(DOMAIN HASH) : output' = Balanced(keys)
           /\ checked' = TRUE
           /\ HASH' = Empty /\ lines' = << >> /\ pos' = 0
           /\ step' = "start"
  <2>1. PICK keys \in SetToSeqs(D) : output' = Balanced(keys)
    BY <1>3, <1>9
  <2>2. PICK F, out : F = file /\ out = output'
    OBVIOUS
  <2>3. out = PrintedOf(F, D, keys)
    BY <1>2, <1>3, <1>5, <2>1, <2>2 DEF Balanced, Reqs, PrintedOf
  <2>4. F \in FileType
    BY <2>2 DEF Types
  <2>5. /\ out \in FileType
        /\ \A k \in DOMAIN out.lines : out.lines[k] # Blank
        /\ out.lines = Requests(F.lines) \o Frees(keys)
        /\ Known(out.lines) <=> Known(F.lines)
        /\ HeaderRight(F) => HeaderRight(out)
    BY <1>6, <2>3, <2>4, PrintedFile
  <2>6. Requests(F.lines) = w
    BY <1>2, <1>3, <2>2 DEF Reqs
  <2>7. ASSUME Known(out.lines)
        PROVE  /\ \A k \in DOMAIN out.lines : InOrder(out.lines, k)
               /\ IdsInUse(out.lines, Len(out.lines)) = {}
    <3>1. Known(w)
      BY <1>2, <1>3, <2>2, <2>5, <2>7, GivenFacts
    <3>2. D = IdsInUse(w, Len(w)) /\ \A k \in DOMAIN w : InOrder(w, k)
      BY <1>3, <1>7, <3>1
    <3>3. LET o == w \o Frees(keys)
          IN  /\ \A k \in DOMAIN o : InOrder(o, k)
              /\ IdsInUse(o, Len(o)) = {}
      BY <1>4, <1>6, <3>2, FreesBalance
    <3> QED
      BY <2>5, <2>6, <3>3
  <2>8. Given' = out
    BY <1>9, <2>2 DEF Given
  <2>9. out.lines \in Seq(Entries \union {Blank}) /\ out.num_ops \in Nat
    BY <2>5 DEF FileType
  <2>10. Len(out.lines) \in Nat
    BY <2>9, LenProperties
  <2>11. PICK none : none = << >>
    OBVIOUS
  <2>12. Len(none) = 0 /\ ops = none /\ DOMAIN HASH' = {}
    BY <1>1, <1>9, <2>11 DEF Types, Empty
  <2>13. Types'
    BY <1>1, <1>9, <2>8, <2>9, <2>10, <2>11, <2>12 DEF Types
  <2>14. Printed'
    BY <1>1, <1>9, <2>2, <2>5, <2>7 DEF Printed
  <2>15. Checking' /\ Reading' /\ Running' /\ Ended'
    BY <1>9 DEF Checking, Reading, Running, Ended
  <2> QED
    BY <2>13, <2>14, <2>15
<1> QED
  BY <1>8, <1>9 DEF print_balanced

LEMMA AllocatedAreNumbers ==
  ASSUME NEW s \in Seq(Entries)
  PROVE  /\ Allocated(s) \subseteq Nat
         /\ \A k \in DOMAIN s : s[k].cmd \in {"a", "r"} => s[k].id \in Allocated(s)
<1>1. \A id : id \in Allocated(s) <=>
        \E m \in ToSet(s) : m.cmd \in {"a", "r"} /\ id = m.id
  BY DEF Allocated
<1>2. \A m \in ToSet(s) : m \in Entries
  BY LenProperties, ElementOfSeq DEF ToSet
<1>3. \A m \in Entries : m.id \in Nat
  BY DEF Entries
<1>4. \A k \in DOMAIN s : s[k] \in ToSet(s)
  BY DEF ToSet
<1> QED
  BY <1>1, <1>2, <1>3, <1>4

\* How one more request changes what is read.
LEMMA AllocatedNext ==
  ASSUME NEW s \in Seq(Entries), NEW l \in Entries
  PROVE  /\ l.cmd \in {"a", "r"} => Allocated(Append(s, l)) = Allocated(s) \union {l.id}
         /\ l.cmd \notin {"a", "r"} => Allocated(Append(s, l)) = Allocated(s)
         /\ Known(Append(s, l)) <=> Known(s) /\ l.cmd # "x"
<1>1. PICK t : t = Append(s, l)
  OBVIOUS
<1>2. Len(s) \in Nat /\ DOMAIN s = 1 .. Len(s) /\ \A k \in DOMAIN s : s[k] \in Entries
  BY LenProperties, ElementOfSeq
<1>3. /\ t \in Seq(Entries) /\ Len(t) = Len(s) + 1
      /\ \A k \in 1 .. Len(s) : t[k] = s[k]
      /\ t[Len(s) + 1] = l
  BY <1>1, AppendProperties
<1>4. DOMAIN t = (1 .. Len(s)) \union {Len(s) + 1}
  BY <1>2, <1>3, LenProperties
<1>5. ToSet(t) = ToSet(s) \union {l}
  BY <1>2, <1>3, <1>4 DEF ToSet
<1>6. \A u, id : id \in Allocated(u) <=>
        \E m \in ToSet(u) : m.cmd \in {"a", "r"} /\ id = m.id
  BY DEF Allocated
<1>7. ASSUME l.cmd \in {"a", "r"}
      PROVE  Allocated(t) = Allocated(s) \union {l.id}
  BY <1>5, <1>6, <1>7
<1>8. ASSUME l.cmd \notin {"a", "r"}
      PROVE  Allocated(t) = Allocated(s)
  <2>1. { m \in ToSet(t) : m.cmd \in {"a", "r"} } = { m \in ToSet(s) : m.cmd \in {"a", "r"} }
    BY <1>5, <1>8
  <2> QED
    BY <2>1, Zenon DEF Allocated
<1>9. Known(t) <=> Known(s) /\ l.cmd # "x"
  BY <1>2, <1>3, <1>4 DEF Known
<1> QED
  BY <1>1, <1>7, <1>8, <1>9

LEMMA ReadKeeps == TraceInv /\ read_request => TraceInv'
<1> SUFFICES ASSUME TraceInv, read_request PROVE TraceInv'
  OBVIOUS
<1> USE DEF TraceInv
<1>1. PICK l, w : l = Given.lines[pos + 1] /\ w = Reqs
  OBVIOUS
<1>2. /\ step = "read" /\ pos < Len(Given.lines) /\ pos' = pos + 1
      /\ UNCHANGED <<file, output, checked, opt_s, HASH, lines, package, pass, inuse,
                     leaked>>
  BY DEF read_request, script, running
<1>3. Given' = Given /\ Reqs' = Reqs /\ Printed'
  BY <1>2, SameFile
<1>4. /\ Given.lines \in Seq(Entries \union {Blank}) /\ Len(Given.lines) \in Nat
      /\ DOMAIN Given.lines = 1 .. Len(Given.lines)
      /\ Given.num_ops \in Nat
      /\ Len(w) \in Nat /\ DOMAIN w = 1 .. Len(w)
      /\ Known(w) <=> Known(Given.lines)
      /\ HeaderRight(Given) => Given.num_ops = Len(w)
  BY <1>1, GivenFacts
<1>5. pos \in Nat /\ pos + 1 \in 1 .. Len(Given.lines) /\ pos \in 0 .. Len(Given.lines)
      /\ (pos + 1) - 1 = pos
  BY <1>2, <1>4 DEF Types
<1>6. /\ ops = RequestsIn(Given.lines, pos) /\ ops \in Seq(Entries)
      /\ Len(ops) \in Nat
  BY <1>2, <1>4, <1>5, RequestsAreEntries, LenProperties DEF Reading
<1>7. /\ Known(ops) /\ max_index \in Allocated(ops) \union {0}
      /\ \A id \in Allocated(ops) : id <= max_index
      /\ max_index \in Nat /\ Len(ops) <= Given.num_ops
  BY <1>2 DEF Reading, Types
<1>8. ASSUME l # Blank
      PROVE  /\ Len(ops) + 1 \in DOMAIN w
             /\ RequestsIn(Given.lines, pos + 1) = Append(ops, l)
             /\ l \in Entries
  <2>1. PICK R, L, p : R = Entries \union {Blank} /\ L = Given.lines /\ p = pos
    OBVIOUS
  <2>2. L \in Seq(R) /\ p \in Nat /\ p < Len(L) /\ L[p + 1] # Blank
    BY <1>1, <1>2, <1>4, <1>5, <1>8, <2>1
  <2>3. LET now == RequestsIn(L, p)
            all == Requests(L)
        IN  /\ Len(now) + 1 \in DOMAIN all /\ all[Len(now) + 1] = L[p + 1]
            /\ RequestsIn(L, p + 1) = Append(now, L[p + 1])
            /\ now \in Seq(R) /\ L[p + 1] \in R
            /\ all \in Seq(R)
            /\ \A k \in 1 .. Len(now) : all[k] = now[k]
    BY <2>2, NextRequest
  <2>4. Requests(L) = w
    BY <1>1, <2>1 DEF Reqs
  <2> QED
    BY <1>1, <1>6, <1>8, <2>1, <2>3, <2>4
<1>9. l.cmd \in {"a", "r", "f"} => l # Blank
  <2>1. Blank.cmd = ""
    BY DEF Blank
  <2> QED
    BY <2>1
<1>10. CASE l = Blank /\ UNCHANGED <<step, ops, max_index>>
  <2>1. Types'
    BY <1>2, <1>3, <1>4, <1>5, <1>10 DEF Types
  <2>2. RequestsIn(Given.lines, pos + 1) = RequestsIn(Given.lines, pos)
    BY <1>1, <1>4, <1>5, <1>10, RequestsStep
  <2>3. Reading'
    BY <1>2, <1>3, <1>6, <1>7, <1>10, <2>2 DEF Reading
  <2>4. Checking' /\ Running' /\ Ended'
    BY <1>2, <1>10 DEF Checking, Running, Ended
  <2> QED
    BY <1>3, <2>1, <2>3, <2>4
<1>11. CASE l.cmd = "x" /\ step' = "exited" /\ UNCHANGED <<ops, max_index>>
  <2>1. Types'
    BY <1>2, <1>3, <1>4, <1>5, <1>11 DEF Types
  <2>2. ~ Known(Given.lines)
    BY <1>1, <1>4, <1>5, <1>11 DEF Known
  <2>3. Checking' /\ Reading' /\ Running' /\ Ended'
    BY <1>3, <1>11, <2>2 DEF Checking, Reading, Running, Ended
  <2> QED
    BY <1>3, <2>1, <2>3
<1>12. CASE /\ l.cmd \in {"a", "r", "f"} /\ Len(ops) >= Given.num_ops
            /\ step' = "wild" /\ UNCHANGED <<ops, max_index>>
  <2>1. Types'
    BY <1>2, <1>3, <1>4, <1>5, <1>12 DEF Types
  <2>2. Len(ops) + 1 \in DOMAIN w
    BY <1>8, <1>9, <1>12
  <2>3. ~ HeaderRight(Given)
    BY <1>4, <1>6, <1>12, <2>2
  <2>4. Checking' /\ Reading' /\ Running' /\ Ended'
    BY <1>3, <1>12, <2>3 DEF Checking, Reading, Running, Ended
  <2> QED
    BY <1>3, <2>1, <2>4
<1>13. CASE /\ l.cmd \in {"a", "r", "f"} /\ Len(ops) < Given.num_ops
            /\ ops' = Append(ops, l) /\ max_index' = MaxIndex(l) /\ step' = step
  <2>1. l \in Entries /\ RequestsIn(Given.lines, pos + 1) = Append(ops, l) /\ l.id \in Nat
    BY <1>8, <1>9, <1>13 DEF Entries
  <2>2. PICK s, top : s = ops' /\ top = max_index'
    OBVIOUS
  <2>3. Len(s) = Len(ops) + 1
    BY <1>6, <1>13, <2>1, <2>2, AppendProperties
  <2>4. top = IF l.cmd \in {"a", "r"} /\ l.id > max_index THEN l.id ELSE max_index
    BY <1>13, <2>2 DEF MaxIndex
  <2>5. /\ l.cmd \in {"a", "r"} => Allocated(s) = Allocated(ops) \union {l.id}
        /\ l.cmd \notin {"a", "r"} => Allocated(s) = Allocated(ops)
        /\ Known(s) <=> Known(ops) /\ l.cmd # "x"
        /\ Allocated(ops) \subseteq Nat
    BY <1>6, <1>13, <2>1, <2>2, AllocatedNext, AllocatedAreNumbers
  <2>6. top \in Nat /\ top \in Allocated(s) \union {0} /\ \A id \in Allocated(s) : id <= top
    <3>1. CASE l.cmd \in {"a", "r"}
      <4>1. \A id \in Allocated(ops) : id \in Nat /\ id <= max_index
        BY <1>7, <2>5
      <4> QED
        BY <1>7, <2>1, <2>4, <2>5, <3>1, <4>1
    <3>2. CASE l.cmd \notin {"a", "r"}
      BY <1>7, <2>4, <2>5, <3>2
    <3> QED
      BY <3>1, <3>2
  <2>7. Types'
    BY <1>2, <1>3, <1>4, <1>5, <1>6, <1>13, <2>2, <2>3, <2>6 DEF Types
  <2>8. Known(s)
    BY <1>7, <1>13, <2>5
  <2>9. Reading'
    BY <1>2, <1>3, <1>13, <2>1, <2>2, <2>6, <2>8 DEF Reading
  <2>10. Checking' /\ Running' /\ Ended'
    BY <1>2, <1>13 DEF Checking, Running, Ended
  <2> QED
    BY <1>3, <2>7, <2>9, <2>10
<1> QED
  BY <1>1, <1>10, <1>11, <1>12, <1>13 DEF read_request

LEMMA EndKeeps == TraceInv /\ end_of_file => TraceInv'
<1> SUFFICES ASSUME TraceInv, end_of_file PROVE TraceInv'
  OBVIOUS
<1> USE DEF TraceInv
<1>1. PICK w : w = Reqs
  OBVIOUS
<1>2. /\ step = "read" /\ pos = Len(Given.lines)
      /\ step' = IF max_index = Given.num_ids - 1 /\ Given.num_ops = Len(ops)
                 THEN "run" ELSE "aborted"
      /\ package' \in {"libc", "mm"} /\ pass' = 1 /\ pos' = 0
      /\ UNCHANGED <<file, output, checked, opt_s, HASH, lines, ops, max_index, inuse,
                     leaked>>
  BY DEF end_of_file, script, trace
<1>3. Given' = Given /\ Reqs' = Reqs /\ Printed'
  BY <1>2, SameFile
<1>4. /\ Len(Given.lines) \in Nat
      /\ Given.num_ops \in Nat /\ Given.num_ids \in Nat
      /\ Len(w) \in Nat /\ DOMAIN w = 1 .. Len(w) /\ w \in Seq(Entries)
      /\ Reqs = RequestsIn(Given.lines, Len(Given.lines))
      /\ HeaderRight(Given) <=>
           /\ Given.num_ops = Len(w)
           /\ Given.num_ids - 1 \in Allocated(w) \union {0}
           /\ \A id \in Allocated(w) : id < Given.num_ids
  BY <1>1, GivenFacts
<1>5. ops = w
  BY <1>1, <1>2, <1>4 DEF Reading
<1>6. /\ Known(w) /\ max_index \in Allocated(w) \union {0}
      /\ \A id \in Allocated(w) : id <= max_index
      /\ max_index \in Nat /\ inuse = {} /\ leaked = 0 /\ Len(ops) <= Given.num_ops
  BY <1>2, <1>5 DEF Reading, Types
<1>7. Allocated(w) \subseteq Nat
  BY <1>4, AllocatedAreNumbers
<1>8. Passes \in Nat \ {0}
  BY TraceAssumption
<1>9. Types'
  <2>1. 1 \in 0 .. Passes /\ 0 \in 0 .. Len(Given.lines)
    BY <1>4, <1>8
  <2>2. step' \in {"run", "aborted"}
    BY <1>2
  <2> QED
    BY <1>2, <1>3, <1>6, <2>1, <2>2 DEF Types
<1>10. CASE max_index = Given.num_ids - 1 /\ Given.num_ops = Len(ops)
  <2>1. step' = "run"
    BY <1>2, <1>10
  <2>2. \A id \in Allocated(w) : id < Given.num_ids
    BY <1>4, <1>6, <1>7, <1>10
  <2>3. IdsInUse(w, 0) = {}
    BY NoneInUse
  <2>4. Running'
    BY <1>1, <1>2, <1>3, <1>4, <1>5, <1>6, <1>10, <2>1, <2>2, <2>3 DEF Running
  <2>5. Checking' /\ Reading' /\ Ended'
    BY <2>1 DEF Checking, Reading, Ended
  <2> QED
    BY <1>3, <1>9, <2>4, <2>5
<1>11. CASE ~ (max_index = Given.num_ids - 1 /\ Given.num_ops = Len(ops))
  <2>1. step' = "aborted"
    BY <1>2, <1>11
  <2>2. ASSUME HeaderRight(Given)
        PROVE  FALSE
    <3>1. PICK last : last = Given.num_ids - 1
      OBVIOUS
    <3>2. last \in Allocated(w) \union {0} /\ \A id \in Allocated(w) : id <= last
      BY <1>4, <1>7, <2>2, <3>1
    <3>3. last \in Nat
      BY <1>7, <3>2
    <3>4. last <= max_index /\ max_index <= last
      BY <1>6, <3>2, <3>3
    <3> QED
      BY <1>4, <1>5, <1>6, <1>11, <2>2, <3>1, <3>3, <3>4
  <2>3. Checking' /\ Reading' /\ Running' /\ Ended'
    BY <1>3, <2>1, <2>2 DEF Checking, Reading, Running, Ended
  <2> QED
    BY <1>3, <1>9, <2>3
<1> QED
  BY <1>10, <1>11

\* What checktrace printed is in order and leaves nothing in use.
LEMMA CheckedFacts ==
  ASSUME Types, Printed, checked, Known(Reqs)
  PROVE  /\ \A n \in DOMAIN Reqs : InOrder(Reqs, n)
         /\ IdsInUse(Reqs, Len(Reqs)) = {}
<1>1. Reqs = output.lines
  BY GivenFacts DEF Given
<1> QED
  BY <1>1 DEF Printed

LEMMA RunKeeps == TraceInv /\ run_op => TraceInv'
<1> SUFFICES ASSUME TraceInv, run_op PROVE TraceInv'
  OBVIOUS
<1> USE DEF TraceInv
<1>1. PICK w, l, n : w = Reqs /\ l = Op /\ n = pos
  OBVIOUS
<1>2. /\ step = "run" /\ pos < Len(ops) /\ pos' = pos + 1
      /\ UNCHANGED <<file, output, checked, opt_s, HASH, lines, ops, max_index, package,
                     pass>>
  BY DEF run_op, script, trace
<1>3. Given' = Given /\ Reqs' = Reqs /\ Printed'
  BY <1>2, SameFile
<1>4. /\ Len(Given.lines) \in Nat /\ Len(w) <= Len(Given.lines)
      /\ Given.num_ops \in Nat /\ Given.num_ids \in Nat
      /\ Len(w) \in Nat /\ DOMAIN w = 1 .. Len(w) /\ w \in Seq(Entries)
  BY <1>1, GivenFacts
<1>5. /\ ops = w /\ Known(w) /\ Len(w) = Given.num_ops
      /\ \A id \in Allocated(w) : id < Given.num_ids
      /\ IdsInUse(w, n) \subseteq inuse
      /\ checked => inuse = IdsInUse(w, n) /\ leaked = 0
  BY <1>1, <1>2 DEF Running
<1>6. /\ n \in Nat /\ n \in 0 .. Len(w) /\ n + 1 \in DOMAIN w
      /\ n + 1 \in 0 .. Len(Given.lines) /\ n + 1 <= Len(w)
  BY <1>1, <1>2, <1>4, <1>5 DEF Types
<1>7. w[n + 1] = l /\ l \in Entries
  BY <1>1, <1>4, <1>5, <1>6, ElementOfSeq DEF Op
<1>8. l.cmd \in {"a", "r", "f"} /\ l.id \in Nat
  BY <1>5, <1>6, <1>7 DEF Known, Entries
<1>9. /\ l.cmd = "a" => (InOrder(w, n + 1) <=> l.id \notin IdsInUse(w, n))
      /\ l.cmd \in {"r", "f"} => (InOrder(w, n + 1) <=> l.id \in IdsInUse(w, n))
  BY <1>6, <1>7, InOrderNext
<1>10. CASE /\ Wild(l) /\ step' = "wild"
            /\ UNCHANGED <<inuse, leaked>>
  <2>1. Types'
    BY <1>1, <1>2, <1>3, <1>6, <1>10 DEF Types
  <2>2. ASSUME \A k \in DOMAIN w : InOrder(w, k)
        PROVE  FALSE
    <3>1. InOrder(w, n + 1)
      BY <1>6, <2>2
    <3>2. l.cmd \in {"r", "f"} => l.id \in IdsInUse(w, n) /\ l.id \in inuse
      BY <1>5, <1>9, <3>1
    <3>3. IdsInUse(w, n) \subseteq Allocated(w)
      BY <1>4, <1>6, InUseAllocated
    <3>4. l.cmd = "a" => l.id \in Allocated(w)
      BY <1>4, <1>6, <1>7, AllocatedAreNumbers
    <3>5. l.id < Given.num_ids
      BY <1>5, <1>8, <3>2, <3>3, <3>4
    <3> QED
      BY <1>4, <1>8, <1>10, <3>2, <3>5 DEF Wild
  <2>3. Checking' /\ Reading' /\ Running' /\ Ended'
    BY <1>1, <1>3, <1>10, <2>2 DEF Checking, Reading, Running, Ended
  <2> QED
    BY <1>3, <2>1, <2>3
<1>11. CASE /\ ~ Wild(l) /\ step' = step
            /\ inuse' = IF l.cmd = "f" THEN inuse \ {l.id} ELSE inuse \union {l.id}
            /\ leaked' = leaked + (IF l.cmd = "a" /\ l.id \in inuse THEN 1 ELSE 0)
  <2>1. PICK held, lost : held = inuse' /\ lost = leaked'
    OBVIOUS
  <2>2. leaked \in Nat
    BY DEF Types
  <2>3. lost \in Nat
    BY <1>11, <2>1, <2>2
  <2>4. Types'
    BY <1>1, <1>2, <1>3, <1>6, <1>11, <2>1, <2>3 DEF Types
  <2>5. /\ l.cmd = "a" => IdsInUse(w, n + 1) = IdsInUse(w, n) \union {l.id}
        /\ l.cmd = "f" => IdsInUse(w, n + 1) = IdsInUse(w, n) \ {l.id}
        /\ l.cmd \notin {"a", "f"} => IdsInUse(w, n + 1) = IdsInUse(w, n)
    BY <1>6, <1>7, InUseNext
  <2>6. l.cmd = "r" => l.id \in inuse
    BY <1>11 DEF Wild
  <2>7. IdsInUse(w, n + 1) \subseteq held
    BY <1>5, <1>8, <1>11, <2>1, <2>5
  <2>8. ASSUME checked
        PROVE  held = IdsInUse(w, n + 1) /\ lost = 0
    <3>1. InOrder(w, n + 1)
      BY <1>1, <1>5, <1>6, <2>8, CheckedFacts
    <3>2. l.cmd = "a" => l.id \notin inuse
      BY <1>5, <1>9, <2>8, <3>1
    <3>3. held = IdsInUse(w, n + 1)
      BY <1>5, <1>8, <1>11, <2>1, <2>5, <2>6, <2>8
    <3>4. lost = 0
      BY <1>5, <1>11, <2>1, <2>8, <3>2
    <3> QED
      BY <3>3, <3>4
  <2>9. Running'
    BY <1>1, <1>2, <1>3, <1>5, <1>6, <1>11, <2>1, <2>7, <2>8 DEF Running
  <2>10. Checking' /\ Reading' /\ Ended'
    BY <1>2, <1>11 DEF Checking, Reading, Ended
  <2> QED
    BY <1>3, <2>4, <2>9, <2>10
<1> QED
  BY <1>1, <1>10, <1>11 DEF run_op

LEMMA NextPassKeeps == TraceInv /\ next_pass => TraceInv'
<1> SUFFICES ASSUME TraceInv, next_pass PROVE TraceInv'
  OBVIOUS
<1> USE DEF TraceInv
<1>1. /\ step = "run" /\ pos = Len(ops) /\ pass < Passes
      /\ pass' = pass + 1 /\ pos' = 0
      /\ inuse' = IF package = "mm" THEN {} ELSE inuse
      /\ UNCHANGED <<file, step, output, checked, opt_s, HASH, lines, ops, max_index,
                     package, leaked>>
  BY DEF next_pass, script, trace
<1>2. Given' = Given /\ Reqs' = Reqs /\ Printed'
  BY <1>1, SameFile
<1>3. Len(Given.lines) \in Nat /\ Len(Reqs) \in Nat
  BY GivenFacts
<1>4. ops = Reqs /\ Known(ops)
  BY <1>1 DEF Running
<1>5. pass \in 0 .. Passes /\ Passes \in Nat
  BY TraceAssumption DEF Types
<1>6. Types'
  <2>1. pass + 1 \in 0 .. Passes /\ 0 \in 0 .. Len(Given.lines)
    BY <1>1, <1>3, <1>5
  <2> QED
    BY <1>1, <1>2, <2>1 DEF Types
<1>7. ASSUME checked
      PROVE  inuse = {} /\ leaked = 0
  BY <1>1, <1>4, <1>7, CheckedFacts DEF Running
<1>8. IdsInUse(ops, 0) = {}
  BY NoneInUse
<1>9. Running'
  <2>1. PICK held : held = inuse'
    OBVIOUS
  <2>2. checked => held = {} /\ leaked = 0
    BY <1>1, <1>7, <2>1
  <2>3. 0 <= Len(ops) /\ Len(ops) = Given.num_ops
        /\ \A id \in Allocated(ops) : id < Given.num_ids
    BY <1>1, <1>3, <1>4 DEF Running
  <2> QED
    BY <1>1, <1>2, <1>4, <1>8, <2>1, <2>2, <2>3 DEF Running
<1>10. Checking' /\ Reading' /\ Ended'
  BY <1>1 DEF Checking, Reading, Ended
<1> QED
  BY <1>2, <1>6, <1>9, <1>10

LEMMA FreeTraceKeeps == TraceInv /\ free_trace => TraceInv'
<1> SUFFICES ASSUME TraceInv, free_trace PROVE TraceInv'
  OBVIOUS
<1> USE DEF TraceInv
<1>1. /\ step = "run" /\ pos = Len(ops) /\ step' = "done" /\ ops' = << >>
      /\ UNCHANGED <<file, output, checked, opt_s, pos, HASH, lines, max_index, package,
                     pass, inuse, leaked>>
  BY DEF free_trace, script, running
<1>2. Given' = Given /\ Reqs' = Reqs /\ Printed'
  BY <1>1, SameFile
<1>3. Given.num_ops \in Nat
  BY GivenFacts
<1>4. PICK none : none = << >>
  OBVIOUS
<1>5. Len(none) = 0 /\ ops' = none
  BY <1>1, <1>4
<1>6. Types'
  BY <1>1, <1>2, <1>3, <1>5 DEF Types
<1>7. ops = Reqs /\ Known(ops)
  BY <1>1 DEF Running
<1>8. ASSUME checked
      PROVE  inuse = {} /\ leaked = 0
  BY <1>1, <1>7, <1>8, CheckedFacts DEF Running
<1>9. Ended'
  BY <1>1, <1>8 DEF Ended
<1>10. Checking' /\ Reading' /\ Running'
  BY <1>1 DEF Checking, Reading, Running
<1> QED
  BY <1>2, <1>6, <1>9, <1>10

-----------------------------------------------------------------------------
(* The files that scripts generate.                                        *)

\* A file that is in order, with the header that it should have.
Proper(F) ==
  /\ F \in [num_ids : Nat, num_ops : Nat, lines : Seq(Entries)]
  /\ Known(F.lines)
  /\ \A n \in DOMAIN F.lines : InOrder(F.lines, n)
  /\ F.num_ops = Len(F.lines)
  /\ F.num_ids - 1 \in Allocated(F.lines) \union {0}
  /\ \A id \in Allocated(F.lines) : id < F.num_ids

LEMMA ProperIsRight ==
  ASSUME NEW F, Proper(F)
  PROVE  /\ F \in FileType
         /\ Requests(F.lines) = F.lines
         /\ HeaderRight(F)
<1>1. PICK ls : ls = F.lines
  OBVIOUS
<1>2. ls \in Seq(Entries) /\ F.num_ids \in Nat /\ F.num_ops \in Nat
      /\ F = [num_ids |-> F.num_ids, num_ops |-> F.num_ops, lines |-> ls]
  BY <1>1 DEF Proper
<1>3. Len(ls) \in Nat /\ DOMAIN ls = 1 .. Len(ls) /\ \A k \in 1 .. Len(ls) : ls[k] \in Entries
  BY <1>2, LenProperties, ElementOfSeq
<1>4. ls \in Seq(Entries \union {Blank})
  <2>1. ls \in [1 .. Len(ls) -> Entries \union {Blank}]
    BY <1>2, LenProperties
  <2> QED
    BY <1>3, <2>1
<1>5. \A k \in DOMAIN ls : ls[k] # Blank
  <2>1. Blank \notin Entries
    BY DEF Blank, Entries
  <2> QED
    BY <1>3, <2>1
<1>6. Requests(ls) = ls
  BY <1>4, <1>5, NothingBlank
<1>7. F \in FileType
  BY <1>2, <1>4 DEF FileType
<1>8. HeaderRight(F)
  <2>1. HeaderRight(F) <=>
          /\ F.num_ops = Len(Requests(F.lines))
          /\ F.num_ids - 1 \in Allocated(F.lines) \union {0}
          /\ \A id \in Allocated(F.lines) : id < F.num_ids
    BY Zenon DEF HeaderRight, Allocated
  <2> QED
    BY <1>1, <1>6, <2>1 DEF Proper
<1> QED
  BY <1>1, <1>6, <1>7, <1>8

\* When every id is allocated at one place at most, and a free has that place in
\* front of it and no other free of the id in between, the requests are in order.
LEMMA OrderByPlaces ==
  ASSUME NEW ls \in Seq(Entries),
         \A i, j \in 1 .. Len(ls) :
           ls[i].cmd = "a" /\ ls[j].cmd = "a" /\ ls[i].id = ls[j].id => i = j,
         \A j \in 1 .. Len(ls) : ls[j].cmd \in {"r", "f"} =>
           \E i \in 1 .. j - 1 :
             /\ ls[i].cmd = "a" /\ ls[i].id = ls[j].id
             /\ \A k \in i + 1 .. j - 1 : ~ (ls[k].cmd = "f" /\ ls[k].id = ls[j].id)
  PROVE  \A n \in DOMAIN ls : InOrder(ls, n)
<1>1. Len(ls) \in Nat /\ DOMAIN ls = 1 .. Len(ls) /\ \A k \in 1 .. Len(ls) : ls[k] \in Entries
  BY LenProperties, ElementOfSeq
<1>2. \A l \in Entries : l = [cmd |-> l.cmd, id |-> l.id]
  BY DEF Entries
<1> SUFFICES ASSUME NEW n \in 1 .. Len(ls) PROVE InOrder(ls, n)
  BY <1>1
<1>3. ASSUME ls[n].cmd = "a"
      PROVE  ~ InUse(ls, n - 1, ls[n].id)
  <2> SUFFICES ASSUME NEW j \in 1 .. n - 1, ls[j] = [cmd |-> "a", id |-> ls[n].id]
               PROVE  FALSE
    BY DEF InUse
  <2>1. ls[j].cmd = "a" /\ ls[j].id = ls[n].id
    OBVIOUS
  <2>2. j \in 1 .. Len(ls) /\ j # n
    BY <1>1
  <2> QED
    BY <1>3, <2>1, <2>2
<1>4. ASSUME ls[n].cmd \in {"r", "f"}
      PROVE  InUse(ls, n - 1, ls[n].id)
  <2>1. PICK i \in 1 .. n - 1 :
          /\ ls[i].cmd = "a" /\ ls[i].id = ls[n].id
          /\ \A k \in i + 1 .. n - 1 : ~ (ls[k].cmd = "f" /\ ls[k].id = ls[n].id)
    BY <1>4
  <2>2. i \in 1 .. Len(ls)
    BY <1>1
  <2>3. ls[i] = [cmd |-> "a", id |-> ls[n].id]
    BY <1>1, <1>2, <2>1, <2>2
  <2>4. \A k \in i + 1 .. n - 1 : ls[k] # [cmd |-> "f", id |-> ls[n].id]
    BY <2>1
  <2> QED
    BY <2>3, <2>4 DEF InUse
<1> QED
  BY <1>3, <1>4, IdsAreInUse DEF InOrder

LEMMA LinesAreEntries ==
  /\ \A id \in Nat : a(id) \in Entries /\ r(id) \in Entries /\ f(id) \in Entries
  /\ \A id : /\ a(id).cmd = "a" /\ a(id).id = id
             /\ r(id).cmd = "r" /\ r(id).id = id
             /\ f(id).cmd = "f" /\ f(id).id = id
  BY DEF a, r, f, Line, Entries

LEMMA BinaryIsProper == \A n \in Nat \ {0} : Proper(gen_binary(n))
<1> SUFFICES ASSUME NEW n \in Nat \ {0} PROVE Proper(gen_binary(n))
  OBVIOUS
<1>1. PICK ps : ps = [k \in 1 .. n |-> <<a(2 * (k - 1)), a(2 * (k - 1) + 1)>>]
  OBVIOUS
<1>2. PICK rs : rs = [k \in 1 .. n |-> <<f(2 * (k - 1) + 1)>>]
  OBVIOUS
<1>3. PICK bs : bs = [k \in 1 .. n |-> <<a(2 * n + (k - 1))>>]
  OBVIOUS
<1>4. PICK p, q, u : p = FlattenSeq(ps) /\ q = FlattenSeq(rs) /\ u = FlattenSeq(bs)
  OBVIOUS
<1>5. gen_binary(n) = [num_ids |-> 3 * n, num_ops |-> 4 * n, lines |-> (p \o q) \o u]
  <2>1. (n - 1) - 0 + 1 = n /\ \A k \in 1 .. n : 0 + k - 1 = k - 1
    OBVIOUS
  <2> QED
    BY <1>1, <1>2, <1>3, <1>4, <2>1 DEF gen_binary, For, File
<1>6. BlocksOf(p, ps, 2, n, Entries)
  <2>1. ASSUME NEW k \in 1 .. n
        PROVE  ps[k] \in Seq(Entries) /\ Len(ps[k]) = 2
    <3>1. a(2 * (k - 1)) \in Entries /\ a(2 * (k - 1) + 1) \in Entries
      BY LinesAreEntries
    <3> QED
      BY <1>1, <3>1
  <2>2. ps \in [1 .. n -> Seq(Entries)]
    BY <1>1, <2>1
  <2> QED
    BY <1>4, <2>1, <2>2, FlattenBlocks
<1>7. BlocksOf(q, rs, 1, n, Entries)
  <2>1. ASSUME NEW k \in 1 .. n
        PROVE  rs[k] \in Seq(Entries) /\ Len(rs[k]) = 1
    <3>1. f(2 * (k - 1) + 1) \in Entries
      BY LinesAreEntries
    <3> QED
      BY <1>2, <3>1
  <2>2. rs \in [1 .. n -> Seq(Entries)]
    BY <1>2, <2>1
  <2> QED
    BY <1>4, <2>1, <2>2, FlattenBlocks
<1>8. BlocksOf(u, bs, 1, n, Entries)
  <2>1. ASSUME NEW k \in 1 .. n
        PROVE  bs[k] \in Seq(Entries) /\ Len(bs[k]) = 1
    <3>1. a(2 * n + (k - 1)) \in Entries
      BY LinesAreEntries
    <3> QED
      BY <1>3, <3>1
  <2>2. bs \in [1 .. n -> Seq(Entries)]
    BY <1>3, <2>1
  <2> QED
    BY <1>4, <2>1, <2>2, FlattenBlocks
<1>9. /\ p \in Seq(Entries) /\ Len(p) = 2 * n
      /\ \A j \in 1 .. 2 * n : p[j].cmd = "a" /\ p[j].id = j - 1
  <2>1. /\ p \in Seq(Entries) /\ Len(p) = 2 * n
        /\ \A k \in 1 .. n : \A i \in 1 .. 2 : p[2 * (k - 1) + i] = ps[k][i]
    BY <1>6 DEF BlocksOf
  <2>2. ASSUME NEW j \in 1 .. 2 * n
        PROVE  p[j] = a(j - 1)
    <3>1. PICK k \in 1 .. n : j = 2 * (k - 1) + 1 \/ j = 2 * (k - 1) + 2
      <4>1. 2 \in Nat \ {0} /\ j - 1 \in Nat
        OBVIOUS
      <4>2. PICK k \in Nat, i \in 0 .. 2 - 1 : j - 1 = 2 * k + i
        BY <4>1, PlaceInBlock
      <4>3. PICK c : c = k + 1
        OBVIOUS
      <4>4. c \in 1 .. n /\ (j = 2 * (c - 1) + 1 \/ j = 2 * (c - 1) + 2)
        BY <4>2, <4>3
      <4> QED
        BY <4>4
    <3>2. ps[k][1] = a(2 * (k - 1)) /\ ps[k][2] = a(2 * (k - 1) + 1)
      BY <1>1
    <3>3. CASE j = 2 * (k - 1) + 1
      <4>1. p[j] = ps[k][1]
        BY <2>1, <3>3
      <4>2. j - 1 = 2 * (k - 1)
        BY <3>3
      <4> QED
        BY <3>2, <4>1, <4>2
    <3>4. CASE j = 2 * (k - 1) + 2
      <4>1. p[j] = ps[k][2]
        BY <2>1, <3>4
      <4>2. j - 1 = 2 * (k - 1) + 1
        BY <3>4
      <4> QED
        BY <3>2, <4>1, <4>2
    <3> QED
      BY <3>1, <3>3, <3>4
  <2> QED
    BY <2>1, <2>2, LinesAreEntries
<1>10. /\ q \in Seq(Entries) /\ Len(q) = n
       /\ \A j \in 1 .. n : q[j].cmd = "f" /\ q[j].id = 2 * j - 1
  <2>1. /\ q \in Seq(Entries) /\ Len(q) = 1 * n
        /\ \A k \in 1 .. n : \A i \in 1 .. 1 : q[1 * (k - 1) + i] = rs[k][i]
    BY <1>7 DEF BlocksOf
  <2>2. ASSUME NEW j \in 1 .. n
        PROVE  q[j] = f(2 * (j - 1) + 1)
    <3>1. 1 * (j - 1) + 1 = j
      OBVIOUS
    <3> QED
      BY <1>2, <2>1, <3>1
  <2>3. \A j \in 1 .. n : 2 * (j - 1) + 1 = 2 * j - 1
    OBVIOUS
  <2> QED
    BY <2>1, <2>2, <2>3, LinesAreEntries
<1>11. /\ u \in Seq(Entries) /\ Len(u) = n
       /\ \A j \in 1 .. n : u[j].cmd = "a" /\ u[j].id = 2 * n + (j - 1)
  <2>1. /\ u \in Seq(Entries) /\ Len(u) = 1 * n
        /\ \A k \in 1 .. n : \A i \in 1 .. 1 : u[1 * (k - 1) + i] = bs[k][i]
    BY <1>8 DEF BlocksOf
  <2>2. ASSUME NEW j \in 1 .. n
        PROVE  u[j] = a(2 * n + (j - 1))
    <3>1. 1 * (j - 1) + 1 = j
      OBVIOUS
    <3> QED
      BY <1>3, <2>1, <3>1
  <2> QED
    BY <2>1, <2>2, LinesAreEntries
<1>12. PICK ls : ls = (p \o q) \o u
  OBVIOUS
<1>13. /\ ls \in Seq(Entries) /\ Len(ls) = 4 * n
       /\ \A j \in 1 .. 2 * n : ls[j] = p[j]
       /\ \A j \in 1 .. n : ls[2 * n + j] = q[j]
       /\ \A j \in 1 .. n : ls[3 * n + j] = u[j]
  <2>1. PICK v : v = p \o q
    OBVIOUS
  <2>2. Joined(v, p, q, Entries)
    BY <1>9, <1>10, <2>1, ConcatJoins
  <2>3. /\ v \in Seq(Entries) /\ Len(v) = 3 * n
        /\ \A j \in 1 .. 2 * n : v[j] = p[j]
        /\ \A j \in 1 .. n : v[2 * n + j] = q[j]
    BY <1>9, <1>10, <2>2 DEF Joined
  <2>4. Joined(ls, v, u, Entries)
    BY <1>11, <1>12, <2>1, <2>3, ConcatJoins
  <2>5. /\ ls \in Seq(Entries) /\ Len(ls) = 4 * n
        /\ \A j \in 1 .. 3 * n : ls[j] = v[j]
        /\ \A j \in 1 .. n : ls[3 * n + j] = u[j]
    BY <1>11, <2>3, <2>4 DEF Joined
  <2>6. \A j \in 1 .. 2 * n : ls[j] = p[j]
    BY <2>3, <2>5
  <2>7. ASSUME NEW j \in 1 .. n
        PROVE  ls[2 * n + j] = q[j]
    <3>1. 2 * n + j \in 1 .. 3 * n
      OBVIOUS
    <3> QED
      BY <2>3, <2>5, <3>1
  <2> QED
    BY <2>5, <2>6, <2>7
<1>14. ASSUME NEW j \in 1 .. 4 * n
       PROVE  \/ j <= 2 * n /\ ls[j].cmd = "a" /\ ls[j].id = j - 1
              \/ /\ 2 * n < j /\ j <= 3 * n /\ ls[j].cmd = "f"
                 /\ ls[j].id = 2 * (j - 2 * n) - 1
              \/ 3 * n < j /\ ls[j].cmd = "a" /\ ls[j].id = j - n - 1
  <2>1. CASE j <= 2 * n
    <3>1. j \in 1 .. 2 * n
      BY <2>1
    <3> QED
      BY <1>9, <1>13, <2>1, <3>1
  <2>2. CASE 2 * n < j /\ j <= 3 * n
    <3>1. PICK i : i = j - 2 * n
      OBVIOUS
    <3>2. i \in 1 .. n /\ j = 2 * n + i
      BY <2>2, <3>1
    <3>3. ls[j].cmd = "f" /\ ls[j].id = 2 * i - 1
      BY <1>10, <1>13, <3>2
    <3> QED
      BY <2>2, <3>1, <3>3
  <2>3. CASE 3 * n < j
    <3>1. PICK i : i = j - 3 * n
      OBVIOUS
    <3>2. i \in 1 .. n /\ j = 3 * n + i /\ 2 * n + (i - 1) = j - n - 1
      BY <2>3, <3>1
    <3>3. ls[j].cmd = "a" /\ ls[j].id = j - n - 1
      BY <1>11, <1>13, <3>2
    <3> QED
      BY <2>3, <3>3
  <2> QED
    BY <2>1, <2>2, <2>3
<1>15. \A k \in DOMAIN ls : InOrder(ls, k)
  <2>1. ASSUME NEW i \in 1 .. Len(ls), NEW j \in 1 .. Len(ls),
               ls[i].cmd = "a", ls[j].cmd = "a", ls[i].id = ls[j].id
        PROVE  i = j
    <3>1. /\ i \in 1 .. 4 * n /\ j \in 1 .. 4 * n
          /\ (i <= 2 * n /\ ls[i].id = i - 1) \/ (3 * n < i /\ ls[i].id = i - n - 1)
          /\ (j <= 2 * n /\ ls[j].id = j - 1) \/ (3 * n < j /\ ls[j].id = j - n - 1)
      BY <1>13, <1>14, <2>1
    <3>2. PICK id : id = ls[i].id
      OBVIOUS
    <3> QED
      BY <2>1, <3>1, <3>2
  <2>2. ASSUME NEW j \in 1 .. Len(ls), ls[j].cmd \in {"r", "f"}
        PROVE  \E i \in 1 .. j - 1 :
                 /\ ls[i].cmd = "a" /\ ls[i].id = ls[j].id
                 /\ \A k \in i + 1 .. j - 1 : ~ (ls[k].cmd = "f" /\ ls[k].id = ls[j].id)
    <3>1. 2 * n < j /\ j <= 3 * n /\ ls[j].id = 2 * (j - 2 * n) - 1
      BY <1>13, <1>14, <2>2
    <3>2. PICK i : i = 2 * (j - 2 * n)
      OBVIOUS
    <3>3. i \in 1 .. j - 1 /\ i \in 1 .. 4 * n /\ i <= 2 * n
      BY <1>13, <3>1, <3>2
    <3>4. ls[i].cmd = "a" /\ ls[i].id = ls[j].id
      BY <1>14, <3>1, <3>2, <3>3
    <3>5. ASSUME NEW k \in i + 1 .. j - 1, ls[k].cmd = "f", ls[k].id = ls[j].id
          PROVE  FALSE
      <4>1. k \in 1 .. 4 * n /\ k < j
        BY <1>13, <3>1, <3>3
      <4>2. ls[k].id = 2 * (k - 2 * n) - 1
        BY <1>14, <3>5, <4>1
      <4> QED
        BY <3>1, <3>5, <4>1, <4>2
    <3> QED
      BY <3>3, <3>4, <3>5
  <2> QED
    BY <1>13, <2>1, <2>2, OrderByPlaces
<1>16. Known(ls)
  <2>1. DOMAIN ls = 1 .. 4 * n
    BY <1>13, LenProperties
  <2> QED
    BY <1>14, <2>1 DEF Known
<1>17. 3 * n - 1 \in Allocated(ls) /\ \A id \in Allocated(ls) : id < 3 * n
  <2>1. DOMAIN ls = 1 .. 4 * n
    BY <1>13, LenProperties
  <2>2. 4 * n \in DOMAIN ls /\ ls[4 * n].cmd = "a" /\ ls[4 * n].id = 3 * n - 1
    BY <1>14, <2>1
  <2>3. \A id : id \in Allocated(ls) <=>
          \E j \in DOMAIN ls : ls[j].cmd \in {"a", "r"} /\ id = ls[j].id
    BY DEF Allocated, ToSet
  <2>4. \A j \in DOMAIN ls : ls[j].id < 3 * n
    BY <1>14, <2>1
  <2> QED
    BY <2>2, <2>3, <2>4
<1> QED
  BY <1>5, <1>12, <1>13, <1>15, <1>16, <1>17 DEF Proper

LEMMA CoalescingIsProper == \A n \in Nat \ {0} : Proper(gen_coalescing(n))
<1> SUFFICES ASSUME NEW n \in Nat \ {0} PROVE Proper(gen_coalescing(n))
  OBVIOUS
<1>1. PICK rs : rs = [k \in 1 .. n |->
                        <<a(3 * (k - 1)), a(3 * (k - 1) + 1), f(3 * (k - 1)),
                          f(3 * (k - 1) + 1), a(3 * (k - 1) + 2), f(3 * (k - 1) + 2)>>]
  OBVIOUS
<1>2. PICK ls : ls = FlattenSeq(rs)
  OBVIOUS
<1>3. gen_coalescing(n) = [num_ids |-> 3 * n, num_ops |-> 6 * n, lines |-> ls]
  <2>1. (n - 1) - 0 + 1 = n /\ \A k \in 1 .. n : 0 + k - 1 = k - 1
    OBVIOUS
  <2> QED
    BY <1>1, <1>2, <2>1 DEF gen_coalescing, For, File
<1>4. BlocksOf(ls, rs, 6, n, Entries)
  <2>1. ASSUME NEW k \in 1 .. n
        PROVE  rs[k] \in Seq(Entries) /\ Len(rs[k]) = 6
    <3>1. /\ a(3 * (k - 1)) \in Entries /\ a(3 * (k - 1) + 1) \in Entries
          /\ f(3 * (k - 1)) \in Entries /\ f(3 * (k - 1) + 1) \in Entries
          /\ a(3 * (k - 1) + 2) \in Entries /\ f(3 * (k - 1) + 2) \in Entries
      BY LinesAreEntries
    <3> QED
      BY <1>1, <3>1
  <2>2. rs \in [1 .. n -> Seq(Entries)]
    BY <1>1, <2>1
  <2> QED
    BY <1>2, <2>1, <2>2, FlattenBlocks
<1>5. /\ ls \in Seq(Entries) /\ Len(ls) = 6 * n
      /\ \A k \in 1 .. n : \A i \in 1 .. 6 : ls[6 * (k - 1) + i] = rs[k][i]
  BY <1>4 DEF BlocksOf
<1> DEFINE Is(j, cmd, id) == ls[j].cmd = cmd /\ ls[j].id = id
<1>6. ASSUME NEW k \in 0 .. n - 1
      PROVE  /\ Is(6 * k + 1, "a", 3 * k) /\ Is(6 * k + 2, "a", 3 * k + 1)
             /\ Is(6 * k + 3, "f", 3 * k) /\ Is(6 * k + 4, "f", 3 * k + 1)
             /\ Is(6 * k + 5, "a", 3 * k + 2) /\ Is(6 * k + 6, "f", 3 * k + 2)
  <2>1. PICK c : c = k + 1
    OBVIOUS
  <2>2. c \in 1 .. n /\ c - 1 = k
    BY <2>1
  <2>3. rs[c] = <<a(3 * k), a(3 * k + 1), f(3 * k), f(3 * k + 1), a(3 * k + 2), f(3 * k + 2)>>
    BY <1>1, <2>2
  <2>4. \A i \in 1 .. 6 : ls[6 * k + i] = rs[c][i]
    BY <1>5, <2>2
  <2>5. /\ ls[6 * k + 1] = a(3 * k) /\ ls[6 * k + 2] = a(3 * k + 1)
        /\ ls[6 * k + 3] = f(3 * k) /\ ls[6 * k + 4] = f(3 * k + 1)
        /\ ls[6 * k + 5] = a(3 * k + 2) /\ ls[6 * k + 6] = f(3 * k + 2)
    BY <2>3, <2>4
  <2> QED
    BY <2>5, LinesAreEntries
<1>7. ASSUME NEW j \in 1 .. 6 * n
      PROVE  \E k \in 0 .. n - 1 :
               \/ j = 6 * k + 1 /\ Is(j, "a", 3 * k)
               \/ j = 6 * k + 2 /\ Is(j, "a", 3 * k + 1)
               \/ j = 6 * k + 3 /\ Is(j, "f", 3 * k)
               \/ j = 6 * k + 4 /\ Is(j, "f", 3 * k + 1)
               \/ j = 6 * k + 5 /\ Is(j, "a", 3 * k + 2)
               \/ j = 6 * k + 6 /\ Is(j, "f", 3 * k + 2)
  <2>1. 6 \in Nat \ {0} /\ j - 1 \in Nat
    OBVIOUS
  <2>2. PICK k \in Nat, i \in 0 .. 6 - 1 : j - 1 = 6 * k + i
    BY <2>1, PlaceInBlock
  <2>3. k \in 0 .. n - 1
    BY <2>2
  <2>4. \/ j = 6 * k + 1 \/ j = 6 * k + 2 \/ j = 6 * k + 3
        \/ j = 6 * k + 4 \/ j = 6 * k + 5 \/ j = 6 * k + 6
    BY <2>2
  <2> HIDE DEF Is
  <2> QED
    BY <1>6, <2>3, <2>4
<1>8. DOMAIN ls = 1 .. 6 * n
  BY <1>5, LenProperties
<1>9. \A k \in DOMAIN ls : InOrder(ls, k)
  <2>1. ASSUME NEW i \in 1 .. Len(ls), NEW j \in 1 .. Len(ls),
               ls[i].cmd = "a", ls[j].cmd = "a", ls[i].id = ls[j].id
        PROVE  i = j
    <3>1. i \in 1 .. 6 * n /\ j \in 1 .. 6 * n
      BY <1>5
    <3>2. PICK k \in 0 .. n - 1 :
            \/ i = 6 * k + 1 /\ ls[i].id = 3 * k
            \/ i = 6 * k + 2 /\ ls[i].id = 3 * k + 1
            \/ i = 6 * k + 5 /\ ls[i].id = 3 * k + 2
      BY <1>7, <2>1, <3>1
    <3>3. PICK m \in 0 .. n - 1 :
            \/ j = 6 * m + 1 /\ ls[j].id = 3 * m
            \/ j = 6 * m + 2 /\ ls[j].id = 3 * m + 1
            \/ j = 6 * m + 5 /\ ls[j].id = 3 * m + 2
      BY <1>7, <2>1, <3>1
    <3>4. PICK id : id = ls[i].id
      OBVIOUS
    <3>5. /\ \/ i = 6 * k + 1 /\ id = 3 * k
             \/ i = 6 * k + 2 /\ id = 3 * k + 1
             \/ i = 6 * k + 5 /\ id = 3 * k + 2
          /\ \/ j = 6 * m + 1 /\ id = 3 * m
             \/ j = 6 * m + 2 /\ id = 3 * m + 1
             \/ j = 6 * m + 5 /\ id = 3 * m + 2
      BY <2>1, <3>2, <3>3, <3>4
    <3>6. k = m
      BY <3>5
    <3> QED
      BY <3>5, <3>6
  <2>2. ASSUME NEW j \in 1 .. Len(ls), ls[j].cmd \in {"r", "f"}
        PROVE  \E i \in 1 .. j - 1 :
                 /\ ls[i].cmd = "a" /\ ls[i].id = ls[j].id
                 /\ \A k \in i + 1 .. j - 1 : ~ (ls[k].cmd = "f" /\ ls[k].id = ls[j].id)
    <3>1. j \in 1 .. 6 * n
      BY <1>5
    <3>2. PICK k \in 0 .. n - 1 :
            \/ j = 6 * k + 3 /\ ls[j].id = 3 * k
            \/ j = 6 * k + 4 /\ ls[j].id = 3 * k + 1
            \/ j = 6 * k + 6 /\ ls[j].id = 3 * k + 2
      BY <1>7, <2>2, <3>1
    <3>3. PICK i : i = IF j = 6 * k + 6 THEN 6 * k + 5 ELSE j - 2
      OBVIOUS
    <3>4. i \in 1 .. j - 1
      BY <3>2, <3>3
    <3>5. ls[i].cmd = "a" /\ ls[i].id = ls[j].id
      <4>1. /\ j = 6 * k + 3 => i = 6 * k + 1
            /\ j = 6 * k + 4 => i = 6 * k + 2
            /\ j = 6 * k + 6 => i = 6 * k + 5
        BY <3>3
      <4> QED
        BY <1>6, <3>2, <4>1
    <3>6. ASSUME NEW p \in i + 1 .. j - 1, ls[p].cmd = "f", ls[p].id = ls[j].id
          PROVE  FALSE
      <4>1. p \in 1 .. 6 * n /\ p < j
        BY <3>1, <3>4
      <4>2. PICK m \in 0 .. n - 1 :
              \/ p = 6 * m + 3 /\ ls[p].id = 3 * m
              \/ p = 6 * m + 4 /\ ls[p].id = 3 * m + 1
              \/ p = 6 * m + 6 /\ ls[p].id = 3 * m + 2
        BY <1>7, <3>6, <4>1
      <4>3. PICK id : id = ls[p].id
        OBVIOUS
      <4> QED
        BY <3>2, <3>6, <4>1, <4>2, <4>3
    <3> QED
      BY <3>4, <3>5, <3>6
  <2> QED
    BY <1>5, <2>1, <2>2, OrderByPlaces
<1>10. ASSUME NEW j \in DOMAIN ls
       PROVE  ls[j].cmd # "x" /\ ls[j].id < 3 * n
  <2>1. PICK k \in 0 .. n - 1 : /\ ls[j].cmd \in {"a", "f"}
                                /\ ls[j].id \in {3 * k, 3 * k + 1, 3 * k + 2}
    BY <1>7, <1>8
  <2> QED
    BY <2>1
<1>11. Known(ls)
  BY <1>10 DEF Known
<1>12. 3 * n - 1 \in Allocated(ls) /\ \A id \in Allocated(ls) : id < 3 * n
  <2>1. PICK k, j : k = n - 1 /\ j = 6 * k + 5
    OBVIOUS
  <2>2. k \in 0 .. n - 1 /\ j \in DOMAIN ls /\ 3 * k + 2 = 3 * n - 1
    BY <1>8, <2>1
  <2>3. ls[j].cmd = "a" /\ ls[j].id = 3 * n - 1
    BY <1>6, <2>1, <2>2
  <2>4. \A id : id \in Allocated(ls) <=>
          \E i \in DOMAIN ls : ls[i].cmd \in {"a", "r"} /\ id = ls[i].id
    BY DEF Allocated, ToSet
  <2> QED
    BY <1>10, <2>2, <2>3, <2>4
<1> QED
  BY <1>3, <1>5, <1>9, <1>11, <1>12 DEF Proper

LEMMA ReallocIsProper == \A n \in Nat \ {0} : Proper(gen_realloc(n))
<1> SUFFICES ASSUME NEW n \in Nat \ {0} PROVE Proper(gen_realloc(n))
  OBVIOUS
<1>1. PICK rs : rs = [k \in 1 .. n - 1 |-> <<r(0), a(k + 1), f(k)>>]
  OBVIOUS
<1>2. PICK p, q, u : p = <<a(0), a(1)>> /\ q = FlattenSeq(rs) /\ u = <<f(n), f(0)>>
  OBVIOUS
<1>3. PICK v, ls : v = p \o q /\ ls = v \o u
  OBVIOUS
<1>4. gen_realloc(n) = [num_ids |-> n + 1, num_ops |-> 3 * n + 1, lines |-> ls]
  <2>1. (n - 1) - 1 + 1 = n - 1 /\ \A k \in 1 .. n - 1 : 1 + k - 1 = k
    OBVIOUS
  <2> QED
    BY <1>1, <1>2, <1>3, <2>1 DEF gen_realloc, For, File
<1>5. BlocksOf(q, rs, 3, n - 1, Entries)
  <2>1. ASSUME NEW k \in 1 .. n - 1
        PROVE  rs[k] \in Seq(Entries) /\ Len(rs[k]) = 3
    <3>1. r(0) \in Entries /\ a(k + 1) \in Entries /\ f(k) \in Entries
      BY LinesAreEntries
    <3> QED
      BY <1>1, <3>1
  <2>2. rs \in [1 .. n - 1 -> Seq(Entries)] /\ n - 1 \in Nat
    BY <1>1, <2>1
  <2> QED
    BY <1>2, <2>1, <2>2, FlattenBlocks
<1>6. /\ q \in Seq(Entries) /\ Len(q) = 3 * (n - 1)
      /\ \A k \in 1 .. n - 1 : \A i \in 1 .. 3 : q[3 * (k - 1) + i] = rs[k][i]
  BY <1>5 DEF BlocksOf
<1>7. /\ p \in Seq(Entries) /\ Len(p) = 2 /\ p[1] = a(0) /\ p[2] = a(1)
      /\ u \in Seq(Entries) /\ Len(u) = 2 /\ u[1] = f(n) /\ u[2] = f(0)
  <2>1. a(0) \in Entries /\ a(1) \in Entries /\ f(n) \in Entries /\ f(0) \in Entries
    BY LinesAreEntries
  <2> QED
    BY <1>2, <2>1
<1>8. Joined(v, p, q, Entries)
  BY <1>3, <1>6, <1>7, ConcatJoins
<1>9. /\ v \in Seq(Entries) /\ Len(v) = 3 * n - 1
      /\ v[1] = p[1] /\ v[2] = p[2]
      /\ \A j \in 1 .. 3 * (n - 1) : v[2 + j] = q[j]
  BY <1>6, <1>7, <1>8 DEF Joined
<1>10. Joined(ls, v, u, Entries)
  BY <1>3, <1>7, <1>9, ConcatJoins
<1>11. /\ ls \in Seq(Entries) /\ Len(ls) = 3 * n + 1
       /\ \A j \in 1 .. 3 * n - 1 : ls[j] = v[j]
       /\ ls[3 * n] = u[1] /\ ls[3 * n + 1] = u[2]
  <2>1. /\ ls \in Seq(Entries) /\ Len(ls) = (3 * n - 1) + 2
        /\ \A j \in 1 .. 3 * n - 1 : ls[j] = v[j]
        /\ \A j \in 1 .. 2 : ls[(3 * n - 1) + j] = u[j]
    BY <1>7, <1>9, <1>10 DEF Joined
  <2>2. (3 * n - 1) + 1 = 3 * n /\ (3 * n - 1) + 2 = 3 * n + 1
    OBVIOUS
  <2> QED
    BY <2>1, <2>2
<1> DEFINE Is(j, cmd, id) == ls[j].cmd = cmd /\ ls[j].id = id
<1>12. /\ Is(1, "a", 0) /\ Is(2, "a", 1)
       /\ Is(3 * n, "f", n) /\ Is(3 * n + 1, "f", 0)
  <2>1. ls[1] = a(0) /\ ls[2] = a(1) /\ ls[3 * n] = f(n) /\ ls[3 * n + 1] = f(0)
    BY <1>7, <1>9, <1>11
  <2> QED
    BY <2>1, LinesAreEntries
<1>13. ASSUME NEW k \in 0 .. n - 2
       PROVE  /\ Is(3 * k + 3, "r", 0)
              /\ Is(3 * k + 4, "a", k + 2)
              /\ Is(3 * k + 5, "f", k + 1)
  <2>1. PICK c : c = k + 1
    OBVIOUS
  <2>2. c \in 1 .. n - 1 /\ c - 1 = k /\ c + 1 = k + 2
    BY <2>1
  <2>3. rs[c] = <<r(0), a(k + 2), f(k + 1)>>
    BY <1>1, <2>1, <2>2
  <2>4. \A i \in 1 .. 3 : q[3 * k + i] = rs[c][i]
    BY <1>6, <2>2
  <2>5. ASSUME NEW i \in 1 .. 3
        PROVE  ls[3 * k + (2 + i)] = rs[c][i]
    <3>1. PICK j : j = 3 * k + i
      OBVIOUS
    <3>2. j \in 1 .. 3 * (n - 1) /\ 2 + j \in 1 .. 3 * n - 1 /\ 2 + j = 3 * k + (2 + i)
      BY <3>1
    <3>3. ls[2 + j] = q[j] /\ q[j] = rs[c][i]
      BY <1>9, <1>11, <2>4, <3>1, <3>2
    <3> QED
      BY <3>2, <3>3
  <2>6. ls[3 * k + 3] = r(0) /\ ls[3 * k + 4] = a(k + 2) /\ ls[3 * k + 5] = f(k + 1)
    <3>1. ls[3 * k + (2 + 1)] = rs[c][1] /\ ls[3 * k + (2 + 2)] = rs[c][2]
          /\ ls[3 * k + (2 + 3)] = rs[c][3]
      BY <2>5
    <3> QED
      BY <2>3, <3>1
  <2> QED
    BY <2>6, LinesAreEntries
<1>14. ASSUME NEW j \in 1 .. 3 * n + 1
       PROVE  \/ j = 1 /\ Is(j, "a", 0)
              \/ j = 2 /\ Is(j, "a", 1)
              \/ j = 3 * n /\ Is(j, "f", n)
              \/ j = 3 * n + 1 /\ Is(j, "f", 0)
              \/ \E k \in 0 .. n - 2 :
                   \/ j = 3 * k + 3 /\ Is(j, "r", 0)
                   \/ j = 3 * k + 4 /\ Is(j, "a", k + 2)
                   \/ j = 3 * k + 5 /\ Is(j, "f", k + 1)
  <2>1. CASE j \in {1, 2, 3 * n, 3 * n + 1}
    <3> HIDE DEF Is
    <3> QED
      BY <1>12, <2>1
  <2>2. CASE j \notin {1, 2, 3 * n, 3 * n + 1}
    <3>1. 3 \in Nat \ {0} /\ j - 3 \in Nat
      BY <2>2
    <3>2. PICK k \in Nat, i \in 0 .. 3 - 1 : j - 3 = 3 * k + i
      BY <3>1, PlaceInBlock
    <3>3. k \in 0 .. n - 2
      BY <2>2, <3>2
    <3>4. j = 3 * k + 3 \/ j = 3 * k + 4 \/ j = 3 * k + 5
      BY <3>2
    <3> HIDE DEF Is
    <3> QED
      BY <1>13, <3>3, <3>4
  <2> QED
    BY <2>1, <2>2
<1>15. DOMAIN ls = 1 .. 3 * n + 1
  BY <1>11, LenProperties
<1>16. ASSUME NEW j \in 1 .. 3 * n + 1, ls[j].cmd = "a"
       PROVE  \/ j = 1 /\ ls[j].id = 0
              \/ j = 2 /\ ls[j].id = 1
              \/ j > 2 /\ j = 3 * ls[j].id - 2 /\ ls[j].id \in 2 .. n
  BY <1>14, <1>16
<1>17. ASSUME NEW j \in 1 .. 3 * n + 1, ls[j].cmd = "f"
       PROVE  \/ j = 3 * n + 1 /\ ls[j].id = 0
              \/ j = 3 * n /\ ls[j].id = n
              \/ j < 3 * n /\ j = 3 * ls[j].id + 2 /\ ls[j].id \in 1 .. n - 1
  BY <1>14, <1>17
<1>18. ASSUME NEW j \in 1 .. 3 * n + 1, ls[j].cmd = "r"
       PROVE  ls[j].id = 0 /\ 2 < j /\ j < 3 * n
  BY <1>14, <1>18
<1>19. ASSUME NEW id \in 1 .. n
       PROVE  \E i \in 1 .. 3 * n - 1 :
                /\ Is(i, "a", id)
                /\ i = IF id = 1 THEN 2 ELSE 3 * id - 2
  <2>1. CASE id = 1
    BY <1>12, <2>1
  <2>2. CASE id # 1
    <3>1. PICK k : k = id - 2
      OBVIOUS
    <3>2. k \in 0 .. n - 2 /\ 3 * k + 4 = 3 * id - 2 /\ k + 2 = id
      BY <2>2, <3>1
    <3>3. Is(3 * id - 2, "a", id)
      <4> HIDE DEF Is
      <4> QED
        BY <1>13, <3>2
    <3>4. 3 * id - 2 \in 1 .. 3 * n - 1
      BY <2>2
    <3> QED
      BY <2>2, <3>3, <3>4
  <2> QED
    BY <2>1, <2>2
<1>20. \A k \in DOMAIN ls : InOrder(ls, k)
  <2>1. ASSUME NEW i \in 1 .. Len(ls), NEW j \in 1 .. Len(ls),
               ls[i].cmd = "a", ls[j].cmd = "a", ls[i].id = ls[j].id
        PROVE  i = j
    <3>1. i \in 1 .. 3 * n + 1 /\ j \in 1 .. 3 * n + 1
      BY <1>11
    <3>2. PICK id : id = ls[i].id
      OBVIOUS
    <3>3. (i = 1 /\ id = 0) \/ (i = 2 /\ id = 1) \/ (i = 3 * id - 2 /\ id \in 2 .. n)
      BY <1>16, <2>1, <3>1, <3>2
    <3>4. (j = 1 /\ id = 0) \/ (j = 2 /\ id = 1) \/ (j = 3 * id - 2 /\ id \in 2 .. n)
      BY <1>16, <2>1, <3>1, <3>2
    <3> QED
      BY <3>1, <3>3, <3>4
  <2>2. ASSUME NEW j \in 1 .. Len(ls), ls[j].cmd \in {"r", "f"}
        PROVE  \E i \in 1 .. j - 1 :
                 /\ ls[i].cmd = "a" /\ ls[i].id = ls[j].id
                 /\ \A k \in i + 1 .. j - 1 : ~ (ls[k].cmd = "f" /\ ls[k].id = ls[j].id)
    <3>1. j \in 1 .. 3 * n + 1
      BY <1>11
    <3>2. CASE ls[j].id = 0
      <4>1. 2 < j
        BY <1>17, <1>18, <2>2, <3>1, <3>2
      <4>2. ASSUME NEW k \in 1 + 1 .. j - 1, ls[k].cmd = "f", ls[k].id = 0
            PROVE  FALSE
        <5>1. k \in 1 .. 3 * n + 1 /\ k < j
          BY <3>1
        <5>2. k = 3 * n + 1
          BY <1>17, <4>2, <5>1
        <5> QED
          BY <3>1, <5>1, <5>2
      <4> QED
        BY <1>12, <3>1, <3>2, <4>1, <4>2
    <3>3. CASE ls[j].id # 0
      <4>1. PICK id : id = ls[j].id
        OBVIOUS
      <4>2. /\ \/ j = 3 * n /\ id = n
               \/ j < 3 * n /\ j = 3 * id + 2 /\ id \in 1 .. n - 1
            /\ id \in 1 .. n
        BY <1>17, <1>18, <2>2, <3>1, <3>3, <4>1
      <4>3. PICK i \in 1 .. 3 * n - 1 : /\ ls[i].cmd = "a" /\ ls[i].id = id
                                        /\ i = IF id = 1 THEN 2 ELSE 3 * id - 2
        BY <1>19, <4>2
      <4>4. i \in 1 .. j - 1
        BY <3>1, <4>2, <4>3
      <4>5. ASSUME NEW k \in i + 1 .. j - 1, ls[k].cmd = "f", ls[k].id = id
            PROVE  FALSE
        <5>1. k \in 1 .. 3 * n + 1 /\ k < j
          BY <3>1, <4>4
        <5>2. \/ k = 3 * n /\ id = n
              \/ k < 3 * n /\ k = 3 * id + 2 /\ id \in 1 .. n - 1
          BY <1>17, <3>3, <4>1, <4>5, <5>1
        <5> QED
          BY <4>2, <5>1, <5>2
      <4> QED
        BY <4>1, <4>3, <4>4, <4>5
    <3> QED
      BY <3>2, <3>3
  <2> QED
    BY <1>11, <2>1, <2>2, OrderByPlaces
<1>21. Known(ls)
  BY <1>14, <1>15 DEF Known
<1>22. n \in Allocated(ls) /\ \A id \in Allocated(ls) : id < n + 1
  <2>1. \A id : id \in Allocated(ls) <=>
          \E i \in DOMAIN ls : ls[i].cmd \in {"a", "r"} /\ id = ls[i].id
    BY DEF Allocated, ToSet
  <2>2. ASSUME NEW j \in DOMAIN ls, ls[j].cmd \in {"a", "r"}
        PROVE  ls[j].id < n + 1
    BY <1>15, <1>16, <1>18, <2>2
  <2>3. PICK i \in 1 .. 3 * n - 1 : ls[i].cmd = "a" /\ ls[i].id = n
    BY <1>19
  <2>4. i \in DOMAIN ls
    BY <1>15
  <2> QED
    BY <2>1, <2>2, <2>3, <2>4
<1>23. (n + 1) - 1 = n /\ n + 1 \in Nat /\ 3 * n + 1 \in Nat
  OBVIOUS
<1> QED
  BY <1>4, <1>11, <1>20, <1>21, <1>22, <1>23 DEF Proper

\* What gen_random splices in stands behind the allocation it is for.
FreeBehind(u, t, k) ==
  \E p \in 1 .. Len(t) + 1 :
    /\ Inserted(u, t, p, f(k), Entries)
    /\ (\E m \in 1 .. Len(t) : t[m] = a(k)) => \E m \in 1 .. p - 1 : t[m] = a(k)

LEMMA SplicedIs ==
  ASSUME NEW t \in Seq(Entries), NEW k \in Nat, NEW u \in Spliced(t, k)
  PROVE  FreeBehind(u, t, k)
<1>1. PICK n, al, I : n = Len(t) /\ al = a(k) /\ I = { i \in 1 .. n : t[i] = al }
  OBVIOUS
<1>2. n \in Nat /\ f(k) \in Entries
  BY <1>1, LenProperties, LinesAreEntries
<1>3. PICK m : m = IF I # {} THEN Min(I) ELSE 0
  OBVIOUS
<1>4. PICK at \in Places(t, m - 1) : u = InsertAt(t, at + 1, f(k))
  BY <1>1, <1>3 DEF Spliced, SelectInSeq
<1>5. /\ m \in 0 .. n
      /\ I # {} => m \in 1 .. n /\ t[m] = al
  <2>1. CASE I = {}
    BY <1>2, <1>3, <2>1
  <2>2. CASE I # {}
    <3>1. I \in SUBSET Nat
      BY <1>1
    <3>2. m \in I
      BY <1>3, <2>2, <3>1, MinIsLeast
    <3> QED
      BY <1>1, <1>2, <3>2
  <2> QED
    BY <2>1, <2>2
<1>6. at \in m .. n
  BY <1>1, <1>2, <1>4, <1>5 DEF Places
<1>7. PICK p : p = at + 1
  OBVIOUS
<1>8. p \in 1 .. n + 1 /\ m <= p - 1
  BY <1>2, <1>5, <1>6, <1>7
<1>9. Inserted(u, t, p, f(k), Entries)
  BY <1>1, <1>2, <1>4, <1>7, <1>8, InsertAtParts
<1>10. ASSUME NEW i \in 1 .. n, t[i] = al
       PROVE  m \in 1 .. p - 1 /\ t[m] = al
  <2>1. i \in I
    BY <1>1, <1>10
  <2> QED
    BY <1>2, <1>5, <1>8, <2>1
<1> QED
  BY <1>1, <1>8, <1>9, <1>10 DEF FreeBehind

\* The trace of gen_random for n blocks, when k of them have their free.
Partial(t, n, k) ==
  /\ t \in Seq(Entries) /\ Len(t) = n + k
  /\ \A j \in 1 .. n + k : (t[j].cmd = "a" /\ t[j].id < n) \/ (t[j].cmd = "f" /\ t[j].id < k)
  /\ \A i, j \in 1 .. n + k : t[i] = t[j] => i = j
  /\ \A id \in 0 .. n - 1 : \E j \in 1 .. n + k : t[j] = a(id)
  /\ \A j \in 1 .. n + k :
       t[j].cmd = "f" => \E i \in 1 .. j - 1 : t[i] = a(t[j].id)

LEMMA PartialGrows ==
  ASSUME NEW n \in Nat, NEW k \in 0 .. n - 1, NEW t, Partial(t, n, k), NEW u, FreeBehind(u, t, k)
  PROVE  Partial(u, n, k + 1)
<1> USE DEF Partial
<1>1. PICK w, fr : w = n + k /\ fr = f(k)
  OBVIOUS
<1>2. w \in Nat /\ Len(t) = w /\ n + (k + 1) = w + 1
  BY <1>1
<1>3. PICK p \in 1 .. w + 1 :
        /\ Inserted(u, t, p, fr, Entries)
        /\ (\E m \in 1 .. w : t[m] = a(k)) => \E m \in 1 .. p - 1 : t[m] = a(k)
  BY <1>1, <1>2 DEF FreeBehind
<1>4. /\ u \in Seq(Entries) /\ Len(u) = w + 1
      /\ \A j \in 1 .. w + 1 :
           u[j] = IF j < p THEN t[j] ELSE IF j = p THEN fr ELSE t[j - 1]
  BY <1>2, <1>3 DEF Inserted
<1>5. PICK m \in 1 .. p - 1 : t[m] = a(k)
  <2>1. k \in 0 .. n - 1
    OBVIOUS
  <2> QED
    BY <1>1, <1>3, <2>1
<1>6. fr.cmd = "f" /\ fr.id = k
  BY <1>1, LinesAreEntries
<1> DEFINE back(j) == IF j < p THEN j ELSE j - 1
<1>7. ASSUME NEW j \in 1 .. w + 1, j # p
      PROVE  back(j) \in 1 .. w /\ u[j] = t[back(j)]
  BY <1>2, <1>4, <1>7
<1>8. ASSUME NEW i \in 1 .. w
      PROVE  \E j \in 1 .. w + 1 : j # p /\ back(j) = i /\ u[j] = t[i] /\ j <= i + 1
  <2>1. CASE i < p
    <3>1. i \in 1 .. w + 1 /\ i # p /\ back(i) = i /\ i <= i + 1
      BY <1>2, <2>1
    <3>2. u[i] = t[i]
      BY <1>4, <2>1, <3>1
    <3> QED
      BY <3>1, <3>2
  <2>2. CASE ~ (i < p)
    <3>1. PICK j : j = i + 1
      OBVIOUS
    <3>2. j \in 1 .. w + 1 /\ j # p /\ back(j) = i /\ j <= i + 1
      BY <1>2, <2>2, <3>1
    <3>3. u[j] = t[i]
      BY <1>7, <3>2
    <3> QED
      BY <3>2, <3>3
  <2> QED
    BY <2>1, <2>2
<1>9. \A j \in 1 .. w + 1 :
        (u[j].cmd = "a" /\ u[j].id < n) \/ (u[j].cmd = "f" /\ u[j].id < k + 1)
  <2> TAKE j \in 1 .. w + 1
  <2>1. CASE j = p
    <3>1. u[j] = fr
      BY <1>4, <2>1
    <3> QED
      BY <1>6, <3>1
  <2>2. CASE j # p
    <3>1. PICK i \in 1 .. w : u[j] = t[i]
      BY <1>7, <2>2
    <3>2. t[i].id \in Nat
      <4>1. t[i] \in Entries
        BY <1>2, ElementOfSeq
      <4> QED
        BY <4>1 DEF Entries
    <3>3. (t[i].cmd = "a" /\ t[i].id < n) \/ (t[i].cmd = "f" /\ t[i].id < k)
      BY <1>1
    <3> QED
      BY <3>1, <3>2, <3>3
  <2> QED
    BY <2>1, <2>2
<1>10. \A i \in 1 .. w : t[i] # fr
  BY <1>1, <1>6
<1>11. \A i, j \in 1 .. w + 1 : u[i] = u[j] => i = j
  <2> SUFFICES ASSUME NEW i \in 1 .. w + 1, NEW j \in 1 .. w + 1, u[i] = u[j]
               PROVE  i = j
    OBVIOUS
  <2>1. u[p] = fr
    BY <1>4
  <2>2. CASE i = p \/ j = p
    <3> HIDE DEF back
    <3> QED
      BY <1>7, <1>10, <2>1, <2>2
  <2>3. CASE i # p /\ j # p
    <3>1. back(i) \in 1 .. w /\ back(j) \in 1 .. w /\ t[back(i)] = t[back(j)]
      <4> HIDE DEF back
      <4> QED
        BY <1>7, <2>3
    <3>2. back(i) = back(j)
      <4> HIDE DEF back
      <4> QED
        BY <1>1, <3>1
    <3> QED
      BY <1>2, <2>3, <3>2
  <2> QED
    BY <2>2, <2>3
<1>12. \A id \in 0 .. n - 1 : \E j \in 1 .. w + 1 : u[j] = a(id)
  <2> TAKE id \in 0 .. n - 1
  <2>1. PICK i \in 1 .. w : t[i] = a(id)
    BY <1>1
  <2> HIDE DEF back
  <2> QED
    BY <1>8, <2>1
<1>13. ASSUME NEW j \in 1 .. w + 1, u[j].cmd = "f"
       PROVE  \E i \in 1 .. j - 1 : u[i] = a(u[j].id)
  <2>1. CASE j = p
    <3>1. u[j] = fr /\ m \in 1 .. w + 1 /\ m < p
      BY <1>2, <1>4, <2>1
    <3>2. u[m] = a(k)
      BY <1>4, <1>5, <3>1
    <3> QED
      BY <1>6, <2>1, <3>1, <3>2
  <2>2. CASE j # p
    <3>1. PICK i : i = back(j)
      OBVIOUS
    <3>2. i \in 1 .. w /\ u[j] = t[i]
      BY <1>7, <2>2, <3>1
    <3>3. PICK c \in 1 .. i - 1 : t[c] = a(t[i].id)
      BY <1>1, <1>13, <3>2
    <3>4. c \in 1 .. w /\ c < i
      BY <1>2, <3>2
    <3>5. PICK d \in 1 .. w + 1 : d # p /\ back(d) = c /\ u[d] = t[c]
      BY <1>8, <3>4
    <3>6. d < j
      BY <1>2, <2>2, <3>1, <3>2, <3>4, <3>5
    <3>7. d \in 1 .. j - 1
      BY <1>2, <3>6
    <3> QED
      BY <3>2, <3>3, <3>5, <3>7
  <2> QED
    BY <2>1, <2>2
<1> HIDE DEF back
<1> QED
  BY <1>2, <1>4, <1>9, <1>11, <1>12, <1>13

\* gen_random's traces: first those with no free, then round after round.
Rounds(traces, n, allocs) ==
  /\ traces[0] = {allocs}
  /\ \A k \in 1 .. n : traces[k] = UNION { Spliced(t, k - 1) : t \in traces[k - 1] }

LEMMA SplicedExtend ==
  ASSUME NEW T \in SUBSET Seq(Entries), NEW k \in Nat
  PROVE  UNION { Spliced(t, k) : t \in T } \in SUBSET Seq(Entries)
<1> SUFFICES ASSUME NEW t \in T, NEW u \in Spliced(t, k) PROVE u \in Seq(Entries)
  BY Zenon
<1>1. t \in Seq(Entries)
  OBVIOUS
<1>2. FreeBehind(u, t, k)
  BY <1>1, SplicedIs
<1> QED
  BY <1>2 DEF FreeBehind, Inserted

LEMMA RandomIs ==
  ASSUME NEW n \in Nat \ {0}, NEW F \in gen_random(n),
         NEW allocs, allocs = [k \in 1 .. n |-> a(k - 1)]
  PROVE  \E traces : /\ Rounds(traces, n, allocs)
                     /\ \E t \in traces[n] : F = File(n, 2 * n, t)
<1> DEFINE Body(h) == [k \in 0 .. n |->
                         IF k = 0 THEN {allocs}
                         ELSE UNION { Spliced(t, k - 1) : t \in h[k - 1] }]
<1>1. \E t \in (CHOOSE h : h = Body(h))[n] : F = File(n, 2 * n, t)
  BY Zenon DEF gen_random
<1>2. allocs \in Seq(Entries)
  <2>1. \A k \in 1 .. n : a(k - 1) \in Entries
    BY LinesAreEntries
  <2> QED
    BY <2>1
<1>3. \E h : h = Body(h)
  <2>1. PICK D, first : D = SUBSET Seq(Entries) /\ first = {allocs}
    OBVIOUS
  <2> DEFINE g == [k \in 1 .. n |-> [T \in D |-> UNION { Spliced(t, k - 1) : t \in T }]]
  <2>2. StepsIn(g, n, D)
    <3>1. ASSUME NEW k \in 1 .. n, NEW T \in D
          PROVE  UNION { Spliced(t, k - 1) : t \in T } \in D
      <4>1. k - 1 \in Nat
        OBVIOUS
      <4> QED
        BY <2>1, <4>1, SplicedExtend
    <3>2. \A k \in 1 .. n : g[k] = [T \in D |-> UNION { Spliced(t, k - 1) : t \in T }]
      BY Zenon
    <3> HIDE DEF g
    <3>3. ASSUME NEW k \in 1 .. n
          PROVE  g[k] \in [D -> D]
      BY <3>1, <3>2, Zenon
    <3> QED
      BY <3>3 DEF StepsIn
  <2>3. PICK h : Recursion(h, first, g, n, D)
    <3>1. first \in D
      BY <1>2, <2>1
    <3> HIDE DEF g
    <3> QED
      BY <2>2, <3>1, RecursionExists
  <2>4. h \in [0 .. n -> D] /\ h[0] = first /\ \A k \in 1 .. n : h[k] = g[k][h[k - 1]]
    <3> HIDE DEF g
    <3> QED
      BY <2>3 DEF Recursion
  <2>5. ASSUME NEW k \in 1 .. n
        PROVE  h[k] = UNION { Spliced(t, k - 1) : t \in h[k - 1] }
    <3>1. k - 1 \in 0 .. n
      OBVIOUS
    <3>2. h[k - 1] \in D
      BY <2>4, <3>1, Zenon
    <3>3. h[k] = g[k][h[k - 1]]
      <4> HIDE DEF g
      <4> QED
        BY <2>4
    <3> QED
      BY <3>2, <3>3, Zenon
  <2>6. ASSUME NEW k \in 0 .. n
        PROVE  h[k] = Body(h)[k]
    <3>1. CASE k = 0
      <4>1. Body(h)[k] = {allocs}
        BY <3>1
      <4> QED
        BY <2>1, <2>4, <3>1, <4>1, Zenon
    <3>2. CASE k # 0
      <4>1. k \in 1 .. n
        BY <3>2
      <4>2. Body(h)[k] = UNION { Spliced(t, k - 1) : t \in h[k - 1] }
        BY <3>2, Zenon
      <4> QED
        BY <2>5, <4>1, <4>2, Zenon
    <3> QED
      BY <3>1, <3>2
  <2>7. h = [k \in 0 .. n |-> h[k]]
    BY <2>4, Zenon
  <2>8. \A k \in 0 .. n : h[k] = IF k = 0 THEN {allocs}
                                 ELSE UNION { Spliced(t, k - 1) : t \in h[k - 1] }
    BY <2>6, Zenon
  <2>9. h = Body(h)
    BY <2>7, <2>8, Zenon
  <2> QED
    BY <2>9
<1>4. PICK u : u = CHOOSE h : h = Body(h)
  OBVIOUS
<1>5. u = Body(u)
  <2> HIDE DEF Body
  <2> QED
    BY <1>3, <1>4
<1>6. \A k \in 0 .. n : u[k] = IF k = 0 THEN {allocs}
                               ELSE UNION { Spliced(t, k - 1) : t \in u[k - 1] }
  BY <1>5, Zenon
<1>7. 0 \in 0 .. n /\ \A k \in 1 .. n : k # 0 /\ k \in 0 .. n
  OBVIOUS
<1>8. Rounds(u, n, allocs)
  BY <1>6, <1>7, Zenon DEF Rounds
<1> HIDE DEF Body
<1> QED
  BY <1>1, <1>4, <1>8

LEMMA RandomArePartial ==
  ASSUME NEW n \in Nat \ {0}, NEW allocs, allocs = [k \in 1 .. n |-> a(k - 1)],
         NEW traces, Rounds(traces, n, allocs)
  PROVE  \A t \in traces[n] : Partial(t, n, n)
<1> DEFINE S == { k \in Nat : k <= n => \A t \in traces[k] : Partial(t, n, k) }
<1>1. 0 \in S
  <2> SUFFICES Partial(allocs, n, 0)
    BY DEF Rounds
  <2>1. \A k \in 1 .. n : /\ allocs[k] = a(k - 1) /\ a(k - 1) \in Entries
                          /\ allocs[k].cmd = "a" /\ allocs[k].id = k - 1
    BY LinesAreEntries
  <2>2. allocs \in Seq(Entries) /\ Len(allocs) = n + 0 /\ n + 0 = n
    BY <2>1
  <2>3. \A i, j \in 1 .. n : allocs[i] = allocs[j] => i = j
    <3> TAKE i, j \in 1 .. n
    <3> HAVE allocs[i] = allocs[j]
    <3>1. i - 1 = j - 1
      BY <2>1
    <3> QED
      BY <3>1
  <2>4. \A id \in 0 .. n - 1 : \E j \in 1 .. n : allocs[j] = a(id)
    <3> TAKE id \in 0 .. n - 1
    <3>1. PICK j : j = id + 1
      OBVIOUS
    <3>2. j \in 1 .. n /\ j - 1 = id
      BY <3>1
    <3> QED
      BY <2>1, <3>2
  <2>5. \A j \in 1 .. n : allocs[j].cmd = "a" /\ allocs[j].id < n
    BY <2>1
  <2> QED
    BY <2>2, <2>3, <2>4, <2>5 DEF Partial
<1>2. ASSUME NEW k \in Nat, k \in S
      PROVE  k + 1 \in S
  <2> SUFFICES ASSUME k + 1 <= n, NEW u \in traces[k + 1] PROVE Partial(u, n, k + 1)
    OBVIOUS
  <2>1. PICK c : c = k + 1
    OBVIOUS
  <2>2. c \in 1 .. n /\ c - 1 = k /\ k \in 0 .. n - 1 /\ k <= n
    BY <2>1
  <2>3. traces[c] = UNION { Spliced(t, c - 1) : t \in traces[c - 1] }
    BY <2>2 DEF Rounds
  <2>4. PICK t \in traces[k] : u \in Spliced(t, k)
    <3>1. u \in traces[c]
      BY <2>1
    <3> QED
      BY <2>2, <2>3, <3>1, Zenon
  <2>5. Partial(t, n, k)
    BY <1>2, <2>2
  <2>6. FreeBehind(u, t, k)
    <3>1. t \in Seq(Entries)
      BY <2>5 DEF Partial
    <3> QED
      BY <2>4, <3>1, SplicedIs
  <2> QED
    BY <2>2, <2>5, <2>6, PartialGrows
<1>3. Nat \subseteq S
  <2> HIDE DEF S
  <2> QED
    BY <1>1, <1>2, SetInduction
<1>4. n \in S
  <2> HIDE DEF S
  <2> QED
    BY <1>3
<1> QED
  BY <1>4

LEMMA RandomIsProper == \A n \in Nat \ {0} : \A F \in gen_random(n) : Proper(F)
<1> SUFFICES ASSUME NEW n \in Nat \ {0}, NEW F \in gen_random(n) PROVE Proper(F)
  OBVIOUS
<1>1. PICK allocs : allocs = [k \in 1 .. n |-> a(k - 1)]
  OBVIOUS
<1>2. PICK traces : /\ Rounds(traces, n, allocs)
                    /\ \E t \in traces[n] : F = File(n, 2 * n, t)
  BY <1>1, RandomIs
<1>3. PICK ls \in traces[n] : F = File(n, 2 * n, ls)
  BY <1>2
<1>4. Partial(ls, n, n)
  BY <1>1, <1>2, RandomArePartial
<1>5. PICK w : w = n + n
  OBVIOUS
<1>6. /\ ls \in Seq(Entries) /\ Len(ls) = w /\ w = 2 * n /\ w \in Nat
      /\ \A j \in 1 .. w : \/ ls[j].cmd = "a" /\ ls[j].id < n
                           \/ ls[j].cmd = "f" /\ ls[j].id < n
      /\ \A i, j \in 1 .. w : ls[i] = ls[j] => i = j
      /\ \A id \in 0 .. n - 1 : \E j \in 1 .. w : ls[j] = a(id)
      /\ \A j \in 1 .. w : ls[j].cmd = "f" => \E i \in 1 .. j - 1 : ls[i] = a(ls[j].id)
  <2>1. /\ ls \in Seq(Entries) /\ Len(ls) = w
        /\ \A j \in 1 .. w : \/ ls[j].cmd = "a" /\ ls[j].id < n
                             \/ ls[j].cmd = "f" /\ ls[j].id < n
        /\ \A i, j \in 1 .. w : ls[i] = ls[j] => i = j
        /\ \A id \in 0 .. n - 1 : \E j \in 1 .. w : ls[j] = a(id)
        /\ \A j \in 1 .. w : ls[j].cmd = "f" => \E i \in 1 .. j - 1 : ls[i] = a(ls[j].id)
    BY <1>4, <1>5, Zenon DEF Partial
  <2>2. w = 2 * n /\ w \in Nat
    BY <1>5
  <2> QED
    BY <2>1, <2>2, Zenon
<1>7. DOMAIN ls = 1 .. w /\ \A j \in 1 .. w : ls[j] \in Entries
  BY <1>6, LenProperties, ElementOfSeq
<1>8. \A i, j \in 1 .. w : ls[i].cmd = ls[j].cmd /\ ls[i].id = ls[j].id => i = j
  <2>1. \A l, m \in Entries : l.cmd = m.cmd /\ l.id = m.id => l = m
    BY DEF Entries
  <2> QED
    BY <1>6, <1>7, <2>1
<1>9. \A k \in DOMAIN ls : InOrder(ls, k)
  <2>1. ASSUME NEW i \in 1 .. Len(ls), NEW j \in 1 .. Len(ls),
               ls[i].cmd = "a", ls[j].cmd = "a", ls[i].id = ls[j].id
        PROVE  i = j
    BY <1>6, <1>8, <2>1
  <2>2. ASSUME NEW j \in 1 .. Len(ls), ls[j].cmd \in {"r", "f"}
        PROVE  \E i \in 1 .. j - 1 :
                 /\ ls[i].cmd = "a" /\ ls[i].id = ls[j].id
                 /\ \A k \in i + 1 .. j - 1 : ~ (ls[k].cmd = "f" /\ ls[k].id = ls[j].id)
    <3>1. j \in 1 .. w /\ ls[j].cmd = "f"
      BY <1>6, <2>2
    <3>2. PICK i \in 1 .. j - 1 : ls[i] = a(ls[j].id)
      BY <1>6, <3>1
    <3>3. ls[i].cmd = "a" /\ ls[i].id = ls[j].id
      BY <3>2, LinesAreEntries
    <3>4. ASSUME NEW k \in i + 1 .. j - 1, ls[k].cmd = "f", ls[k].id = ls[j].id
          PROVE  FALSE
      <4>1. k \in 1 .. w /\ k # j
        BY <1>6, <3>1
      <4> QED
        BY <1>8, <3>1, <3>4, <4>1
    <3> QED
      BY <3>3, <3>4
  <2> QED
    BY <1>6, <2>1, <2>2, OrderByPlaces
<1>10. Known(ls)
  BY <1>6, <1>7 DEF Known
<1>11. n - 1 \in Allocated(ls) /\ \A id \in Allocated(ls) : id < n
  <2>1. \A id : id \in Allocated(ls) <=>
          \E i \in DOMAIN ls : ls[i].cmd \in {"a", "r"} /\ id = ls[i].id
    BY DEF Allocated, ToSet
  <2>2. n - 1 \in 0 .. n - 1
    OBVIOUS
  <2>3. PICK i \in 1 .. w : ls[i] = a(n - 1)
    BY <1>6, <2>2
  <2>4. i \in DOMAIN ls /\ ls[i].cmd \in {"a", "r"} /\ n - 1 = ls[i].id
    BY <1>7, <2>3, LinesAreEntries
  <2>5. n - 1 \in Allocated(ls)
    BY <2>1, <2>4, Zenon
  <2>6. \A k \in DOMAIN ls : ls[k].id < n
    BY <1>6, <1>7
  <2> QED
    BY <2>1, <2>5, <2>6
<1> QED
  BY <1>3, <1>6, <1>9, <1>10, <1>11 DEF File, Proper

LEMMA GeneratedIsProper == \A F \in GeneratedFiles : Proper(F)
<1> SUFFICES ASSUME NEW n \in Iters, NEW F \in Generated(n) PROVE Proper(F)
  BY Zenon DEF GeneratedFiles
<1>1. n \in Nat \ {0}
  BY TraceAssumption
<1> QED
  BY <1>1, BinaryIsProper, CoalescingIsProper, ReallocIsProper, RandomIsProper DEF Generated

-----------------------------------------------------------------------------
(* The invariant holds of every state that is reached.                     *)

LEMMA FilesAreTyped == Files \union GeneratedFiles \subseteq FileType
<1>1. GeneratedFiles \subseteq FileType
  BY GeneratedIsProper, ProperIsRight
<1>2. ASSUME NEW F \in Files
      PROVE  F \in FileType
  <2>1. PICK R : R = Request \union {Blank}
    OBVIOUS
  <2>2. F.lines \in BoundedSeq(R, MaxLines)
        /\ F = [num_ids |-> F.num_ids, num_ops |-> F.num_ops, lines |-> F.lines]
        /\ F.num_ids \in Nat /\ F.num_ops \in Nat
    BY <2>1, TraceAssumption DEF Files
  <2>3. PICK m \in Nat : F.lines \in [1 .. m -> R]
    BY <2>2, TraceAssumption DEF BoundedSeq, SeqOf
  <2>4. R \subseteq Entries \union {Blank}
    BY <2>1, TraceAssumption DEF Request, Entries
  <2>5. F.lines \in Seq(Entries \union {Blank})
    <3>1. F.lines \in [1 .. m -> Entries \union {Blank}]
      BY <2>3, <2>4
    <3> QED
      BY <3>1
  <2> QED
    BY <2>2, <2>5 DEF FileType
<1> QED
  BY <1>1, <1>2

LEMMA TraceInvInit == Init => TraceInv
<1> SUFFICES ASSUME Init PROVE TraceInv
  OBVIOUS
<1> USE DEF Init
<1>1. file \in FileType /\ Given = file
  BY FilesAreTyped DEF Given
<1>2. Len(file.lines) \in Nat /\ file.num_ops \in Nat
  <2>1. file.lines \in Seq(Entries \union {Blank}) /\ file.num_ops \in Nat
    BY <1>1 DEF FileType
  <2> QED
    BY <2>1, LenProperties
<1>3. DOMAIN HASH = {}
  BY DEF Empty
<1>4. PICK none : none = << >>
  OBVIOUS
<1>5. Len(none) = 0 /\ lines = none /\ ops = none
  BY <1>4
<1>6. Types
  <2>1. Passes \in Nat
    BY TraceAssumption
  <2>2. \A id \in DOMAIN HASH : HASH[id] \in {"a", "x"}
    BY <1>3
  <2>3. Len(lines) <= Len(Given.lines) /\ Len(ops) <= Given.num_ops /\ pos \in 0 .. Len(Given.lines)
    BY <1>1, <1>2, <1>5
  <2>4. pass \in 0 .. Passes
    BY <2>1
  <2>5. checked \in BOOLEAN /\ opt_s \in BOOLEAN
    OBVIOUS
  <2>6. /\ max_index \in Nat /\ leaked \in Nat
        /\ step \in {"start", "check", "read", "run", "died", "balanced", "unbalanced",
                    "exited", "aborted", "done", "wild"}
    OBVIOUS
  <2> QED
    BY <1>1, <2>2, <2>3, <2>4, <2>5, <2>6 DEF Types
<1> QED
  BY <1>6 DEF TraceInv, Printed, Checking, Reading, Running, Ended

LEMMA TraceInvNext == TraceInv /\ [Next]_vars => TraceInv'
<1> SUFFICES ASSUME TraceInv, [Next]_vars PROVE TraceInv'
  OBVIOUS
<1>1. CASE Next
  BY <1>1, CheckBegins, BlankLineKeeps, RequestLineKeeps, SummaryKeeps, PrintKeeps,
     OpenKeeps, ReadKeeps, EndKeeps, RunKeeps, NextPassKeeps, FreeTraceKeeps DEF Next
<1>2. CASE UNCHANGED vars
  <2>1. UNCHANGED <<file, output, checked, opt_s, step, pos, HASH, lines, ops, max_index,
                    package, pass, inuse, leaked>>
    BY <1>2 DEF vars, script, trace, running
  <2>2. Given' = Given /\ Reqs' = Reqs /\ Printed'
    BY <2>1, SameFile DEF TraceInv
  <2> QED
    BY <2>1, <2>2 DEF TraceInv, Types, Checking, Reading, Running, Ended
<1> QED
  BY <1>1, <1>2

LEMMA FileStays == [Next]_vars => file' = file
  BY DEF Next, vars, checktrace, blank_line, request_line, summary, print_balanced, open,
         read_request, end_of_file, run_op, next_pass, free_trace

\* Nothing is in use at the end when the id of no request is.
LEMMA NoneLeft ==
  ASSUME NEW ls, ls \in Seq(Entries)
  PROVE  IdsInUse(ls, Len(ls)) = {} <=> \A l \in ToSet(ls) : ~ InUse(ls, Len(ls), l.id)
<1>1. PICK n : n = Len(ls)
  OBVIOUS
<1>2. DOMAIN ls = 1 .. n /\ \A l : l \in ToSet(ls) <=> \E j \in 1 .. n : ls[j] = l
  BY <1>1, LenProperties DEF ToSet
<1>3. ASSUME NEW l \in ToSet(ls), InUse(ls, n, l.id)
      PROVE  IdsInUse(ls, n) # {}
  BY <1>3, IdsAreInUse
<1>4. ASSUME NEW id \in IdsInUse(ls, n)
      PROVE  \E l \in ToSet(ls) : InUse(ls, n, l.id)
  <2>1. InUse(ls, n, id)
    BY IdsAreInUse
  <2>2. PICK j \in 1 .. n : ls[j] = [cmd |-> "a", id |-> id]
    BY <2>1 DEF InUse
  <2>3. ls[j] \in ToSet(ls) /\ ls[j].id = id
    BY <1>2, <2>2
  <2> QED
    BY <2>1, <2>3
<1> QED
  BY <1>1, <1>3, <1>4

LEMMA VerdictFollows == TraceInv => VerdictIsRight
<1> SUFFICES ASSUME TraceInv, Known(Reqs)
             PROVE  /\ step = "died" => ~ Sensible(Reqs)
                    /\ checked \/ step \in {"balanced", "unbalanced"} =>
                         \A n \in DOMAIN Reqs : SensibleAt(Reqs, n) \/ ReusesAt(Reqs, n)
                    /\ step \in {"balanced", "unbalanced"} =>
                         (step = "balanced" <=>
                            \A l \in ToSet(Reqs) : ~ InUse(Reqs, Len(Reqs), l.id))
                    /\ checked => step # "unbalanced"
  BY DEF VerdictIsRight, Reqs
<1> USE DEF TraceInv
<1>1. PICK ls : ls = Reqs
  OBVIOUS
<1>2. PICK passes \in BOOLEAN :
        /\ passes <=> \A n \in DOMAIN ls : InOrder(ls, n)
        /\ Sensible(ls) => passes
        /\ passes => \A n \in DOMAIN ls : SensibleAt(ls, n) \/ ReusesAt(ls, n)
  BY SensibleIs
<1>3. IdsInUse(ls, Len(ls)) = {} <=> \A l \in ToSet(ls) : ~ InUse(ls, Len(ls), l.id)
  <2>1. ls \in Seq(Entries)
    BY <1>1, GivenFacts
  <2> QED
    BY <2>1, NoneLeft
<1>4. checked => passes /\ IdsInUse(ls, Len(ls)) = {}
  BY <1>1, <1>2, CheckedFacts
<1>5. /\ step = "died" => ~ passes
      /\ step \in {"balanced", "unbalanced"} =>
           passes /\ (step = "balanced" <=> IdsInUse(ls, Len(ls)) = {})
  BY <1>1, <1>2 DEF Ended
<1> QED
  BY <1>1, <1>2, <1>3, <1>4, <1>5

\* A file with known commands and a right header ends well, once its requests
\* are known to be in order.
LEMMA EndsWell ==
  ASSUME TraceInv, Known(Given.lines), HeaderRight(Given),
         \A n \in DOMAIN Reqs : InOrder(Reqs, n)
  PROVE  step \notin {"died", "wild", "aborted", "exited"}
<1>1. Known(Reqs)
  BY GivenFacts, RequestsSayAll DEF TraceInv, Reqs
<1> QED
  BY <1>1 DEF TraceInv, Ended

LEMMA CheckedEndsWell ==
  ASSUME TraceInv, checked, Known(file.lines), HeaderRight(file)
  PROVE  step \notin {"died", "wild", "aborted", "exited"}
<1>1. Known(Given.lines) /\ HeaderRight(Given)
  BY DEF TraceInv, Printed, Given
<1>2. Known(Reqs)
  BY <1>1, GivenFacts, RequestsSayAll DEF TraceInv, Reqs
<1>3. \A n \in DOMAIN Reqs : InOrder(Reqs, n)
  BY <1>2, CheckedFacts DEF TraceInv
<1> QED
  BY <1>1, <1>3, EndsWell

LEMMA GeneratedEndsWell == TraceInv => GeneratedRunsThrough
<1> SUFFICES ASSUME TraceInv, file \in GeneratedFiles
             PROVE  step \notin {"died", "wild", "aborted", "exited"}
  BY DEF GeneratedRunsThrough
<1>1. Proper(file)
  BY GeneratedIsProper
<1>2. Known(file.lines) /\ \A n \in DOMAIN file.lines : InOrder(file.lines, n)
  BY <1>1 DEF Proper
<1>3. Requests(file.lines) = file.lines /\ HeaderRight(file)
  BY <1>1, ProperIsRight
<1>4. CASE checked
  BY <1>2, <1>3, <1>4, CheckedEndsWell
<1>5. CASE ~ checked
  <2>1. Given = file /\ Reqs = file.lines
    BY <1>3, <1>5 DEF Given, Reqs
  <2> QED
    BY <1>2, <1>3, <2>1, EndsWell
<1> QED
  BY <1>4, <1>5

\* The inductive invariant.
THEOREM TraceInvariantHolds == Spec => []TraceInv
  BY TraceInvInit, TraceInvNext, PTL DEF Spec

\* Whatever the file, checktrace and the driver keep their variables in range: no
\* more operations are stored than the header says, and no more lines are read
\* than the file has (checktrace.pl:68-153, mdriver.c:505-560).
THEOREM TraceTypesHold == Spec => []TypeOK
<1>1. Init => file \in Files \union GeneratedFiles
  BY DEF Init
<1>2. (file \in Files \union GeneratedFiles) /\ [Next]_vars
        => (file \in Files \union GeneratedFiles)'
  BY FileStays
<1>3. TraceInv /\ file \in Files \union GeneratedFiles => TypeOK
  BY DEF TraceInv, Types, TypeOK
<1> QED
  BY <1>1, <1>2, <1>3, TraceInvariantHolds, PTL DEF Spec

\* checktrace dies of no file that makes sense, lets pass no line that does not,
\* unless it reuses an id, and says of the files it lets pass rightly whether they
\* are balanced, as it does of those it printed (checktrace.pl:84-153).
THEOREM VerdictHolds == Spec => []VerdictIsRight
  BY VerdictFollows, TraceInvariantHolds, PTL

\* What checktrace printed of a file with a right header, mdriver reads and runs to
\* the end, in either package (mdriver.c:518-555, 632-673).
THEOREM PrintedRunsThrough == Spec => []CheckedRunsThrough
<1>1. TraceInv => CheckedRunsThrough
  BY CheckedEndsWell DEF CheckedRunsThrough
<1> QED
  BY <1>1, TraceInvariantHolds, PTL

\* Every file of the four scripts, for every number of iterations and every choice
\* of places for the frees, can be checked and be run (gen_binary.pl,
\* gen_coalescing.pl, gen_random.pl, gen_realloc.pl).
THEOREM GeneratedHolds == Spec => []GeneratedRunsThrough
  BY GeneratedEndsWell, TraceInvariantHolds, PTL

\* The passes leave nothing behind of what checktrace printed (mdriver.c:834-911).
THEOREM NothingLeaks == Spec => []PrintedLeaksNothing
<1>1. TraceInv => PrintedLeaksNothing
  BY DEF TraceInv, Ended, PrintedLeaksNothing
<1> QED
  BY <1>1, TraceInvariantHolds, PTL

\* A trace that read_trace returns has as many operations as its header says, and
\* its allocations are for ids that the header has room for (mdriver.c:551-552).
THEOREM ReturnedHolds == Spec => []ReturnedIsInBounds
<1>1. TraceInv => ReturnedIsInBounds
  <2> SUFFICES ASSUME TraceInv, step = "run"
               PROVE  /\ Len(ops) = Given.num_ops
                      /\ \A i \in DOMAIN ops : ops[i].cmd # "f" => ops[i].id < Given.num_ids
    BY DEF ReturnedIsInBounds
  <2> USE DEF TraceInv
  <2>1. PICK w : w = ops
    OBVIOUS
  <2>2. /\ w = Reqs /\ Known(w) /\ Len(w) = Given.num_ops
        /\ \A id \in Allocated(w) : id < Given.num_ids
    BY <2>1 DEF Running
  <2>3. w \in Seq(Entries) /\ \A i \in DOMAIN w : w[i] \in Entries
    BY <2>2, GivenFacts, LenProperties, ElementOfSeq
  <2>4. ASSUME NEW i \in DOMAIN w, w[i].cmd # "f"
        PROVE  w[i].id < Given.num_ids
    <3>1. w[i].cmd \in {"a", "r"}
      BY <2>2, <2>3, <2>4 DEF Known, Entries
    <3>2. w[i].id \in Allocated(w)
      BY <3>1 DEF Allocated, ToSet
    <3> QED
      BY <2>2, <3>2
  <2> QED
    BY <2>1, <2>2, <2>4
<1> QED
  BY <1>1, TraceInvariantHolds, PTL

=============================================================================
