--------------------------- MODULE CacheSimProofs ---------------------------
(***************************************************************************)
(* What is proved of the cache simulator for every trace, shape of the     *)
(* caches and hash function.                                               *)
(***************************************************************************)
EXTENDS CacheSim, FiniteSetTheorems, SequenceTheorems, TLAPS

\* The naturals are well-founded, so Min is what its name says.
LEMMA Least ==
  ASSUME NEW S \in SUBSET Nat, S # {}
  PROVE  Min(S) \in S /\ \A y \in S : Min(S) <= y
<1> DEFINE R == OpToRel(<, Nat)
<1>1. IsWellFoundedOn(R, Nat)
  BY NatLessThanWellFounded
<1>2. \A x, y \in Nat : <<x, y>> \in R <=> x < y
  BY DEF OpToRel
<1> HIDE DEF R
<1>3. PICK x \in S : \A y \in S : ~(<<y, x>> \in R)
  BY <1>1, WFMin
<1>4. \A y \in S : x <= y
  <2> TAKE y \in S
  <2>1. x \in Nat /\ y \in Nat /\ ~(y < x)
    BY <1>2, <1>3
  <2> QED  BY <2>1
<1> QED  BY <1>4 DEF Min

LEMMA CapOf ==
  ASSUME NEW x \in Nat, PowersFrom(x) # {}
  PROVE  next_pow2(x) \in Nat /\ next_pow2(x) >= x
<1>1. PowersFrom(x) \in SUBSET Nat
  BY DEF PowersFrom
<1>2. next_pow2(x) \in PowersFrom(x)
  BY <1>1, Least DEF next_pow2
<1> QED  BY <1>2 DEF PowersFrom

-----------------------------------------------------------------------------
(* Dividing by a positive number, once for all that is divided here.       *)

LEMMA Divide ==
  ASSUME NEW a \in Nat, NEW n \in Nat \ {0}
  PROVE  /\ a \div n \in Nat /\ a % n \in 0 .. n - 1
         /\ a = (a \div n) * n + (a % n)
  OBVIOUS

\* The ways of two sets are different lines.
LEMMA OneSet ==
  ASSUME NEW n \in Nat \ {0}, NEW s \in Nat, NEW t \in Nat,
         NEW v \in 0 .. n - 1, NEW w \in 0 .. n - 1, s * n + v = t * n + w
  PROVE  s = t /\ v = w
<1>1. \A d, m \in Nat : m > d => m * n >= d * n + n
  OBVIOUS
<1>2. ~(s > t) /\ ~(t > s)
  BY <1>1
<1> QED  BY <1>2

LEMMA SmallRest ==
  ASSUME NEW n \in Nat \ {0}, NEW a \in Nat, a < n
  PROVE  a % n = a
<1>1. PICK q \in Nat, m \in 0 .. n - 1 : m = a % n /\ a = q * n + m
  BY Divide
<1>2. 0 * n + a = q * n + m /\ a \in 0 .. n - 1
  BY <1>1
<1>3. a = m
  BY <1>2, OneSet
<1> QED  BY <1>1, <1>3

-----------------------------------------------------------------------------
(* A cache: a use of a line puts it into a way of its set.                 *)

LineType == [valid : BOOLEAN, tag : Nat, last_used : 0 .. TimeWrap - 1]

Shaped(c) ==
  /\ c \in [sets : Nat \ {0}, ways : Nat \ {0}, lines : UNION {[0 .. n - 1 -> LineType] : n \in Nat}]
  /\ \A set \in 0 .. c.sets - 1 : Ways(c, set) \subseteq DOMAIN c.lines

Put(c, k, line_addr, time) ==
  [c EXCEPT !.lines = [@ EXCEPT ![k] =
     [valid |-> TRUE, tag |-> tag(c, line_addr), last_used |-> time % TimeWrap]]]

LEMMA ShapedLines ==
  ASSUME NEW c, Shaped(c)
  PROVE  /\ c.sets \in Nat \ {0} /\ c.ways \in Nat \ {0}
         /\ \E n \in Nat : c.lines \in [0 .. n - 1 -> LineType]
         /\ \A set \in 0 .. c.sets - 1 : \A k \in Ways(c, set) :
              k \in DOMAIN c.lines /\ k \in Nat /\ c.lines[k] \in LineType
<1>1. /\ c.sets \in Nat \ {0} /\ c.ways \in Nat \ {0}
      /\ \E n \in Nat : c.lines \in [0 .. n - 1 -> LineType]
  BY DEF Shaped
<1>2. \A set \in 0 .. c.sets - 1 : Ways(c, set) \subseteq DOMAIN c.lines
  BY DEF Shaped
<1>3. PICK n \in Nat : c.lines \in [0 .. n - 1 -> LineType]
  BY <1>1
<1>4. DOMAIN c.lines = 0 .. n - 1 /\ \A k \in DOMAIN c.lines : k \in Nat /\ c.lines[k] \in LineType
  BY <1>3
<1> QED  BY <1>1, <1>2, <1>4

LEMMA Split ==
  ASSUME NEW c, c.sets \in Nat \ {0}, NEW l \in Nat
  PROVE  /\ tag(c, l) \in Nat /\ set_idx(c, l) \in 0 .. c.sets - 1
         /\ tag(c, l) * c.sets + set_idx(c, l) = l
<1>1. PICK n \in Nat \ {0} : n = c.sets
  OBVIOUS
<1>2. l \div n \in Nat /\ l % n \in 0 .. n - 1 /\ l = (l \div n) * n + (l % n)
  BY Divide
<1> QED  BY <1>1, <1>2 DEF tag, set_idx

LEMMA SomeWay ==
  ASSUME NEW c, Shaped(c), NEW set \in 0 .. c.sets - 1
  PROVE  Ways(c, set) # {} /\ Ways(c, set) \in SUBSET Nat
<1>1. c.ways \in Nat \ {0} /\ c.sets \in Nat
  BY ShapedLines
<1>2. set * c.ways + 0 \in Ways(c, set)
  BY <1>1 DEF Ways
<1> QED  BY <1>2, ShapedLines

LEMMA OldestThere ==
  ASSUME NEW c, Shaped(c), NEW set \in 0 .. c.sets - 1
  PROVE  Oldest(c, set) # {}
<1> DEFINE times == {c.lines[k].last_used : k \in Ways(c, set)}
<1>1. \A k \in Ways(c, set) : c.lines[k].last_used \in Nat
  BY ShapedLines, CacheSimAssumption DEF LineType
<1>2. times \in SUBSET Nat /\ times # {}
  BY <1>1, SomeWay
<1>3. Min(times) \in times /\ \A t \in times : Min(times) <= t
  BY <1>2, Least
<1>4. PICK k \in Ways(c, set) : c.lines[k].last_used = Min(times)
  BY <1>3
<1>5. \A other \in Ways(c, set) : c.lines[other].last_used \in times
  OBVIOUS
<1> HIDE DEF times
<1>6. k \in Oldest(c, set)
  BY <1>3, <1>4, <1>5 DEF Oldest
<1> QED  BY <1>6

LEMMA Victim ==
  ASSUME NEW c, Shaped(c), NEW set \in 0 .. c.sets - 1
  PROVE  /\ victim(c, set) \in Ways(c, set)
         /\ \/ victim(c, set) \in Invalid(c, set)
            \/ Invalid(c, set) = {} /\ victim(c, set) \in Oldest(c, set)
<1>1. /\ Invalid(c, set) \in SUBSET Nat /\ Oldest(c, set) \in SUBSET Nat
      /\ Invalid(c, set) \subseteq Ways(c, set) /\ Oldest(c, set) \subseteq Ways(c, set)
  BY SomeWay DEF Invalid, Oldest
<1>2. CASE Invalid(c, set) # {}
  <2>1. Min(Invalid(c, set)) \in Invalid(c, set)
    BY <1>1, <1>2, Least
  <2> QED  BY <1>1, <1>2, <2>1 DEF victim
<1>3. CASE Invalid(c, set) = {}
  <2>1. Min(Oldest(c, set)) \in Oldest(c, set)
    BY <1>1, OldestThere, Least
  <2> QED  BY <1>1, <1>3, <2>1 DEF victim
<1> QED  BY <1>2, <1>3

LEMMA UsedPuts ==
  ASSUME NEW c, Shaped(c), NEW l \in Nat, NEW time \in Nat
  PROVE  \E k \in Ways(c, set_idx(c, l)) :
           /\ Used(c, l, time) = Put(c, k, l, time)
           /\ \/ k \in Holding(c, l)
              \/ ~Hit(c, l) /\ k \in Invalid(c, set_idx(c, l))
              \/ ~Hit(c, l) /\ Invalid(c, set_idx(c, l)) = {} /\ k \in Oldest(c, set_idx(c, l))
<1>1. c.sets \in Nat \ {0} /\ set_idx(c, l) \in 0 .. c.sets - 1
  BY ShapedLines, Split
<1>2. CASE Hit(c, l)
  <2>1. /\ Holding(c, l) \in SUBSET Nat /\ Holding(c, l) # {}
        /\ Holding(c, l) \subseteq Ways(c, set_idx(c, l))
    BY <1>1, <1>2, SomeWay DEF Hit, Holding
  <2>2. PICK k \in Holding(c, l) : k = Min(Holding(c, l))
    BY <2>1, Least
  <2>3. k \in DOMAIN c.lines /\ c.lines[k] \in LineType /\ c.lines[k].valid /\ c.lines[k].tag = tag(c, l)
    BY <1>1, <2>1, ShapedLines DEF Holding
  <2>4. PICK line \in LineType : line = c.lines[k]
    BY <2>3
  <2>5. [line EXCEPT !.last_used = time % TimeWrap] =
          [valid |-> TRUE, tag |-> tag(c, l), last_used |-> time % TimeWrap]
    <3>1. /\ line = [valid |-> line.valid, tag |-> line.tag, last_used |-> line.last_used]
          /\ line.valid = TRUE /\ line.tag = tag(c, l)
      BY <2>3, <2>4 DEF LineType
    <3>2. \A u : [line EXCEPT !.last_used = u] = [valid |-> line.valid, tag |-> line.tag, last_used |-> u]
      BY <3>1
    <3> QED  BY <3>1, <3>2
  <2>6. Used(c, l, time) = [c EXCEPT !.lines[k].last_used = time % TimeWrap]
    BY <1>2, <2>2, Zenon DEF Used
  <2>7. [c EXCEPT !.lines[k].last_used = time % TimeWrap]
          = [c EXCEPT !.lines = [@ EXCEPT ![k] = [line EXCEPT !.last_used = time % TimeWrap]]]
    BY <2>4
  <2> HIDE DEF Put, Used, Holding
  <2>8. Used(c, l, time) = Put(c, k, l, time)
    BY <2>5, <2>6, <2>7 DEF Put
  <2> QED  BY <2>1, <2>8
<1>3. CASE ~Hit(c, l)
  <2>1. Used(c, l, time) = Put(c, victim(c, set_idx(c, l)), l, time)
    BY <1>3 DEF Used, Put
  <2> QED  BY <1>1, <1>3, <2>1, Victim
<1> QED  BY <1>2, <1>3

LEMMA PutShaped ==
  ASSUME NEW c, Shaped(c), NEW l \in Nat, NEW time \in Nat,
         NEW k \in Ways(c, set_idx(c, l)), NEW d, d = Put(c, k, l, time)
  PROVE  /\ Shaped(d) /\ d.sets = c.sets /\ d.ways = c.ways
         /\ d.lines[k] = [valid |-> TRUE, tag |-> tag(c, l), last_used |-> time % TimeWrap]
         /\ \A other \in DOMAIN c.lines \ {k} : d.lines[other] = c.lines[other]
<1>1. PICK n \in Nat : c.lines \in [0 .. n - 1 -> LineType]
  BY ShapedLines
<1>2. c.sets \in Nat \ {0} /\ c.ways \in Nat \ {0} /\ set_idx(c, l) \in 0 .. c.sets - 1 /\ tag(c, l) \in Nat
  BY ShapedLines, Split
<1>3. k \in DOMAIN c.lines
  BY <1>2, ShapedLines
<1> DEFINE new == [valid |-> TRUE, tag |-> tag(c, l), last_used |-> time % TimeWrap]
<1>4. time % TimeWrap \in 0 .. TimeWrap - 1
  BY CacheSimAssumption, Divide
<1>5. new \in LineType
  BY <1>2, <1>4 DEF LineType
<1>6. c = [sets |-> c.sets, ways |-> c.ways, lines |-> c.lines]
  BY DEF Shaped
<1>7. d = [sets |-> c.sets, ways |-> c.ways, lines |-> [c.lines EXCEPT ![k] = new]]
  BY <1>6 DEF Put
<1> HIDE DEF new
<1>8. [c.lines EXCEPT ![k] = new] \in [0 .. n - 1 -> LineType]
  BY <1>1, <1>5
<1>9. d.sets = c.sets /\ d.ways = c.ways /\ d.lines = [c.lines EXCEPT ![k] = new]
  BY <1>7
<1>10. \A set : Ways(d, set) = Ways(c, set)
  BY <1>9 DEF Ways
<1>11. Shaped(d)
  BY <1>2, <1>7, <1>8, <1>9, <1>10 DEF Shaped
<1> QED  BY <1>3, <1>9, <1>11 DEF new

-----------------------------------------------------------------------------
(***************************************************************************)
(* What the time stamps keep of the lines read, r.  A way in use has the   *)
(* time its line was read last; no two ways of a set have the same line;   *)
(* and of a line that is gone, or never came, every way of its set has     *)
(* been used since.                                                        *)
(***************************************************************************)
Line(c, set, k) == c.lines[k].tag * c.sets + set

Stamped(c, r) ==
  \A set \in 0 .. c.sets - 1 : \A k \in Ways(c, set) : c.lines[k].valid =>
    /\ c.lines[k].last_used + 1 \in DOMAIN r
    /\ r[c.lines[k].last_used + 1] = Line(c, set, k)
    /\ \A j \in DOMAIN r : r[j] = Line(c, set, k) => j <= c.lines[k].last_used + 1

Single(c) ==
  \A set \in 0 .. c.sets - 1 : \A k, other \in Ways(c, set) :
    c.lines[k].valid /\ c.lines[other].valid /\ c.lines[k].tag = c.lines[other].tag => k = other

Gone(c, r) ==
  \A j \in DOMAIN r : ~Hit(c, r[j]) =>
    \A k \in Ways(c, set_idx(c, r[j])) : c.lines[k].valid /\ j <= c.lines[k].last_used

LRU(c, r) == Shaped(c) /\ Stamped(c, r) /\ Single(c) /\ Gone(c, r)

LEMMA WayOfOneSet ==
  ASSUME NEW c, Shaped(c), NEW set \in 0 .. c.sets - 1, NEW other \in 0 .. c.sets - 1,
         NEW k \in Ways(c, set), k \in Ways(c, other)
  PROVE  set = other
<1>1. PICK n \in Nat \ {0} : n = c.ways
  BY ShapedLines
<1>2. PICK v \in 0 .. n - 1 : k = set * n + v
  BY <1>1 DEF Ways
<1>3. PICK w \in 0 .. n - 1 : k = other * n + w
  BY <1>1 DEF Ways
<1>4. set \in Nat /\ other \in Nat
  BY ShapedLines
<1> QED  BY <1>2, <1>3, <1>4, OneSet

\* A line is its tag and its set.
LEMMA TagAndSet ==
  ASSUME NEW c, c.sets \in Nat \ {0}, NEW l \in Nat, NEW t \in Nat, NEW set \in 0 .. c.sets - 1
  PROVE  t * c.sets + set = l <=> t = tag(c, l) /\ set = set_idx(c, l)
<1>1. PICK n \in Nat \ {0} : n = c.sets
  OBVIOUS
<1>2. tag(c, l) \in Nat /\ set_idx(c, l) \in 0 .. n - 1 /\ tag(c, l) * n + set_idx(c, l) = l
  BY <1>1, Split
<1>3. PICK u \in Nat, v \in 0 .. n - 1 : u = tag(c, l) /\ v = set_idx(c, l)
  BY <1>2
<1>4. set \in 0 .. n - 1 /\ u * n + v = l
  BY <1>1, <1>2, <1>3
<1>5. t * n + set = u * n + v => t = u /\ set = v
  BY <1>4, OneSet
<1> QED  BY <1>1, <1>3, <1>4, <1>5

LEMMA HeldLine ==
  ASSUME NEW c, Shaped(c), NEW l \in Nat, NEW set \in 0 .. c.sets - 1, NEW k \in Ways(c, set),
         c.lines[k].valid
  PROVE  /\ Line(c, set, k) = l <=> k \in Holding(c, l)
         /\ Line(c, set, k) \in Nat
<1>1. c.sets \in Nat \ {0} /\ c.lines[k].tag \in Nat
  BY ShapedLines DEF LineType
<1>2. Line(c, set, k) = l <=> c.lines[k].tag = tag(c, l) /\ set = set_idx(c, l)
  BY <1>1, TagAndSet DEF Line
<1>3. k \in Ways(c, set_idx(c, l)) => set = set_idx(c, l)
  BY <1>1, Split, WayOfOneSet
<1>4. PICK n \in Nat, t \in Nat : n = c.sets /\ t = c.lines[k].tag
  BY <1>1
<1>5. t * n + set \in Nat
  OBVIOUS
<1> QED  BY <1>2, <1>3, <1>4, <1>5 DEF Holding, Line

\* The step of a use: r becomes e, c becomes d, k is the way of the line.
LEMMA UseKeeps ==
  ASSUME NEW c, NEW r \in Seq(Nat), LRU(c, r), Len(r) < TimeWrap, NEW l \in Nat,
         NEW d, d = Used(c, l, Len(r)), NEW e, e = Append(r, l)
  PROVE  LRU(d, e) /\ d.sets = c.sets /\ d.ways = c.ways
<1> DEFINE s == set_idx(c, l)
           t == Len(r)
<1>1. Shaped(c) /\ c.sets \in Nat \ {0} /\ s \in 0 .. c.sets - 1 /\ tag(c, l) \in Nat /\ t \in Nat
  <2>1. Shaped(c) /\ t \in Nat
    BY DEF LRU
  <2>2. c.sets \in Nat \ {0}
    BY <2>1, ShapedLines
  <2> QED  BY <2>1, <2>2, Split
<1>2. t % TimeWrap = t
  BY <1>1, CacheSimAssumption, SmallRest
<1>3. PICK k \in Ways(c, s) :
        /\ d = Put(c, k, l, t)
        /\ \/ k \in Holding(c, l)
           \/ ~Hit(c, l) /\ k \in Invalid(c, s)
           \/ ~Hit(c, l) /\ Invalid(c, s) = {} /\ k \in Oldest(c, s)
  BY <1>1, UsedPuts
<1>4. /\ Shaped(d) /\ d.sets = c.sets /\ d.ways = c.ways
      /\ d.lines[k] = [valid |-> TRUE, tag |-> tag(c, l), last_used |-> t]
      /\ \A other \in DOMAIN c.lines \ {k} : d.lines[other] = c.lines[other]
  BY <1>1, <1>2, <1>3, PutShaped
<1>5. \A set : Ways(d, set) = Ways(c, set)
  BY <1>4 DEF Ways
<1>6. \A set \in 0 .. c.sets - 1 : \A o \in Ways(c, set) :
        /\ o # k => d.lines[o] = c.lines[o] /\ Line(d, set, o) = Line(c, set, o)
        /\ o = k => set = s /\ Line(d, set, o) = l
  <2> SUFFICES ASSUME NEW set \in 0 .. c.sets - 1, NEW o \in Ways(c, set)
               PROVE  /\ o # k => d.lines[o] = c.lines[o] /\ Line(d, set, o) = Line(c, set, o)
                      /\ o = k => set = s /\ Line(d, set, o) = l
    OBVIOUS
  <2>1. ASSUME o # k  PROVE d.lines[o] = c.lines[o] /\ Line(d, set, o) = Line(c, set, o)
    BY <1>1, <1>4, <2>1, ShapedLines DEF Line
  <2>2. ASSUME o = k  PROVE set = s /\ Line(d, set, o) = l
    <3>1. set = s
      BY <1>1, <1>3, <2>2, WayOfOneSet
    <3>2. d.lines[o].tag = tag(c, l) /\ d.sets = c.sets
      BY <1>4, <2>2
    <3> QED  BY <1>1, <3>1, <3>2, Split DEF Line
  <2> QED  BY <2>1, <2>2
<1>7. /\ DOMAIN r = 1 .. t /\ DOMAIN e = 1 .. t + 1
      /\ e[t + 1] = l /\ \A j \in DOMAIN r : e[j] = r[j] /\ r[j] \in Nat /\ j \in DOMAIN e
  OBVIOUS
<1>8. \A set \in 0 .. c.sets - 1 : \A o \in Ways(c, set) :
        c.lines[o].valid /\ o # k => Line(c, set, o) # l
  <2> SUFFICES ASSUME NEW set \in 0 .. c.sets - 1, NEW o \in Ways(c, set),
                      c.lines[o].valid, Line(c, set, o) = l
               PROVE  o = k
    OBVIOUS
  <2>1. o \in Holding(c, l)
    BY <1>1, HeldLine
  <2>2. k \in Holding(c, l) /\ Hit(c, l)
    BY <1>3, <2>1 DEF Hit
  <2> QED  BY <1>1, <2>1, <2>2 DEF Holding, LRU, Single
<1> HIDE DEF s, t
<1>9. Stamped(d, e)
  <2> SUFFICES ASSUME NEW set \in 0 .. c.sets - 1, NEW o \in Ways(c, set), d.lines[o].valid
               PROVE  /\ d.lines[o].last_used + 1 \in DOMAIN e
                      /\ e[d.lines[o].last_used + 1] = Line(d, set, o)
                      /\ \A j \in DOMAIN e : e[j] = Line(d, set, o) => j <= d.lines[o].last_used + 1
    BY <1>4, <1>5 DEF Stamped
  <2>1. CASE o = k
    <3>1. d.lines[o].last_used = t /\ Line(d, set, o) = l
      BY <1>4, <1>6, <2>1
    <3> QED  BY <1>1, <1>7, <3>1
  <2>2. CASE o # k
    <3>1. d.lines[o] = c.lines[o] /\ Line(d, set, o) = Line(c, set, o) /\ Line(c, set, o) # l
      BY <1>6, <1>8, <2>2
    <3>2. /\ c.lines[o].last_used + 1 \in DOMAIN r
          /\ r[c.lines[o].last_used + 1] = Line(c, set, o)
          /\ \A j \in DOMAIN r : r[j] = Line(c, set, o) => j <= c.lines[o].last_used + 1
      BY <3>1 DEF LRU, Stamped
    <3>3. PICK u \in DOMAIN r : u = c.lines[o].last_used + 1
      BY <3>2
    <3>4. u \in DOMAIN e /\ e[u] = Line(c, set, o)
      BY <1>7, <3>2, <3>3
    <3>5. ASSUME NEW j \in DOMAIN e, e[j] = Line(c, set, o)  PROVE j <= u
      <4>1. j \in DOMAIN r /\ r[j] = e[j]
        BY <1>1, <1>7, <3>1, <3>5
      <4> QED  BY <3>2, <3>3, <3>5, <4>1
    <3> QED  BY <3>1, <3>3, <3>4, <3>5
  <2> QED  BY <2>1, <2>2
<1>10. Single(d)
  <2> SUFFICES ASSUME NEW set \in 0 .. c.sets - 1, NEW o \in Ways(c, set), NEW p \in Ways(c, set),
                      d.lines[o].valid, d.lines[p].valid, d.lines[o].tag = d.lines[p].tag,
                      o # p
               PROVE  FALSE
    BY <1>4, <1>5 DEF Single
  <2>1. \A q \in {o, p} : q # k => d.lines[q] = c.lines[q] /\ Line(c, set, q) # l
    BY <1>6, <1>8
  <2>2. Line(d, set, o) = Line(d, set, p)
    BY DEF Line
  <2>3. \A q \in {o, p} : q # k => Line(d, set, q) # l
    BY <1>6, <2>1
  <2>4. o # k /\ p # k
    BY <1>6, <2>2, <2>3
  <2> QED  BY <2>1, <2>4 DEF LRU, Single
<1>11. Gone(d, e)
  <2> SUFFICES ASSUME NEW j \in DOMAIN e, ~Hit(d, e[j]),
                      NEW o \in Ways(c, set_idx(c, e[j]))
               PROVE  d.lines[o].valid /\ j <= d.lines[o].last_used
    BY <1>4, <1>5 DEF Gone, set_idx
  <2>1. \A m \in Nat : Holding(d, m) =
          {q \in Ways(c, set_idx(c, m)) : d.lines[q].valid /\ d.lines[q].tag = tag(c, m)}
    BY <1>4, <1>5 DEF Holding, set_idx, tag
  <2>2. k \in Holding(d, l)
    BY <1>3, <1>4, <2>1 DEF s
  <2>3. e[j] # l
    BY <2>2 DEF Hit
  <2>4. j \in DOMAIN r /\ e[j] = r[j] /\ j <= t /\ j \in Nat
    BY <1>1, <1>7, <2>3
  <2>5. PICK m \in Nat : m = r[j]
    BY <1>7, <2>4
  <2>6. PICK set \in 0 .. c.sets - 1 : set = set_idx(c, m)
    BY <1>1, Split
  <2>7. o \in Ways(c, set) /\ c.lines[o] \in LineType /\ c.lines[k] \in LineType
    BY <1>1, <1>3, <2>4, <2>5, <2>6, ShapedLines
  <2>8. o = k \/ d.lines[o] = c.lines[o]
    BY <1>6, <2>7
  <2>9. CASE ~Hit(c, m)
    BY <1>4, <2>4, <2>5, <2>6, <2>7, <2>8, <2>9 DEF LRU, Gone
  <2>10. CASE Hit(c, m)
    <3>1. PICK h \in Holding(c, m) : TRUE
      BY <2>10 DEF Hit
    <3>2. h \in Ways(c, set) /\ c.lines[h].valid /\ c.lines[h].tag = tag(c, m)
      BY <2>6, <3>1 DEF Holding
    <3>3. h = k
      <4>1. h # k => h \in Holding(d, m)
        BY <1>6, <2>1, <2>6, <3>2
      <4> QED  BY <2>4, <2>5, <4>1 DEF Hit
    <3>4. Line(c, set, k) = m /\ set = s
      BY <1>1, <1>3, <3>1, <3>2, <3>3, HeldLine, WayOfOneSet
    <3>5. Invalid(c, s) = {} /\ k \in Oldest(c, s)
      <4>1. k \notin Holding(c, l)
        BY <1>1, <2>3, <2>4, <2>5, <3>2, <3>3, <3>4, HeldLine
      <4>2. k \notin Invalid(c, s)
        BY <3>2, <3>3 DEF Invalid
      <4> QED  BY <1>3, <4>1, <4>2
    <3>6. c.lines[o].valid /\ c.lines[k].last_used <= c.lines[o].last_used
      BY <2>7, <3>4, <3>5 DEF Invalid, Oldest
    <3>7. PICK u \in Nat, v \in Nat : u = c.lines[k].last_used /\ v = c.lines[o].last_used
      <4>1. \A x \in LineType : x.last_used \in Nat
        BY CacheSimAssumption DEF LineType
      <4> QED  BY <2>7, <4>1
    <3>8. j <= u + 1 /\ r[u + 1] = m
      BY <2>4, <2>5, <3>2, <3>3, <3>4, <3>7 DEF LRU, Stamped
    <3>9. r[v + 1] = Line(c, set, o)
      BY <2>7, <3>6, <3>7 DEF LRU, Stamped
    <3>10. o # k => u # v
      <4> SUFFICES ASSUME u = v  PROVE o = k
        OBVIOUS
      <4>1. Line(c, set, o) = m
        BY <3>8, <3>9
      <4>2. o \in Holding(c, m)
        BY <1>1, <2>7, <3>6, <4>1, HeldLine
      <4> QED  BY <2>6, <3>1, <3>2, <3>3, <4>2 DEF LRU, Single, Holding
    <3>11. CASE o = k
      BY <1>4, <2>4, <3>11
    <3>12. CASE o # k
      <4>1. u <= v /\ u # v
        BY <3>6, <3>7, <3>10, <3>12
      <4>2. j <= v
        BY <2>4, <3>8, <4>1
      <4> QED  BY <2>8, <3>6, <3>7, <3>12, <4>2
    <3> QED  BY <3>11, <3>12
  <2> QED  BY <2>9, <2>10
<1> QED  BY <1>4, <1>9, <1>10, <1>11 DEF LRU

\* The lines of a set used since a line was: MissClasses!UsedSince.
Since(r, l, n) ==
  {r[j] : j \in {j \in DOMAIN r : r[j] % n = l % n /\ \A i \in DOMAIN r : r[i] = l => i < j}}

Has(r, l) == \E j \in DOMAIN r : r[j] = l

LEMMA SinceFinite ==
  ASSUME NEW r \in Seq(Nat), NEW l, NEW n
  PROVE  IsFiniteSet(Since(r, l, n)) /\ Cardinality(Since(r, l, n)) \in Nat
<1> DEFINE late == {j \in DOMAIN r : r[j] % n = l % n /\ \A i \in DOMAIN r : r[i] = l => i < j}
           f == [j \in late |-> r[j]]
<1>1. DOMAIN r = 1 .. Len(r) /\ Len(r) \in Nat
  OBVIOUS
<1>2. IsFiniteSet(late)
  <2>1. IsFiniteSet(1 .. Len(r))
    BY <1>1, FS_Interval
  <2>2. late \in SUBSET (1 .. Len(r))
    BY <1>1
  <2> QED  BY <2>1, <2>2, FS_Subset
<1>3. f \in Surjection(late, Since(r, l, n))
  BY DEF Surjection, Since
<1> HIDE DEF late, f
<1>4. IsFiniteSet(Since(r, l, n))
  BY <1>2, <1>3, FS_Surjection
<1> QED  BY <1>4, FS_CardinalityType

\* A line that hits was read, and fewer of its set were used since than it has
\* ways: those are held beside it.
LEMMA HitIsRecent ==
  ASSUME NEW c, NEW r \in Seq(Nat), LRU(c, r), NEW l \in Nat, Hit(c, l)
  PROVE  Has(r, l) /\ Cardinality(Since(r, l, c.sets)) < c.ways
<1>1. Shaped(c) /\ c.sets \in Nat \ {0} /\ c.ways \in Nat \ {0}
  BY ShapedLines DEF LRU
<1>2. PICK n \in Nat \ {0}, s \in 0 .. c.sets - 1 : n = c.ways /\ s = set_idx(c, l)
  BY <1>1, Split
<1>3. PICK k \in Holding(c, l) : TRUE
  BY DEF Hit
<1>4. k \in Ways(c, s) /\ c.lines[k].valid /\ Line(c, s, k) = l
  BY <1>1, <1>2, <1>3, HeldLine DEF Holding
<1>5. PICK w \in 0 .. n - 1 : k = s * n + w
  BY <1>2, <1>4 DEF Ways
<1>6. PICK u \in DOMAIN r : u = c.lines[k].last_used + 1 /\ r[u] = l
  BY <1>4 DEF LRU, Stamped
<1> DEFINE others == (0 .. n - 1) \ {w}
           f == [v \in others |-> Line(c, s, s * n + v)]
           image == {f[v] : v \in others}
<1>7. Since(r, l, c.sets) \subseteq image
  <2> SUFFICES ASSUME NEW j \in DOMAIN r, r[j] % c.sets = l % c.sets,
                      \A i \in DOMAIN r : r[i] = l => i < j
               PROVE  r[j] \in image
    BY DEF Since
  <2>1. PICK m \in Nat : m = r[j]
    OBVIOUS
  <2>2. set_idx(c, m) = s /\ m # l /\ u < j
    BY <1>2, <1>6, <2>1 DEF set_idx
  <2>3. Hit(c, m)
    <3>1. SUFFICES ASSUME ~Hit(c, m)  PROVE FALSE
      OBVIOUS
    <3>2. j <= c.lines[k].last_used /\ c.lines[k] \in LineType
      BY <1>1, <1>4, <2>1, <2>2, <3>1, ShapedLines DEF LRU, Gone
    <3>3. PICK x \in Nat : x = c.lines[k].last_used
      BY <3>2, CacheSimAssumption DEF LineType
    <3> QED  BY <1>6, <2>2, <3>2, <3>3
  <2>4. PICK o \in Holding(c, m) : TRUE
    BY <2>3 DEF Hit
  <2>5. o \in Ways(c, s) /\ c.lines[o].valid /\ Line(c, s, o) = m
    BY <1>1, <2>2, <2>4, HeldLine DEF Holding
  <2>6. PICK v \in 0 .. n - 1 : o = s * n + v
    BY <1>2, <2>5 DEF Ways
  <2>7. v \in others /\ f[v] = m
    BY <1>4, <1>5, <2>2, <2>5, <2>6
  <2> QED  BY <2>1, <2>7
<1>8. Cardinality(Since(r, l, c.sets)) <= n - 1
  <2>1. IsFiniteSet(0 .. n - 1) /\ Cardinality(0 .. n - 1) = n
    BY FS_Interval
  <2>2. IsFiniteSet(others) /\ Cardinality(others) = n - 1
    <3>1. PICK whole : whole = 0 .. n - 1
      OBVIOUS
    <3>2. /\ IsFiniteSet(whole \ {w})
          /\ Cardinality(whole \ {w}) = IF w \in whole THEN Cardinality(whole) - 1 ELSE Cardinality(whole)
      BY <2>1, <3>1, FS_RemoveElement
    <3> QED  BY <1>5, <2>1, <3>1, <3>2
  <2>3. f \in Surjection(others, image)
    BY DEF Surjection
  <2> HIDE DEF f, image, others
  <2>4. IsFiniteSet(image) /\ Cardinality(image) <= n - 1
    BY <2>2, <2>3, FS_Surjection
  <2>5. Cardinality(Since(r, l, c.sets)) <= Cardinality(image)
    BY <1>7, <2>4, FS_Subset
  <2>6. Cardinality(Since(r, l, c.sets)) \in Nat /\ Cardinality(image) \in Nat
    BY <2>4, SinceFinite, FS_CardinalityType
  <2> QED  BY <2>4, <2>5, <2>6
<1>9. Has(r, l)
  BY <1>6 DEF Has
<1>10. Cardinality(Since(r, l, c.sets)) \in Nat
  BY SinceFinite
<1> QED  BY <1>2, <1>8, <1>9, <1>10

\* A line that was read and misses has given way to a line in every way of its
\* set, each used since.
LEMMA MissIsStale ==
  ASSUME NEW c, NEW r \in Seq(Nat), LRU(c, r), NEW l \in Nat, ~Hit(c, l), Has(r, l)
  PROVE  ~(Cardinality(Since(r, l, c.sets)) < c.ways)
<1>1. Shaped(c) /\ c.sets \in Nat \ {0} /\ c.ways \in Nat \ {0}
  BY ShapedLines DEF LRU
<1>2. PICK n \in Nat \ {0}, s \in 0 .. c.sets - 1 : n = c.ways /\ s = set_idx(c, l)
  BY <1>1, Split
<1> DEFINE f == [v \in 0 .. n - 1 |-> Line(c, s, s * n + v)]
<1>3. \A v \in 0 .. n - 1 : s * n + v \in Ways(c, s)
  BY <1>2 DEF Ways
<1>4. \A k \in Ways(c, s) :
        /\ c.lines[k].valid
        /\ \A j \in DOMAIN r : r[j] = l => j <= c.lines[k].last_used
  <2>1. PICK i \in DOMAIN r : r[i] = l
    BY DEF Has
  <2>2. \A j \in DOMAIN r : r[j] = l => set_idx(c, r[j]) = s /\ ~Hit(c, r[j])
    BY <1>2
  <2> QED  BY <2>1, <2>2 DEF LRU, Gone
<1>5. \A k \in Ways(c, s) : Line(c, s, k) \in Since(r, l, c.sets)
  <2> SUFFICES ASSUME NEW k \in Ways(c, s)
               PROVE  Line(c, s, k) \in Since(r, l, c.sets)
    OBVIOUS
  <2>1. c.lines[k] \in LineType
    BY <1>1, ShapedLines
  <2>2. PICK x \in Nat : x = c.lines[k].last_used
    BY <2>1, CacheSimAssumption DEF LineType
  <2>3. x + 1 \in DOMAIN r /\ r[x + 1] = Line(c, s, k)
    BY <1>4, <2>2 DEF LRU, Stamped
  <2>4. \A i \in DOMAIN r : r[i] = l => i < x + 1
    BY <1>4, <2>2
  <2>5. Line(c, s, k) \in Nat /\ k \in Holding(c, Line(c, s, k))
    BY <1>1, <1>4, HeldLine
  <2>6. set_idx(c, Line(c, s, k)) = s
    BY <1>1, <2>5, Split, WayOfOneSet DEF Holding
  <2>7. r[x + 1] % c.sets = l % c.sets
    BY <1>2, <2>3, <2>6 DEF set_idx
  <2> QED  BY <2>3, <2>4, <2>7 DEF Since
<1>6. f \in Injection(0 .. n - 1, Since(r, l, c.sets))
  <2>1. f \in [0 .. n - 1 -> Since(r, l, c.sets)]
    BY <1>3, <1>5
  <2>2. ASSUME NEW v \in 0 .. n - 1, NEW w \in 0 .. n - 1, f[v] = f[w]
        PROVE  v = w
    <3>1. PICK k \in Ways(c, s), o \in Ways(c, s) : k = s * n + v /\ o = s * n + w
      BY <1>3
    <3>2. Line(c, s, k) = Line(c, s, o)
      BY <2>2, <3>1
    <3>3. PICK m \in Nat : m = Line(c, s, k)
      BY <1>1, <1>4, HeldLine
    <3>4. k \in Holding(c, m) /\ o \in Holding(c, m)
      BY <1>1, <1>4, <3>2, <3>3, HeldLine
    <3>5. k = o
      BY <3>4 DEF LRU, Single, Holding
    <3>6. s \in Nat
      BY <1>1
    <3> QED  BY <3>1, <3>5, <3>6, OneSet
  <2> HIDE DEF f
  <2> QED  BY <2>1, <2>2 DEF Injection, IsInjective
<1> HIDE DEF f
<1>7. Cardinality(0 .. n - 1) = n
  BY FS_Interval
<1>8. IsFiniteSet(Since(r, l, c.sets)) /\ Cardinality(Since(r, l, c.sets)) \in Nat
  BY SinceFinite
<1>9. n <= Cardinality(Since(r, l, c.sets))
  BY <1>6, <1>7, <1>8, FS_Injection
<1> QED  BY <1>2, <1>8, <1>9

-----------------------------------------------------------------------------
(***************************************************************************)
(* The table.  A key in it is reached over slots in use, so a free slot on *)
(* its way says that it is not there.                                      *)
(***************************************************************************)
UsedSlots(s) == {k \in DOMAIN s.used : s.used[k]}

Keys(s) == {s.keys[i] : i \in UsedSlots(s)}

TableOK(s) ==
  /\ s = [cap |-> s.cap, len |-> s.len, used |-> s.used, keys |-> s.keys]
  /\ s.cap \in Nat \ {0} /\ s.len \in Nat
  /\ s.used \in [0 .. s.cap - 1 -> BOOLEAN] /\ s.keys \in [0 .. s.cap - 1 -> Nat]
  /\ \A i \in UsedSlots(s) : Hash[s.keys[i]] \in Nat

Chained(s) ==
  \A i \in UsedSlots(s) : \E k \in 0 .. s.cap - 1 :
    /\ Slot(s, s.keys[i], k) = i
    /\ \A before \in 0 .. k - 1 : s.used[Slot(s, s.keys[i], before)]

HasFree(s) == \E i \in 0 .. s.cap - 1 : ~s.used[i]

LEMMA SlotsAreAll ==
  ASSUME NEW s, s.cap \in Nat \ {0}, NEW key, Hash[key] \in Nat
  PROVE  /\ \A k \in 0 .. s.cap - 1 : Slot(s, key, k) \in 0 .. s.cap - 1
         /\ \A i \in 0 .. s.cap - 1 : \E k \in 0 .. s.cap - 1 : Slot(s, key, k) = i
<1>1. PICK n \in Nat \ {0}, a \in Nat : n = s.cap /\ a = Hash[key]
  OBVIOUS
<1>2. PICK h \in 0 .. n - 1 : h = a % n
  BY Divide
<1>3. \A k : Slot(s, key, k) = IF h + k < n THEN h + k ELSE (h + k) - n
  BY <1>1, <1>2 DEF Slot
<1>4. \A k \in 0 .. n - 1 : Slot(s, key, k) \in 0 .. n - 1
  BY <1>3
<1>5. ASSUME NEW i \in 0 .. n - 1
      PROVE  \E k \in 0 .. n - 1 : Slot(s, key, k) = i
  <2>1. CASE h <= i
    <3>1. i - h \in 0 .. n - 1 /\ Slot(s, key, i - h) = i
      BY <1>3, <2>1
    <3> QED  BY <3>1
  <2>2. CASE i < h
    <3>1. (i + n) - h \in 0 .. n - 1 /\ Slot(s, key, (i + n) - h) = i
      BY <1>3, <2>2
    <3> QED  BY <3>1
  <2> QED  BY <2>1, <2>2
<1> QED  BY <1>1, <1>4, <1>5

LEMMA Probe ==
  ASSUME NEW s, TableOK(s), HasFree(s), NEW key, Hash[key] \in Nat
  PROVE  \E k \in 0 .. s.cap - 1 :
           /\ Found(s, key) = Slot(s, key, k)
           /\ Stops(s, key, Slot(s, key, k))
           /\ \A before \in 0 .. k - 1 : ~Stops(s, key, Slot(s, key, before))
<1> DEFINE stops == {k \in 0 .. s.cap - 1 : Stops(s, key, Slot(s, key, k))}
<1>1. s.cap \in Nat \ {0}
  BY DEF TableOK
<1>2. PICK i \in 0 .. s.cap - 1 : ~s.used[i]
  BY DEF HasFree
<1>3. PICK free \in 0 .. s.cap - 1 : Slot(s, key, free) = i
  BY <1>1, SlotsAreAll
<1>4. free \in stops
  BY <1>2, <1>3 DEF Stops
<1>5. stops \in SUBSET Nat
  BY <1>1
<1>6. Min(stops) \in stops /\ \A k \in stops : Min(stops) <= k
  BY <1>4, <1>5, Least
<1>7. Found(s, key) = Slot(s, key, Min(stops))
  BY DEF Found
<1>8. PICK k \in stops : k = Min(stops)
  BY <1>6
<1>9. k \in 0 .. s.cap - 1 /\ Stops(s, key, Slot(s, key, k)) /\ \A other \in stops : k <= other
  BY <1>6, <1>8
<1>10. ASSUME NEW before \in 0 .. k - 1  PROVE ~Stops(s, key, Slot(s, key, before))
  <2>1. before \in 0 .. s.cap - 1 /\ ~(k <= before)
    BY <1>1, <1>9
  <2> QED  BY <1>9, <2>1
<1> QED  BY <1>7, <1>8, <1>9, <1>10

LEMMA NewIsUnseen ==
  ASSUME NEW s, TableOK(s), HasFree(s), Chained(s), NEW key, Hash[key] \in Nat
  PROVE  IsNew(s, key) <=> key \notin Keys(s)
<1>1. s.cap \in Nat \ {0} /\ DOMAIN s.used = 0 .. s.cap - 1
  BY DEF TableOK
<1>2. PICK k \in 0 .. s.cap - 1 :
        /\ Found(s, key) = Slot(s, key, k)
        /\ Stops(s, key, Slot(s, key, k))
        /\ \A before \in 0 .. k - 1 : ~Stops(s, key, Slot(s, key, before))
  BY Probe
<1>3. Found(s, key) \in 0 .. s.cap - 1
  BY <1>1, <1>2, SlotsAreAll
<1>4. ~IsNew(s, key) => key \in Keys(s)
  BY <1>1, <1>2, <1>3 DEF IsNew, Stops, Keys, UsedSlots
<1>5. ASSUME key \in Keys(s)  PROVE ~IsNew(s, key)
  <2>1. PICK i \in UsedSlots(s) : s.keys[i] = key
    BY <1>5 DEF Keys
  <2>2. PICK e \in 0 .. s.cap - 1 :
          Slot(s, key, e) = i /\ \A before \in 0 .. e - 1 : s.used[Slot(s, key, before)]
    BY <2>1 DEF Chained
  <2>3. s.used[i] /\ Stops(s, key, i)
    BY <2>1 DEF UsedSlots, Stops
  <2>4. ~(e < k)
    BY <1>1, <1>2, <2>2, <2>3
  <2>5. CASE k = e
    BY <1>2, <2>2, <2>3, <2>5 DEF IsNew
  <2>6. CASE k < e
    <3>1. k \in 0 .. e - 1
      BY <1>1, <2>6
    <3> QED  BY <1>2, <2>2, <3>1 DEF IsNew
  <2> QED  BY <1>1, <2>4, <2>5, <2>6
<1> QED  BY <1>4, <1>5

\* s becomes d: the key is in, in at most one more slot.
Inserted(s, key, d) ==
  /\ TableOK(d) /\ Chained(d) /\ d.cap = s.cap
  /\ Keys(d) = Keys(s) \cup {key}
  /\ \E f : UsedSlots(d) = UsedSlots(s) \cup {f}

LEMMA InsertKeeps ==
  ASSUME NEW s, TableOK(s), HasFree(s), Chained(s), NEW key \in Nat, Hash[key] \in Nat,
         NEW d, d = seenset_insert_if_new(s, key)
  PROVE  Inserted(s, key, d)
<1>1. s.cap \in Nat \ {0} /\ DOMAIN s.used = 0 .. s.cap - 1 /\ DOMAIN s.keys = 0 .. s.cap - 1
  BY DEF TableOK
<1>2. PICK k \in 0 .. s.cap - 1 :
        /\ Found(s, key) = Slot(s, key, k)
        /\ Stops(s, key, Slot(s, key, k))
        /\ \A before \in 0 .. k - 1 : ~Stops(s, key, Slot(s, key, before))
  BY Probe
<1>3. PICK f \in 0 .. s.cap - 1 : f = Found(s, key)
  BY <1>1, <1>2, SlotsAreAll
<1>4. CASE ~IsNew(s, key)
  <2>1. d = s /\ key \in Keys(s)
    BY <1>4, NewIsUnseen DEF seenset_insert_if_new
  <2>2. f \in UsedSlots(s)
    BY <1>1, <1>3, <1>4 DEF IsNew, UsedSlots
  <2> QED  BY <2>1, <2>2 DEF Inserted
<1>5. CASE IsNew(s, key)
  <2>1. ~s.used[f] /\ f \notin UsedSlots(s)
    BY <1>3, <1>5 DEF IsNew, UsedSlots
  <2>2. d = [s EXCEPT !.used[f] = TRUE, !.keys[f] = key, !.len = @ + 1]
    BY <1>3, <1>5, Zenon DEF seenset_insert_if_new
  <2>3. /\ d = [cap |-> s.cap, len |-> s.len + 1, used |-> [s.used EXCEPT ![f] = TRUE],
                keys |-> [s.keys EXCEPT ![f] = key]]
    <3>1. s = [cap |-> s.cap, len |-> s.len, used |-> s.used, keys |-> s.keys]
      BY DEF TableOK
    <3> QED  BY <2>2, <3>1
  <2>4. /\ d.cap = s.cap /\ d.len = s.len + 1
        /\ d.used = [s.used EXCEPT ![f] = TRUE] /\ d.keys = [s.keys EXCEPT ![f] = key]
    BY <2>3
  <2>5. /\ d.used \in [0 .. s.cap - 1 -> BOOLEAN] /\ d.keys \in [0 .. s.cap - 1 -> Nat]
        /\ d.used[f] /\ d.keys[f] = key
        /\ \A i \in 0 .. s.cap - 1 : i # f => d.used[i] = s.used[i] /\ d.keys[i] = s.keys[i]
    BY <2>4 DEF TableOK
  <2>6. UsedSlots(d) = UsedSlots(s) \cup {f}
    BY <1>1, <2>5 DEF UsedSlots
  <2>7. \A i \in UsedSlots(s) : i # f /\ d.keys[i] = s.keys[i]
    BY <1>1, <2>1, <2>5 DEF UsedSlots
  <2>8. Keys(d) = Keys(s) \cup {key}
    BY <2>5, <2>6, <2>7 DEF Keys
  <2>9. TableOK(d)
    <3>1. \A i \in UsedSlots(d) : Hash[d.keys[i]] \in Nat
      BY <2>5, <2>6, <2>7 DEF TableOK
    <3>2. s.len + 1 \in Nat
      BY DEF TableOK
    <3> QED  BY <1>1, <2>3, <2>4, <2>5, <3>1, <3>2 DEF TableOK
  <2>10. \A other, e : Slot(d, other, e) = Slot(s, other, e)
    BY <2>4 DEF Slot
  <2>11. Chained(d)
    <3> SUFFICES ASSUME NEW i \in UsedSlots(d)
                 PROVE  \E e \in 0 .. s.cap - 1 :
                          /\ Slot(s, d.keys[i], e) = i
                          /\ \A before \in 0 .. e - 1 : d.used[Slot(s, d.keys[i], before)]
      BY <2>4, <2>10 DEF Chained
    <3>1. CASE i = f
      <4>1. ASSUME NEW before \in 0 .. k - 1
            PROVE  d.used[Slot(s, key, before)]
        <5>1. before \in 0 .. s.cap - 1
          BY <1>1
        <5>2. Slot(s, key, before) \in 0 .. s.cap - 1
          BY <1>1, <5>1, SlotsAreAll
        <5>3. s.used[Slot(s, key, before)]
          BY <1>2 DEF Stops
        <5> QED  BY <2>5, <5>2, <5>3
      <4> QED  BY <1>2, <1>3, <2>5, <3>1, <4>1
    <3>2. CASE i # f
      <4>1. i \in UsedSlots(s) /\ d.keys[i] = s.keys[i] /\ Hash[s.keys[i]] \in Nat
        BY <2>6, <2>7, <3>2 DEF TableOK
      <4>2. PICK e \in 0 .. s.cap - 1 :
              /\ Slot(s, s.keys[i], e) = i
              /\ \A before \in 0 .. e - 1 : s.used[Slot(s, s.keys[i], before)]
        BY <4>1 DEF Chained
      <4>3. ASSUME NEW before \in 0 .. e - 1
            PROVE  d.used[Slot(s, s.keys[i], before)]
        <5>1. before \in 0 .. s.cap - 1
          BY <1>1
        <5>2. Slot(s, s.keys[i], before) \in 0 .. s.cap - 1
          BY <1>1, <4>1, <5>1, SlotsAreAll
        <5> QED  BY <2>5, <4>2, <5>2
      <4> QED  BY <4>1, <4>2, <4>3
    <3> QED  BY <3>1, <3>2
  <2> QED  BY <2>4, <2>6, <2>8, <2>9, <2>11 DEF Inserted
<1> QED  BY <1>4, <1>5

LEMMA RoomLeft ==
  ASSUME NEW s, TableOK(s), Cardinality(UsedSlots(s)) < s.cap
  PROVE  HasFree(s)
<1>1. s.cap \in Nat \ {0} /\ DOMAIN s.used = 0 .. s.cap - 1
  BY DEF TableOK
<1>2. SUFFICES ASSUME ~HasFree(s)  PROVE FALSE
  OBVIOUS
<1>3. UsedSlots(s) = 0 .. s.cap - 1
  BY <1>1, <1>2 DEF UsedSlots, HasFree
<1>4. PICK n \in Nat : n = s.cap - 1 /\ s.cap = n + 1
  BY <1>1
<1>5. Cardinality(0 .. n) = n + 1
  BY FS_Interval
<1> QED  BY <1>1, <1>3, <1>4, <1>5

-----------------------------------------------------------------------------
(***************************************************************************)
(* The inductive invariant: both caches keep what was read last, and the   *)
(* table what was read at all, in fewer slots than there were reads.       *)
(***************************************************************************)
Settings ==
  /\ line_bytes \in Nat \ {0}
  /\ \E shape \in Shapes : line_bytes = shape.line_bytes
  /\ \A pc \in Pcs : Hash[pc \div line_bytes] \in Nat

CachesKeep ==
  LRU(real, lines_read) /\ LRU(full, lines_read) /\ full.sets = 1

TableKeeps ==
  /\ TableOK(seen) /\ Chained(seen) /\ Keys(seen) = LinesRead
  /\ itrace_len * 2 + 16 <= seen.cap
  /\ IsFiniteSet(UsedSlots(seen)) /\ Cardinality(UsedSlots(seen)) <= Len(itrace)

IInv ==
  /\ Settings /\ CachesKeep /\ TableKeeps
  /\ itrace \in Seq(Pcs) /\ Len(itrace) <= itrace_len
  /\ counters \in Nat \X Nat \X Nat \X Nat
  /\ IsFiniteSet(LinesRead) /\ CompulsoryOncePerLine

LEMMA ReadLines ==
  ASSUME IInv
  PROVE  /\ lines_read \in Seq(Nat) /\ Len(lines_read) = Len(itrace) /\ Len(itrace) \in Nat
         /\ \A l : Has(lines_read, l) <=> l \in LinesRead
<1>1. /\ itrace \in Seq(Pcs) /\ line_bytes \in Nat \ {0} /\ Pcs \subseteq Nat
      /\ DOMAIN itrace = 1 .. Len(itrace) /\ Len(itrace) \in Nat
  BY CacheSimAssumption DEF IInv, Settings
<1>2. \A k \in 1 .. Len(itrace) : itrace[k] \div line_bytes \in Nat
  <2> TAKE k \in 1 .. Len(itrace)
  <2>1. itrace[k] \in Pcs
    BY <1>1, ElementOfSeq
  <2>2. itrace[k] \in Nat
    BY <1>1, <2>1
  <2> QED  BY <1>1, <2>2, Divide
<1>3. lines_read \in [1 .. Len(itrace) -> Nat]
  BY <1>1, <1>2 DEF lines_read
<1>4. lines_read \in Seq(Nat) /\ Len(lines_read) = Len(itrace)
  BY <1>1, <1>3
<1>5. \A l : Has(lines_read, l) <=> l \in LinesRead
  BY DEF Has, lines_read, LinesRead
<1> QED  BY <1>1, <1>4, <1>5

LEMMA StillRoom ==
  ASSUME IInv
  PROVE  2 * Cardinality(UsedSlots(seen)) < seen.cap /\ HasFree(seen)
<1>1. /\ Cardinality(UsedSlots(seen)) \in Nat /\ Cardinality(UsedSlots(seen)) <= Len(itrace)
      /\ Len(itrace) \in Nat /\ Len(itrace) <= itrace_len /\ itrace_len * 2 + 16 <= seen.cap
      /\ TableOK(seen) /\ seen.cap \in Nat
  BY FS_CardinalityType DEF IInv, TableKeeps, TableOK
<1>2. 2 * Cardinality(UsedSlots(seen)) < seen.cap /\ Cardinality(UsedSlots(seen)) < seen.cap
  BY <1>1, CacheSimAssumption
<1> QED  BY <1>1, <1>2, RoomLeft

Turn(pc) ==
  /\ Len(itrace) < itrace_len
  /\ itrace' = Append(itrace, pc)
  /\ full' = Used(full, pc \div line_bytes, Len(itrace))
  /\ real' = Used(real, pc \div line_bytes, Len(itrace))
  /\ Classify(pc \div line_bytes)
  /\ UNCHANGED line_bytes

LEMMA TurnReads ==
  ASSUME IInv, NEW pc \in Pcs, Turn(pc), NEW l, l = pc \div line_bytes
  PROVE  /\ l \in Nat /\ Hash[l] \in Nat
         /\ lines_read' = Append(lines_read, l)
         /\ LinesRead' = LinesRead \cup {l}
<1>1. /\ itrace \in Seq(Pcs) /\ line_bytes \in Nat \ {0} /\ Pcs \subseteq Nat /\ Hash[l] \in Nat
  BY CacheSimAssumption DEF IInv, Settings
<1>2. l \in Nat
  <2>1. pc \in Nat
    BY <1>1
  <2> QED  BY <1>1, <2>1, Divide
<1>3. /\ itrace' = Append(itrace, pc) /\ line_bytes' = line_bytes
      /\ lines_read \in Seq(Nat) /\ Len(lines_read) = Len(itrace)
  BY ReadLines DEF Turn
<1>4. PICK n \in Nat : n = Len(itrace) /\ DOMAIN itrace = 1 .. n
  BY <1>1
<1>5. /\ DOMAIN itrace' = 1 .. n + 1 /\ itrace'[n + 1] = pc
      /\ \A k \in 1 .. n : itrace'[k] = itrace[k]
  BY <1>1, <1>3, <1>4
<1>6. lines_read' = [k \in 1 .. n + 1 |-> itrace'[k] \div line_bytes]
  BY <1>3, <1>5 DEF lines_read
<1>7. /\ lines_read'[n + 1] = l /\ \A k \in 1 .. n : lines_read'[k] = lines_read[k]
  BY <1>4, <1>5, <1>6 DEF lines_read
<1>8. Append(lines_read, l) = [k \in 1 .. n + 1 |-> IF k = n + 1 THEN l ELSE lines_read[k]]
  BY <1>2, <1>3, <1>4
<1>9. lines_read' = Append(lines_read, l)
  <2>1. lines_read' = [k \in 1 .. n + 1 |-> lines_read'[k]]
    BY <1>6
  <2>2. \A k \in 1 .. n + 1 : lines_read'[k] = IF k = n + 1 THEN l ELSE lines_read[k]
    BY <1>4, <1>7
  <2> QED  BY <1>8, <2>1, <2>2
<1>10. LinesRead' = {lines_read'[k] : k \in 1 .. n + 1}
  BY <1>3, <1>5, <1>6 DEF LinesRead
<1>11. LinesRead = {lines_read[k] : k \in 1 .. n}
  BY <1>4 DEF LinesRead, lines_read
<1>12. LinesRead' = LinesRead \cup {l}
  BY <1>7, <1>10, <1>11
<1> QED  BY <1>1, <1>2, <1>9, <1>12

LEMMA TurnKeeps ==
  ASSUME IInv, NEW pc \in Pcs, Turn(pc)
  PROVE  IInv' /\ real'.sets = real.sets /\ real'.ways = real.ways /\ full'.ways = full.ways
<1>1. PICK l : l = pc \div line_bytes
  OBVIOUS
<1>2. /\ l \in Nat /\ Hash[l] \in Nat
      /\ lines_read' = Append(lines_read, l) /\ LinesRead' = LinesRead \cup {l}
  BY <1>1, TurnReads
<1>3. /\ lines_read \in Seq(Nat) /\ Len(lines_read) = Len(itrace) /\ Len(itrace) \in Nat
      /\ Len(itrace) < itrace_len /\ Len(itrace) < TimeWrap
  BY ReadLines, CacheSimAssumption DEF Turn
<1>4. /\ real' = Used(real, l, Len(lines_read)) /\ full' = Used(full, l, Len(lines_read))
      /\ LRU(real, lines_read) /\ LRU(full, lines_read) /\ full.sets = 1
  BY <1>1, <1>3 DEF Turn, IInv, CachesKeep
<1>5. LRU(real', lines_read') /\ real'.sets = real.sets /\ real'.ways = real.ways
  <2>1. PICK c, d, e : c = real /\ d = real' /\ e = lines_read'
    OBVIOUS
  <2>2. PICK r \in Seq(Nat) : r = lines_read
    BY <1>3
  <2>3. LRU(c, r) /\ Len(r) < TimeWrap /\ d = Used(c, l, Len(r)) /\ e = Append(r, l)
    BY <1>2, <1>3, <1>4, <2>1, <2>2
  <2>4. LRU(d, e) /\ d.sets = c.sets /\ d.ways = c.ways
    BY <1>2, <2>3, UseKeeps, ZenonT(30)
  <2> QED  BY <2>1, <2>4
<1>6. LRU(full', lines_read') /\ full'.sets = full.sets /\ full'.ways = full.ways
  <2>1. PICK c, d, e : c = full /\ d = full' /\ e = lines_read'
    OBVIOUS
  <2>2. PICK r \in Seq(Nat) : r = lines_read
    BY <1>3
  <2>3. LRU(c, r) /\ Len(r) < TimeWrap /\ d = Used(c, l, Len(r)) /\ e = Append(r, l)
    BY <1>2, <1>3, <1>4, <2>1, <2>2
  <2>4. LRU(d, e) /\ d.sets = c.sets /\ d.ways = c.ways
    BY <1>2, <2>3, UseKeeps, ZenonT(30)
  <2> QED  BY <2>1, <2>4
<1>7. CachesKeep'
  BY <1>4, <1>5, <1>6 DEF CachesKeep
<1>8. Settings'
  BY DEF IInv, Settings, Turn
<1>9. itrace' \in Seq(Pcs) /\ Len(itrace') = Len(itrace) + 1 /\ Len(itrace') <= itrace_len
  BY <1>3, CacheSimAssumption DEF Turn, IInv
<1>10. counters' \in Nat \X Nat \X Nat \X Nat
  <2>1. /\ hits \in Nat /\ compulsory_misses \in Nat /\ capacity_misses \in Nat /\ conflict_misses \in Nat
    BY DEF IInv, counters
  <2>2. hits' \in Nat /\ compulsory_misses' \in Nat
    BY <2>1 DEF Turn, Classify
  <2>3. capacity_misses' \in Nat /\ conflict_misses' \in Nat
    BY <2>1 DEF Turn, Classify
  <2> QED  BY <2>2, <2>3 DEF counters
<1>11. /\ TableOK(seen) /\ Chained(seen) /\ Keys(seen) = LinesRead
       /\ itrace_len * 2 + 16 <= seen.cap
       /\ IsFiniteSet(UsedSlots(seen)) /\ Cardinality(UsedSlots(seen)) <= Len(itrace)
       /\ Cardinality(UsedSlots(seen)) \in Nat
  BY FS_CardinalityType DEF IInv, TableKeeps
<1>12. IsNew(seen, l) <=> l \notin LinesRead
  BY <1>2, <1>11, StillRoom, NewIsUnseen
<1>13. Hit(real, l) => l \in LinesRead
  BY <1>2, <1>3, <1>4, HitIsRecent, ReadLines
<1>14. seen' = IF Hit(real, l) THEN seen ELSE seenset_insert_if_new(seen, l)
  BY <1>1, Zenon DEF Turn, Classify
<1>15. TableKeeps'
  <2>1. CASE Hit(real, l)
    <3>1. seen' = seen /\ LinesRead' = LinesRead
      BY <1>2, <1>13, <1>14, <2>1
    <3> QED  BY <1>3, <1>9, <1>11, <3>1 DEF TableKeeps
  <2>2. CASE ~Hit(real, l)
    <3>1. seen' = seenset_insert_if_new(seen, l)
      BY <1>14, <2>2
    <3>2. /\ TableOK(seen') /\ Chained(seen') /\ seen'.cap = seen.cap
          /\ Keys(seen') = Keys(seen) \cup {l}
          /\ \E f : UsedSlots(seen') = UsedSlots(seen) \cup {f}
      <4>1. PICK s, d : s = seen /\ d = seen'
        OBVIOUS
      <4>2. /\ TableOK(s) /\ HasFree(s) /\ Chained(s) /\ d = seenset_insert_if_new(s, l)
        BY <1>11, <3>1, <4>1, StillRoom
      <4>3. Inserted(s, l, d)
        BY <1>2, <4>2, InsertKeeps
      <4> QED  BY <4>1, <4>3 DEF Inserted
    <3>3. PICK f : UsedSlots(seen') = UsedSlots(seen) \cup {f}
      BY <3>2
    <3>4. /\ IsFiniteSet(UsedSlots(seen'))
          /\ Cardinality(UsedSlots(seen')) <= Cardinality(UsedSlots(seen)) + 1
      BY <1>11, <3>3, FS_AddElement
    <3>5. Cardinality(UsedSlots(seen')) \in Nat
      BY <3>4, FS_CardinalityType
    <3>6. Cardinality(UsedSlots(seen')) <= Len(itrace')
      BY <1>3, <1>9, <1>11, <3>4, <3>5
    <3> QED  BY <1>2, <1>11, <3>2, <3>4, <3>6 DEF TableKeeps
  <2> QED  BY <2>1, <2>2
<1>16. IsFiniteSet(LinesRead') /\ CompulsoryOncePerLine'
  <2>1. IsFiniteSet(LinesRead) /\ compulsory_misses = Cardinality(LinesRead) /\ compulsory_misses \in Nat
    BY DEF IInv, CompulsoryOncePerLine, counters
  <2>2. /\ IsFiniteSet(LinesRead')
        /\ Cardinality(LinesRead') = IF l \in LinesRead THEN Cardinality(LinesRead) ELSE Cardinality(LinesRead) + 1
    BY <1>2, <2>1, FS_AddElement
  <2>3. compulsory_misses' = compulsory_misses + (IF ~Hit(real, l) /\ IsNew(seen, l) THEN 1 ELSE 0)
    BY <1>1 DEF Turn, Classify
  <2>4. CASE l \in LinesRead
    BY <1>12, <2>1, <2>2, <2>3, <2>4 DEF CompulsoryOncePerLine
  <2>5. CASE l \notin LinesRead
    BY <1>12, <1>13, <2>1, <2>2, <2>3, <2>5 DEF CompulsoryOncePerLine
  <2> QED  BY <2>2, <2>4, <2>5
<1> QED  BY <1>5, <1>6, <1>7, <1>8, <1>9, <1>10, <1>15, <1>16 DEF IInv

LEMMA CacheStarts ==
  ASSUME NEW m \in Nat \ {0}, NEW n \in Nat \ {0}, NEW a \in Nat, m * n <= a,
         NEW c, c = Cache(m, n, a), NEW r, r = << >>
  PROVE  LRU(c, r) /\ c.sets = m /\ c.ways = n
<1>1. /\ c = [sets |-> m, ways |-> n, lines |-> [k \in 0 .. a - 1 |-> NoLine]]
      /\ c.sets = m /\ c.ways = n /\ c.lines = [k \in 0 .. a - 1 |-> NoLine]
  BY DEF Cache
<1>2. NoLine \in LineType /\ ~NoLine.valid
  BY CacheSimAssumption DEF NoLine, LineType
<1>3. \A set \in 0 .. m - 1 : \A k \in Ways(c, set) : k \in 0 .. a - 1 /\ ~c.lines[k].valid
  <2> SUFFICES ASSUME NEW set \in 0 .. m - 1, NEW k \in Ways(c, set)
               PROVE  k \in 0 .. a - 1
    BY <1>1, <1>2
  <2>1. PICK w \in 0 .. n - 1 : k = set * n + w
    BY <1>1 DEF Ways
  <2>2. m * n >= set * n + n /\ set * n \in Nat /\ m * n \in Nat
    <3>1. PICK d \in Nat : m = (set + 1) + d
      <4>1. m - (set + 1) \in Nat /\ m = (set + 1) + (m - (set + 1))
        OBVIOUS
      <4> QED  BY <4>1
    <3>2. d * n \in Nat /\ ((set + 1) + d) * n = (set * n + n) + d * n
      OBVIOUS
    <3> QED  BY <3>1, <3>2
  <2> QED  BY <2>1, <2>2
<1>4. Shaped(c)
  <2>1. c.lines \in [0 .. a - 1 -> LineType]
    BY <1>1, <1>2
  <2>2. c.lines \in UNION {[0 .. k - 1 -> LineType] : k \in Nat}
    BY <2>1
  <2>3. \A set \in 0 .. c.sets - 1 : Ways(c, set) \subseteq DOMAIN c.lines
    BY <1>1, <1>3
  <2> QED  BY <1>1, <2>2, <2>3 DEF Shaped
<1>5. Stamped(c, r) /\ Single(c)
  BY <1>1, <1>3 DEF Stamped, Single
<1>6. Gone(c, r)
  BY DEF Gone
<1> QED  BY <1>1, <1>4, <1>5, <1>6 DEF LRU

LEMMA TableStarts ==
  ASSUME NEW s, s = new_seenset(itrace_len)
  PROVE  /\ TableOK(s) /\ Chained(s) /\ UsedSlots(s) = {}
         /\ itrace_len * 2 + 16 <= s.cap
<1> DEFINE cap == next_pow2(itrace_len * 2 + 16)
<1>1. itrace_len \in Nat /\ itrace_len * 2 + 16 \in Nat
  BY CacheSimAssumption
<1>2. cap \in Nat /\ cap >= itrace_len * 2 + 16
  BY <1>1, CapOf, TableAssumption
<1>3. s = [cap |-> cap, len |-> 0, used |-> [k \in 0 .. cap - 1 |-> FALSE],
           keys |-> [k \in 0 .. cap - 1 |-> 0]]
  BY DEF new_seenset
<1> HIDE DEF cap
<1>4. /\ s.cap = cap /\ s.len = 0 /\ s.used = [k \in 0 .. cap - 1 |-> FALSE]
      /\ s.keys = [k \in 0 .. cap - 1 |-> 0]
  BY <1>3
<1>5. UsedSlots(s) = {}
  BY <1>4 DEF UsedSlots
<1>6. cap \in Nat \ {0}
  BY <1>1, <1>2
<1>7. TableOK(s)
  <2>1. s = [cap |-> s.cap, len |-> s.len, used |-> s.used, keys |-> s.keys]
    BY <1>3
  <2>2. s.used \in [0 .. s.cap - 1 -> BOOLEAN] /\ s.keys \in [0 .. s.cap - 1 -> Nat]
    BY <1>4
  <2> QED  BY <1>4, <1>5, <1>6, <2>1, <2>2 DEF TableOK
<1> QED  BY <1>1, <1>2, <1>4, <1>5, <1>7 DEF Chained

\* A cache and its full counterpart before the first access.
LEMMA InitKeeps ==
  ASSUME Init
  PROVE  IInv
<1>1. PICK shape \in Shapes :
        /\ line_bytes = shape.line_bytes
        /\ real = Cache(shape.sets, shape.ways, shape.sets * shape.ways)
        /\ full = Cache(1, WaysOfFull(shape), shape.sets * shape.ways)
  BY DEF Init
<1>2. /\ shape.line_bytes \in Nat \ {0} /\ shape.sets \in Nat \ {0} /\ shape.ways \in Nat \ {0}
      /\ WaysOfFull(shape) \in 1 .. shape.sets * shape.ways
      /\ \A pc \in Pcs : Hash[pc \div shape.line_bytes] \in Nat
  BY CacheSimAssumption DEF WaysOfFull
<1>3. itrace = << >> /\ lines_read = << >> /\ LinesRead = {}
  BY DEF Init, lines_read, LinesRead
<1>4. PICK m \in Nat \ {0}, n \in Nat \ {0}, w \in Nat \ {0} :
        m = shape.sets /\ n = shape.ways /\ w = WaysOfFull(shape)
  <2>1. WaysOfFull(shape) \in Nat \ {0}
    BY <1>2
  <2> QED  BY <1>2, <2>1
<1>5. m * n \in Nat /\ w <= m * n /\ m * n <= m * n /\ 1 * w <= m * n
  <2>1. m * n \in Nat
    OBVIOUS
  <2> QED  BY <1>2, <1>4, <2>1
<1>6. LRU(real, lines_read)
  <2>1. PICK c, r : c = real /\ r = lines_read
    OBVIOUS
  <2>2. c = Cache(m, n, m * n) /\ r = << >>
    BY <1>1, <1>3, <1>4, <2>1
  <2>3. LRU(c, r)
    BY <1>5, <2>2, CacheStarts, ZenonT(30)
  <2> QED  BY <2>1, <2>3
<1>7. LRU(full, lines_read) /\ full.sets = 1
  <2>0. PICK one \in Nat \ {0} : one = 1
    OBVIOUS
  <2>1. PICK c, r : c = full /\ r = lines_read
    OBVIOUS
  <2>2. c = Cache(one, w, m * n) /\ r = << >> /\ one * w <= m * n
    BY <1>1, <1>3, <1>4, <1>5, <2>0, <2>1
  <2>3. LRU(c, r)
    BY <1>5, <2>2, CacheStarts, ZenonT(30)
  <2>4. c.sets = 1
    BY <2>0, <2>2 DEF Cache
  <2> QED  BY <2>1, <2>3, <2>4
<1>8. TableKeeps
  <2>1. /\ TableOK(seen) /\ Chained(seen) /\ UsedSlots(seen) = {}
        /\ itrace_len * 2 + 16 <= seen.cap
    BY TableStarts DEF Init
  <2>2. Keys(seen) = {}
    BY <2>1 DEF Keys
  <2>3. IsFiniteSet({}) /\ Cardinality({}) = 0 /\ Len(itrace) = 0
    BY <1>3, FS_EmptySet
  <2> QED  BY <1>3, <2>1, <2>2, <2>3 DEF TableKeeps
<1>9. IsFiniteSet(LinesRead) /\ CompulsoryOncePerLine
  BY <1>3, FS_EmptySet DEF CompulsoryOncePerLine, Init
<1>10. Settings
  BY <1>1, <1>2 DEF Settings
<1>11. itrace \in Seq(Pcs) /\ Len(itrace) <= itrace_len
  BY <1>3, CacheSimAssumption
<1>12. counters \in Nat \X Nat \X Nat \X Nat
  BY DEF Init, counters
<1> QED  BY <1>6, <1>7, <1>8, <1>9, <1>10, <1>11, <1>12 DEF IInv, CachesKeep

LEMMA StepKeeps ==
  ASSUME IInv, [Next]_vars
  PROVE  IInv'
<1>1. CASE Next
  <2>1. PICK pc \in Pcs : Turn(pc)
    BY <1>1 DEF Next, cachesim_eval, Turn
  <2> QED  BY <2>1, TurnKeeps
<1>2. CASE UNCHANGED vars
  <2>1. UNCHANGED <<line_bytes, real, full, seen, itrace, counters>>
    BY <1>2 DEF vars
  <2>2. UNCHANGED <<lines_read, LinesRead>>
    BY <2>1 DEF lines_read, LinesRead
  <2> QED  BY <2>1, <2>2
           DEF IInv, Settings, CachesKeep, TableKeeps, CompulsoryOncePerLine, counters
<1> QED  BY <1>1, <1>2

LEMMA Inductive == Spec => []IInv
BY InitKeeps, StepKeeps, PTL DEF Spec

-----------------------------------------------------------------------------
LEMMA LRUIsOK ==
  ASSUME NEW c, Shaped(c)
  PROVE  CacheOK(c)
<1>1. PICK n \in Nat : c.lines \in [0 .. n - 1 -> LineType]
  BY ShapedLines
<1>2. \A k \in DOMAIN c.lines :
        /\ c.lines[k].valid \in BOOLEAN /\ c.lines[k].tag \in Nat
        /\ c.lines[k].last_used \in 0 .. TimeWrap - 1
  <2> TAKE k \in DOMAIN c.lines
  <2>1. c.lines[k] \in LineType
    BY <1>1
  <2> QED  BY <2>1 DEF LineType
<1> QED  BY <1>2 DEF Shaped, CacheOK

\* The types are kept.  That the ways of the full cache are lines which were
\* allocated is what CacheSimAssumption says of its shape.
LEMMA TypeCorrect == Spec => []TypeOK
<1>1. IInv => TypeOK
  <2> SUFFICES ASSUME IInv  PROVE TypeOK
    OBVIOUS
  <2>1. CacheOK(real) /\ CacheOK(full)
    BY LRUIsOK DEF IInv, CachesKeep, LRU
  <2>2. seen.used \in [0 .. seen.cap - 1 -> BOOLEAN]
    BY DEF IInv, TableKeeps, TableOK
  <2> QED  BY <2>1, <2>2 DEF IInv, Settings, TypeOK
<1> QED  BY <1>1, Inductive, PTL

(***************************************************************************)
(* The table of lines seen stays less than half full, whatever the length  *)
(* of the trace, so that every probe ends ("keep load factor < ~0.5",      *)
(* cachesim.cpp:58).                                                       *)
(***************************************************************************)
THEOREM NeverHalfFull == Spec => []LoadBelowHalf
<1>1. IInv => LoadBelowHalf
  BY StillRoom DEF LoadBelowHalf, UsedSlots
<1> QED  BY <1>1, Inductive, PTL

\* The probe for a line ends at slot number k of its sequence and not before.
EndsAt(line_addr, k) ==
  /\ Found(seen, line_addr) = Slot(seen, line_addr, k)
  /\ Stops(seen, line_addr, Slot(seen, line_addr, k))
  /\ \A before \in 0 .. k - 1 : ~Stops(seen, line_addr, Slot(seen, line_addr, before))

ProbeKnows ==
  \A pc \in Pcs :
    LET line_addr == pc \div line_bytes IN
    /\ \E k \in 0 .. seen.cap - 1 : EndsAt(line_addr, k)
    /\ Found(seen, line_addr) \in DOMAIN seen.used
    /\ seen.used[Found(seen, line_addr)] <=> line_addr \in LinesRead

(***************************************************************************)
(* A probe for any line of the trace ends, within one turn of the table,   *)
(* at a slot in use if the line was read before and at a free one if not,  *)
(* whatever collides with it and wherever the table wraps, although lines  *)
(* the cache holds are not looked up (cachesim.cpp:71-82, 159).            *)
(***************************************************************************)
THEOREM ProbesEnd == Spec => []ProbeKnows
<1>1. ASSUME IInv, NEW pc \in Pcs, NEW l, l = pc \div line_bytes
      PROVE  /\ \E k \in 0 .. seen.cap - 1 : EndsAt(l, k)
             /\ Found(seen, l) \in DOMAIN seen.used
             /\ seen.used[Found(seen, l)] <=> l \in LinesRead
  <2>1. PICK s : s = seen
    OBVIOUS
  <2>2. /\ TableOK(s) /\ HasFree(s) /\ Chained(s) /\ Keys(s) = LinesRead
        /\ Hash[l] \in Nat /\ s.cap \in Nat \ {0} /\ s.used \in [0 .. s.cap - 1 -> BOOLEAN]
    BY <1>1, <2>1, StillRoom DEF IInv, Settings, TableKeeps, TableOK
  <2>3. PICK k \in 0 .. s.cap - 1 :
          /\ Found(s, l) = Slot(s, l, k)
          /\ Stops(s, l, Slot(s, l, k))
          /\ \A before \in 0 .. k - 1 : ~Stops(s, l, Slot(s, l, before))
    BY <2>2, Probe
  <2>4. Found(s, l) \in DOMAIN s.used
    BY <2>2, <2>3, SlotsAreAll
  <2>5. IsNew(s, l) <=> l \notin LinesRead
    BY <2>2, NewIsUnseen
  <2>6. EndsAt(l, k)
    BY <2>1, <2>3 DEF EndsAt
  <2>7. s.used[Found(s, l)] <=> l \in LinesRead
    BY <2>5, Zenon DEF IsNew
  <2> QED  BY <2>1, <2>4, <2>6, <2>7
<1>2. IInv => ProbeKnows
  BY <1>1 DEF ProbeKnows
<1> QED  BY <1>2, Inductive, PTL

(***************************************************************************)
(* The compulsory misses are the lines of the trace, each counted once,    *)
(* for every trace, shape and hash function (cachesim.cpp:163).            *)
(***************************************************************************)
THEOREM EachLineOnce == Spec => []CompulsoryOncePerLine
<1>1. IInv => CompulsoryOncePerLine
  BY DEF IInv
<1> QED  BY <1>1, Inductive, PTL

-----------------------------------------------------------------------------
(* The refinement: a turn is an access of MissClasses.                     *)

LEMMA InitIsAbstract ==
  ASSUME Init
  PROVE  Abstract!Init
<1>1. IInv
  BY InitKeeps
<1>2. real.sets \in Nat \ {0} /\ real.ways \in Nat \ {0} /\ full.ways \in Nat \ {0}
  BY <1>1, ShapedLines DEF IInv, CachesKeep, LRU
<1>3. lines_read = << >>
  BY DEF Init, lines_read
<1>4. [hit |-> hits, compulsory |-> compulsory_misses,
       capacity |-> capacity_misses, conflict |-> conflict_misses]
        = [class \in Abstract!Classes |-> 0]
  BY DEF Init, Abstract!Classes
<1> QED  BY <1>2, <1>3, <1>4 DEF Abstract!Init

LEMMA TurnIsAccess ==
  ASSUME IInv, NEW pc \in Pcs, Turn(pc)
  PROVE  Abstract!Next
<1>1. PICK l : l = pc \div line_bytes
  OBVIOUS
<1>2. l \in Nat /\ Hash[l] \in Nat /\ lines_read' = Append(lines_read, l)
  BY <1>1, TurnReads
<1>3. \A n : Abstract!UsedSince(l, n) = Since(lines_read, l, n)
  BY DEF Abstract!UsedSince, Since
<1>4. Abstract!WasRead(l) <=> l \in LinesRead
  BY ReadLines DEF Abstract!WasRead, Has
<1>5. ASSUME NEW c, LRU(c, lines_read)
      PROVE  Hit(c, l) <=> Abstract!Holds(l, c.sets, c.ways)
  <2>1. PICK r \in Seq(Nat) : r = lines_read
    BY ReadLines
  <2>2. Hit(c, l) => Has(r, l) /\ Cardinality(Since(r, l, c.sets)) < c.ways
    BY <1>2, <1>5, <2>1, HitIsRecent
  <2>3. ~Hit(c, l) /\ Has(r, l) => ~(Cardinality(Since(r, l, c.sets)) < c.ways)
    BY <1>2, <1>5, <2>1, MissIsStale
  <2>4. /\ Abstract!WasRead(l) <=> Has(r, l)
        /\ Abstract!UsedSince(l, c.sets) = Since(r, l, c.sets)
    BY <1>3, <1>4, <2>1, ReadLines
  <2>5. Abstract!Holds(l, c.sets, c.ways) <=>
          Abstract!WasRead(l) /\ Cardinality(Abstract!UsedSince(l, c.sets)) < c.ways
    <3>1. Abstract!Cardinality(Abstract!UsedSince(l, c.sets)) = Cardinality(Abstract!UsedSince(l, c.sets))
      BY DEF Abstract!Cardinality, Cardinality
    <3> QED  BY <3>1 DEF Abstract!Holds
  <2> HIDE DEF Abstract!Holds
  <2> QED  BY <2>2, <2>3, <2>4, <2>5
<1>6. /\ Hit(real, l) <=> Abstract!Holds(l, real.sets, real.ways)
      /\ Hit(full, l) <=> Abstract!Holds(l, 1, full.ways)
  BY <1>5 DEF IInv, CachesKeep
<1>7. IsNew(seen, l) <=> l \notin LinesRead
  BY <1>2, StillRoom, NewIsUnseen DEF IInv, TableKeeps
<1>8. Abstract!Class(l) =
        IF Hit(real, l) THEN "hit" ELSE IF IsNew(seen, l) THEN "compulsory"
        ELSE IF Hit(full, l) THEN "capacity" ELSE "conflict"
  BY <1>4, <1>6, <1>7 DEF Abstract!Class
<1> DEFINE count == [hit |-> hits, compulsory |-> compulsory_misses,
                     capacity |-> capacity_misses, conflict |-> conflict_misses]
<1>9. count' = [count EXCEPT ![Abstract!Class(l)] = @ + 1]
  <2>1. /\ hits \in Nat /\ compulsory_misses \in Nat /\ capacity_misses \in Nat /\ conflict_misses \in Nat
    BY DEF IInv, counters
  <2>2. /\ hits' = hits + (IF Hit(real, l) THEN 1 ELSE 0)
        /\ compulsory_misses' = compulsory_misses + (IF ~Hit(real, l) /\ IsNew(seen, l) THEN 1 ELSE 0)
        /\ capacity_misses' = capacity_misses +
             (IF ~Hit(real, l) /\ ~IsNew(seen, l) /\ Hit(full, l) THEN 1 ELSE 0)
        /\ conflict_misses' = conflict_misses +
             (IF ~Hit(real, l) /\ ~IsNew(seen, l) /\ ~Hit(full, l) THEN 1 ELSE 0)
    BY <1>1 DEF Turn, Classify
  <2>3. CASE Hit(real, l)
    BY <1>8, <2>1, <2>2, <2>3
  <2>4. CASE ~Hit(real, l) /\ IsNew(seen, l)
    BY <1>8, <2>1, <2>2, <2>4
  <2>5. CASE ~Hit(real, l) /\ ~IsNew(seen, l) /\ Hit(full, l)
    BY <1>8, <2>1, <2>2, <2>5
  <2>6. CASE ~Hit(real, l) /\ ~IsNew(seen, l) /\ ~Hit(full, l)
    BY <1>8, <2>1, <2>2, <2>6
  <2> QED  BY <2>3, <2>4, <2>5, <2>6
<1>10. real'.sets = real.sets /\ real'.ways = real.ways /\ full'.ways = full.ways
  BY TurnKeeps
<1>11. Abstract!Access(l)
  BY <1>2, <1>9, <1>10 DEF Abstract!Access
<1>12. l \in {p \div s.line_bytes : p \in Pcs, s \in Shapes}
  BY <1>1 DEF IInv, Settings
<1> QED  BY <1>11, <1>12 DEF Abstract!Next

(***************************************************************************)
(* The simulator counts every access as MissClasses does from the trace    *)
(* alone: scanning for the smallest time stamp is least recently used, and *)
(* the table holds the lines read, for every trace, shape of the caches    *)
(* and hash function (cachesim.cpp:108-170).                               *)
(***************************************************************************)
THEOREM IsMissClasses == Spec => ImplementsMissClasses
<1>1. IInv /\ [Next]_vars => [Abstract!Next]_(Abstract!vars)
  <2> SUFFICES ASSUME IInv, [Next]_vars  PROVE [Abstract!Next]_(Abstract!vars)
    OBVIOUS
  <2>1. CASE Next
    <3>1. PICK pc \in Pcs : Turn(pc)
      BY <2>1 DEF Next, cachesim_eval, Turn
    <3> QED  BY <3>1, TurnIsAccess
  <2>2. CASE UNCHANGED vars
    BY <2>2 DEF vars, counters, Abstract!vars, lines_read
  <2> QED  BY <2>1, <2>2
<1> QED  BY <1>1, InitIsAbstract, Inductive, PTL DEF Spec, ImplementsMissClasses, Abstract!Spec
=============================================================================
