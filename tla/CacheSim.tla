------------------------------ MODULE CacheSim -------------------------------
(***************************************************************************)
(* The cache simulator (cachesim.cpp): a trace of fetched addresses is run *)
(* through a cache and through a fully associative one, and every access   *)
(* is counted as a hit or as a miss of one of three classes.  The file is  *)
(* a draft; README.md lists how what does not compile in it is read.       *)
(***************************************************************************)
EXTENDS Naturals, Sequences, FiniteSetsExt

CONSTANTS
  Pcs,         \* the addresses of the trace
  Shapes,      \* what new_cachesim is given
  itrace_len,
  Hash,        \* hash32_64: any function of a line
  TimeWrap     \* 2^32: last_used is a uint32_t, the time is not

ASSUME CacheSimAssumption ==
  /\ Pcs \subseteq Nat /\ itrace_len \in Nat
  /\ TimeWrap \in Nat \ {0} /\ itrace_len <= TimeWrap
  /\ \A s \in Shapes :
       /\ {s.sets, s.ways, s.total_bytes, s.line_bytes} \subseteq Nat \ {0}
       /\ s.total_bytes \div s.line_bytes \in 1 .. s.sets * s.ways
       /\ \A pc \in Pcs : Hash[pc \div s.line_bytes] \in Nat

VARIABLES
  line_bytes, real, full, seen,
  itrace,      \* the part of the trace that has been read
  hits, compulsory_misses, capacity_misses, conflict_misses

counters == <<hits, compulsory_misses, capacity_misses, conflict_misses>>
vars == <<line_bytes, real, full, seen, itrace, counters>>

-----------------------------------------------------------------------------
(* The set of the lines seen before: a hash table, probed linearly.        *)

\* The first power of 2 that is not below x; x is 16 or more here.
PowersFrom(x) == {p \in x .. 2 * x : \E k \in 0 .. 30 : p = 2^k}
next_pow2(x) == Min(PowersFrom(x))

\* The table is small enough for the loop of next_pow2 to end.
ASSUME TableAssumption == PowersFrom(itrace_len * 2 + 16) # {}

\* Slip: the table is as large as what it holds.
new_seenset_Tight(expected_items) ==
  LET cap == next_pow2(expected_items) IN
  [cap |-> cap, len |-> 0, used |-> [k \in 0 .. cap - 1 |-> FALSE],
   keys |-> [k \in 0 .. cap - 1 |-> 0]]

new_seenset(expected_items) ==
  LET cap == next_pow2(expected_items * 2 + 16) IN
  [cap |-> cap, len |-> 0, used |-> [k \in 0 .. cap - 1 |-> FALSE],
   keys |-> [k \in 0 .. cap - 1 |-> 0]]

\* The kth slot probed for key, the first for k = 0.
Slot(s, key, k) ==
  LET i == (Hash[key] % s.cap) + k IN
  IF i < s.cap THEN i ELSE i - s.cap

\* Slip: a slot in use is taken for the key's.
Stops_Used(s, key, i) == TRUE

Stops(s, key, i) == ~s.used[i] \/ s.keys[i] = key

\* The slot the probe ends at; there is one, see LoadBelowHalf.
Found(s, key) ==
  Slot(s, key, Min({k \in 0 .. s.cap - 1 : Stops(s, key, Slot(s, key, k))}))

IsNew(s, key) == ~s.used[Found(s, key)]

seenset_insert_if_new(s, key) ==
  IF ~IsNew(s, key) THEN s
  ELSE [s EXCEPT !.used[Found(s, key)] = TRUE, !.keys[Found(s, key)] = key, !.len = @ + 1]

-----------------------------------------------------------------------------
(* A cache.                                                                *)

NoLine == [valid |-> FALSE, tag |-> 0, last_used |-> 0]

Cache(sets, ways, allocated) ==
  [sets |-> sets, ways |-> ways, lines |-> [k \in 0 .. allocated - 1 |-> NoLine]]

\* Slip: one way too many.
WaysOfFull_Past(shape) == shape.total_bytes \div shape.line_bytes + 1

WaysOfFull(shape) == shape.total_bytes \div shape.line_bytes

tag(c, line_addr) == line_addr \div c.sets
set_idx(c, line_addr) == line_addr % c.sets

Ways(c, set) == {set * c.ways + w : w \in 0 .. c.ways - 1}

Holding(c, line_addr) ==
  {k \in Ways(c, set_idx(c, line_addr)) :
     c.lines[k].valid /\ c.lines[k].tag = tag(c, line_addr)}

Hit(c, line_addr) == Holding(c, line_addr) # {}

Invalid(c, set) == {k \in Ways(c, set) : ~c.lines[k].valid}

Oldest(c, set) ==
  {k \in Ways(c, set) : \A other \in Ways(c, set) : c.lines[k].last_used <= c.lines[other].last_used}

victim(c, set) == Min(IF Invalid(c, set) # {} THEN Invalid(c, set) ELSE Oldest(c, set))

\* Slip: a hit does not count as a use (first in, first out).
Used_Filled(c, line_addr, time) ==
  IF Hit(c, line_addr) THEN c
  ELSE [c EXCEPT !.lines[victim(c, set_idx(c, line_addr))] =
          [valid |-> TRUE, tag |-> tag(c, line_addr), last_used |-> time % TimeWrap]]

\* The cache after cache_access; Hit says what that returns.
Used(c, line_addr, time) ==
  IF Hit(c, line_addr)
  THEN [c EXCEPT !.lines[Min(Holding(c, line_addr))].last_used = time % TimeWrap]
  ELSE [c EXCEPT !.lines[victim(c, set_idx(c, line_addr))] =
          [valid |-> TRUE, tag |-> tag(c, line_addr), last_used |-> time % TimeWrap]]

-----------------------------------------------------------------------------
\* new_cachesim, calloc and the initializer setting the rest to 0.
Init ==
  \E shape \in Shapes :
    /\ line_bytes = shape.line_bytes
    /\ real = Cache(shape.sets, shape.ways, shape.sets * shape.ways)
    /\ full = Cache(1, WaysOfFull(shape), shape.sets * shape.ways)
    /\ seen = new_seenset(itrace_len)
    /\ itrace = <<>>
    /\ hits = 0 /\ compulsory_misses = 0 /\ capacity_misses = 0 /\ conflict_misses = 0

Classify(line_addr) ==
  LET real_hit == Hit(real, line_addr)
      full_hit == Hit(full, line_addr)
      first == IsNew(seen, line_addr) IN
  /\ hits' = hits + (IF real_hit THEN 1 ELSE 0)
  /\ seen' = IF real_hit THEN seen ELSE seenset_insert_if_new(seen, line_addr)
  /\ compulsory_misses' = compulsory_misses + (IF ~real_hit /\ first THEN 1 ELSE 0)
  /\ capacity_misses' = capacity_misses + (IF ~real_hit /\ ~first /\ full_hit THEN 1 ELSE 0)
  /\ conflict_misses' = conflict_misses + (IF ~real_hit /\ ~first /\ ~full_hit THEN 1 ELSE 0)

\* One turn of the loop of cachesim_eval.
cachesim_eval ==
  /\ Len(itrace) < itrace_len
  /\ \E pc \in Pcs :
       LET line_addr == pc \div line_bytes IN
       /\ itrace' = Append(itrace, pc)
       /\ full' = Used(full, line_addr, Len(itrace))
       /\ real' = Used(real, line_addr, Len(itrace))
       /\ Classify(line_addr)
  /\ UNCHANGED line_bytes

Next == cachesim_eval

Spec == Init /\ [][Next]_vars

-----------------------------------------------------------------------------
(* Properties.                                                             *)

CacheOK(c) ==
  /\ \A k \in DOMAIN c.lines :
       /\ c.lines[k].valid \in BOOLEAN /\ c.lines[k].tag \in Nat
       /\ c.lines[k].last_used \in 0 .. TimeWrap - 1
  /\ \A set \in 0 .. c.sets - 1 : Ways(c, set) \subseteq DOMAIN c.lines

\* Types; and every way of every set is one of the lines that were allocated,
\* which of the full cache holds for shapes that fit (CacheSimAssumption).
TypeOK ==
  /\ CacheOK(real) /\ CacheOK(full)
  /\ line_bytes \in Nat \ {0}
  /\ seen.used \in [0 .. seen.cap - 1 -> BOOLEAN]
  /\ itrace \in Seq(Pcs) /\ Len(itrace) <= itrace_len
  /\ counters \in Nat \X Nat \X Nat \X Nat

LinesRead == {itrace[k] \div line_bytes : k \in DOMAIN itrace}

\* "keep load factor < ~0.5" (cachesim.cpp:58): a probe of the table always
\* finds a free slot, however the lines are hashed.
LoadBelowHalf == 2 * Cardinality({k \in DOMAIN seen.used : seen.used[k]}) < seen.cap

\* The lines are only looked up in the table when the cache misses, and the
\* table is filled by nothing else; yet the misses counted as compulsory are
\* exactly the lines of the trace, each once, wherever hashing and probing
\* put them, and so no hit is on a line that was not counted before.
CompulsoryOncePerLine == compulsory_misses = Cardinality(LinesRead)

lines_read == [k \in DOMAIN itrace |-> itrace[k] \div line_bytes]

\* Time stamps and scans keep in every set the lines used last, and the table
\* the lines read before: each access is counted as MissClasses says, which
\* knows the trace alone ("evict LRU (smallest last_used)", cachesim.cpp:123).
Abstract == INSTANCE MissClasses WITH
  Lines <- {pc \div s.line_bytes : pc \in Pcs, s \in Shapes},
  sets <- real.sets, ways <- real.ways, full_ways <- full.ways,
  read <- lines_read,
  count <- [hit |-> hits, compulsory |-> compulsory_misses,
            capacity |-> capacity_misses, conflict |-> conflict_misses]

ImplementsMissClasses == Abstract!Spec
=============================================================================
